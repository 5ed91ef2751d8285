---------------------------- MODULE SearchProofs ----------------------------
(***************************************************************************)
(* The lexical index. For any set of ids, any finite vocabulary and any    *)
(* cap, every index that upserts and removals can build is sound           *)
(* (IndexSound) and behaves as the capped map of Bm25Corpus                *)
(* (ImplementsCorpus). An upsert of a known id is a removal followed by an *)
(* insertion within one step, so the invariant is one of index values,     *)
(* IndexInv(ix), kept by both functions. It adds to IndexSound what a      *)
(* removal reads of the slots: a free slot has no terms and no length      *)
(* (SlotContents).                                                         *)
(*                                                                         *)
(* The tools of agents. For any names, any contents of the indexes and any *)
(* number of messages, what an agent is told of its calls is true          *)
(* (ToolsSound). The invariant, CallInv, follows a call: what has been     *)
(* sent and carried out while it is under way (Underway), and what the     *)
(* reply says of it at the end (Replied).                                  *)
(*                                                                         *)
(* The handlers that read. For any indexes, files, sizes of a page and of  *)
(* the LRU, and any changes and restarts meanwhile, what a reader is shown *)
(* is right (ApiSound). The pages so far are the beginning of the one      *)
(* order of a distinct corpus (Pages), which is defined by ranks, without  *)
(* the map's order; the hits of a request for similar chunks stay a part   *)
(* of the vectors while nobody else is at work (Following).                *)
(*                                                                         *)
(* The search of all indexes. For any indexes, contexts, requests and      *)
(* lists of hits, the likely indexes are asked and the answer merges what  *)
(* they brought (GlobalSound). Whatever n lists have been fused, what is   *)
(* kept is the beginning of a merge of all of them (FusedOK), which goes   *)
(* on list by list (FusedSteps) and so holds of the last: of several for   *)
(* which it failed, one would be the first (FusedIs).                      *)
(***************************************************************************)
EXTENDS Bm25Index, McpServer, GlobalSearch, Search, FiniteSetTheorems, TLAPS

-----------------------------------------------------------------------------
(* The lexical index.                                                      *)

\* An index has the nine fields of the struct.
Shape(ix) == DOMAIN ix =
    {"id_to_slot", "slot_to_id", "doc_terms", "doc_lengths", "free_slots", "doc_freqs",
     "inverted", "live_docs", "avg_doc_len"}

SlotContents(ix) == \A s \in Slots(ix) :
    IF ix.slot_to_id[s] = Absent
      THEN ix.doc_terms[s] = Absent /\ ix.doc_lengths[s] = Absent
      ELSE /\ ix.doc_terms[s] \in SUBSET Term
           /\ ix.doc_lengths[s] = Cardinality(ix.doc_terms[s])

AverageOf(ix) ==
    IF ix.live_docs = 0 THEN <<0, 0>>
    ELSE <<Total([s \in LiveSlots(ix) |-> Cardinality(ix.doc_terms[s])]), ix.live_docs>>

IndexInv(ix) ==
    /\ Shape(ix) /\ TypeOK(ix) /\ SlotsPartitioned(ix) /\ PostingsExact(ix)
    /\ SlotContents(ix) /\ ix.avg_doc_len = AverageOf(ix)

\* What a call does to the documents.
Put(documents, id, value) == [documents EXCEPT ![id] = value]

-----------------------------------------------------------------------------
(* Sequences without repetition.                                           *)

\* Filtering one slot out of a posting list that has it once.
LEMMA RetainOthers ==
    ASSUME NEW S, NEW list \in Seq(S), IsInjective(list), NEW slot \in Range(list)
    PROVE  LET rest == retain_others(list, slot)
           IN  /\ rest \in Seq(S) /\ Len(rest) = Len(list) - 1
               /\ Range(rest) = Range(list) \ {slot}
               /\ IsInjective(rest)
<1> DEFINE n == Len(list)
           kept == {i \in DOMAIN list : list[i] # slot}
           upto(i) == {j \in kept : j <= i}
           at(k) == CHOOSE i \in kept : Cardinality(upto(i)) = k
           rest == retain_others(list, slot)
<1>1. n \in Nat /\ DOMAIN list = 1..n /\ \A i \in 1..n : list[i] \in S
  OBVIOUS
<1>2. PICK p \in 1..n : list[p] = slot
  BY <1>1 DEF Range
<1>3. kept = (1..n) \ {p}
  BY <1>1, <1>2 DEF IsInjective
<1>4. Cardinality(kept) = n - 1
  <2>1. IsFiniteSet(1..n) /\ Cardinality(1..n) = n
    BY <1>1, FS_Interval
  <2> HIDE DEF kept, n
  <2> QED BY <1>2, <1>3, <2>1, FS_RemoveElement
<1>5. \A i \in kept : Cardinality(upto(i)) = IF i < p THEN i ELSE i - 1
  <2> TAKE i \in kept
  <2>1. IsFiniteSet(1..i) /\ Cardinality(1..i) = i
    BY <1>1, <1>3, FS_Interval
  <2>2. CASE i < p
    <3>1. upto(i) = 1..i
      BY <1>1, <1>2, <1>3, <2>2
    <3> QED BY <2>1, <2>2, <3>1
  <2>3. CASE ~(i < p)
    <3>1. upto(i) = (1..i) \ {p} /\ p \in 1..i
      BY <1>1, <1>2, <1>3, <2>3
    <3> QED BY <2>1, <2>3, <3>1, FS_RemoveElement
  <2> QED BY <2>2, <2>3
<1>6. \A k \in 1..(n - 1) : at(k) = IF k < p THEN k ELSE k + 1
  <2> TAKE k \in 1..(n - 1)
  <2> DEFINE i == IF k < p THEN k ELSE k + 1
  <2> HIDE DEF upto
  <2>1. i \in kept /\ Cardinality(upto(i)) = k
    BY <1>1, <1>2, <1>3, <1>5
  <2>2. \A j \in kept : Cardinality(upto(j)) = k => j = i
    BY <1>1, <1>2, <1>3, <1>5
  <2> QED BY <2>1, <2>2
<1>7. rest = [k \in 1..(n - 1) |-> list[at(k)]]
  <2>1. rest = [k \in 1..Cardinality(kept) |-> list[at(k)]]
    BY Zenon DEF retain_others
  <2> HIDE DEF kept, at, rest, n
  <2> QED BY <1>4, <2>1
<1>8. rest = [k \in 1..(n - 1) |-> list[IF k < p THEN k ELSE k + 1]]
  <2> HIDE DEF at, rest
  <2> QED BY <1>6, <1>7
<1>9. rest \in Seq(S) /\ Len(rest) = n - 1 /\ DOMAIN rest = 1..(n - 1)
  BY <1>1, <1>2, <1>8
<1>10. IsInjective(rest)
  BY <1>1, <1>2, <1>8, <1>9 DEF IsInjective
<1>11. Range(rest) = Range(list) \ {slot}
  <2>1. ASSUME NEW i \in 1..n, i # p PROVE \E k \in 1..(n - 1) : rest[k] = list[i]
    <3>1. CASE i < p
      BY <1>1, <1>2, <1>8, <2>1, <3>1
    <3>2. CASE i > p
      <4>1. i - 1 \in 1..(n - 1) /\ rest[i - 1] = list[i]
        BY <1>1, <1>2, <1>8, <2>1, <3>2
      <4> QED BY <4>1
    <3> QED BY <1>1, <1>2, <2>1, <3>1, <3>2
  <2>2. \A k \in 1..(n - 1) : rest[k] \in Range(list) \ {slot}
    BY <1>1, <1>2, <1>8 DEF Range, IsInjective
  <2>3. \A e \in Range(list) \ {slot} : \E i \in 1..n : i # p /\ list[i] = e
    BY <1>1, <1>2 DEF Range
  <2>4. Range(list) \ {slot} \subseteq Range(rest)
    <3> HIDE DEF n, rest
    <3> QED BY <1>9, <2>1, <2>3 DEF Range
  <2>5. Range(rest) \subseteq Range(list) \ {slot}
    <3> HIDE DEF n, rest
    <3> QED BY <1>9, <2>2 DEF Range
  <2> QED BY <2>4, <2>5
<1> QED BY <1>9, <1>10, <1>11

\* A list of slots stays one when the index grows.
LEMMA MoreSlots ==
    ASSUME NEW S, NEW T, S \subseteq T, NEW list \in Seq(S)
    PROVE  list \in Seq(T)
OBVIOUS

\* Pushing a slot onto a list that does not have it.
LEMMA AppendFresh ==
    ASSUME NEW S, NEW list \in Seq(S), IsInjective(list), NEW e \in S, e \notin Range(list)
    PROVE  LET more == Append(list, e)
           IN  /\ more \in Seq(S) /\ Len(more) = Len(list) + 1
               /\ Range(more) = Range(list) \cup {e}
               /\ IsInjective(more)
BY DEF Range, IsInjective

\* Popping a free list.
LEMMA TakeLast ==
    ASSUME NEW S, NEW list \in Seq(S), IsInjective(list), list # <<>>
    PROVE  /\ Last(list) \in Range(list)
           /\ Front(list) \in Seq(S)
           /\ Range(Front(list)) = Range(list) \ {Last(list)}
           /\ IsInjective(Front(list))
<1>1. Len(list) \in Nat \ {0} /\ DOMAIN list = 1..Len(list)
  OBVIOUS
<1>2. Front(list) \in Seq(S) /\ Len(Front(list)) = Len(list) - 1
  BY <1>1 DEF Front
<1>3. \A i \in 1..(Len(list) - 1) : Front(list)[i] = list[i]
  BY <1>1 DEF Front
<1> QED BY <1>1, <1>2, <1>3 DEF Last, Range, IsInjective

-----------------------------------------------------------------------------
(* Index values.                                                           *)

\* The facts of the invariant every step below starts from.
LEMMA InvTypes ==
    ASSUME NEW ix, IndexInv(ix)
    PROVE  /\ Len(ix.slot_to_id) \in Nat
           /\ Slots(ix) = 1..Len(ix.slot_to_id)
           /\ DOMAIN ix.doc_terms = Slots(ix) /\ DOMAIN ix.doc_lengths = Slots(ix)
           /\ LiveSlots(ix) \subseteq Slots(ix)
           /\ IsFiniteSet(LiveSlots(ix))
           /\ ix.live_docs = Cardinality(LiveSlots(ix)) /\ ix.live_docs \in Nat
           /\ \A s \in LiveSlots(ix) : ix.slot_to_id[s] \in Id
           /\ \A id \in Id : ix.id_to_slot[id] # 0 => ix.id_to_slot[id] \in LiveSlots(ix)
<1>1. TypeOK(ix) /\ SlotsPartitioned(ix)
  BY DEF IndexInv
<1>2. Len(ix.slot_to_id) \in Nat /\ Slots(ix) = 1..Len(ix.slot_to_id)
  BY <1>1 DEF TypeOK, Slots
<1>3. DOMAIN ix.doc_terms = Slots(ix) /\ DOMAIN ix.doc_lengths = Slots(ix)
  BY <1>1, <1>2 DEF TypeOK
<1>4. LiveSlots(ix) \subseteq Slots(ix)
  BY DEF LiveSlots
<1>5. IsFiniteSet(LiveSlots(ix))
  <2>1. IsFiniteSet(Slots(ix))
    BY <1>2, FS_Interval
  <2> QED BY <1>4, <2>1, FS_Subset
<1>6. ix.live_docs = Cardinality(LiveSlots(ix)) /\ ix.live_docs \in Nat
  BY <1>1, Bm25Assumption DEF TypeOK, SlotsPartitioned
<1>7. \A s \in LiveSlots(ix) : ix.slot_to_id[s] \in Id
  BY <1>1, <1>2 DEF TypeOK, LiveSlots
<1>8. \A id \in Id : ix.id_to_slot[id] # 0 => ix.id_to_slot[id] \in LiveSlots(ix)
  <2> TAKE id \in Id
  <2> HAVE ix.id_to_slot[id] # 0
  <2>1. ix.id_to_slot[id] \in 1..Len(ix.slot_to_id)
    BY <1>1, <1>2 DEF TypeOK
  <2>2. ix.slot_to_id[ix.id_to_slot[id]] = id
    BY <1>1 DEF SlotsPartitioned
  <2> QED BY <1>2, <2>1, <2>2, Bm25Assumption DEF LiveSlots
<1> QED BY <1>2, <1>3, <1>4, <1>5, <1>6, <1>7, <1>8

\* refresh_avg_doc_len recomputes the average and touches nothing else.
LEMMA Refresh ==
    ASSUME NEW ix, Shape(ix)
    PROVE  LET r == refresh_avg_doc_len(ix)
           IN  /\ Shape(r)
               /\ r.id_to_slot = ix.id_to_slot /\ r.slot_to_id = ix.slot_to_id
               /\ r.doc_terms = ix.doc_terms /\ r.doc_lengths = ix.doc_lengths
               /\ r.free_slots = ix.free_slots /\ r.doc_freqs = ix.doc_freqs
               /\ r.inverted = ix.inverted /\ r.live_docs = ix.live_docs
               /\ r.avg_doc_len =
                     IF ix.live_docs = 0 THEN <<0, 0>>
                     ELSE <<Total([s \in {x \in Slots(ix) : ix.doc_lengths[x] # Absent} |->
                                      ix.doc_lengths[s]]), ix.live_docs>>
<1> DEFINE avg == IF ix.live_docs = 0 THEN <<0, 0>>
                  ELSE <<Total([s \in {x \in Slots(ix) : ix.doc_lengths[x] # Absent} |->
                                   ix.doc_lengths[s]]), ix.live_docs>>
           r == refresh_avg_doc_len(ix)
<1>1. r = [ix EXCEPT !.avg_doc_len = avg]
  BY DEF refresh_avg_doc_len
<1> HIDE DEF avg, r
<1>2. /\ Shape(r)
      /\ r.id_to_slot = ix.id_to_slot /\ r.slot_to_id = ix.slot_to_id
      /\ r.doc_terms = ix.doc_terms /\ r.doc_lengths = ix.doc_lengths
      /\ r.free_slots = ix.free_slots /\ r.doc_freqs = ix.doc_freqs
      /\ r.inverted = ix.inverted /\ r.live_docs = ix.live_docs
      /\ r.avg_doc_len = avg
  BY <1>1 DEF Shape
<1> QED BY <1>2 DEF r, avg

\* After a refresh the average is that of the live documents.
LEMMA RefreshAverage ==
    ASSUME NEW ix, Shape(ix), SlotContents(ix)
    PROVE  LET r == refresh_avg_doc_len(ix) IN r.avg_doc_len = AverageOf(r)
<1> DEFINE r == refresh_avg_doc_len(ix)
           counted == {x \in Slots(ix) : ix.doc_lengths[x] # Absent}
           lengths == [s \in counted |-> ix.doc_lengths[s]]
           sizes == [s \in LiveSlots(r) |-> Cardinality(r.doc_terms[s])]
<1>1. /\ r.slot_to_id = ix.slot_to_id /\ r.doc_terms = ix.doc_terms
      /\ r.live_docs = ix.live_docs
      /\ r.avg_doc_len = IF ix.live_docs = 0 THEN <<0, 0>> ELSE <<Total(lengths), ix.live_docs>>
  BY Refresh
<1>2. \A terms \in SUBSET Term : Cardinality(terms) \in Nat /\ Cardinality(terms) # Absent
  BY Bm25Assumption, FS_Subset, FS_CardinalityType
<1>3. LiveSlots(r) = LiveSlots(ix)
  BY <1>1 DEF LiveSlots, Slots
<1>4. counted = LiveSlots(ix)
  BY <1>2 DEF SlotContents, LiveSlots
<1>5. \A s \in counted : ix.doc_lengths[s] = Cardinality(r.doc_terms[s])
  BY <1>1, <1>4 DEF SlotContents, LiveSlots
<1>6. lengths = sizes
  BY <1>3, <1>4, <1>5
<1>7. AverageOf(r) = IF r.live_docs = 0 THEN <<0, 0>> ELSE <<Total(sizes), r.live_docs>>
  BY DEF AverageOf
<1> HIDE DEF r, lengths, sizes
<1> QED BY <1>1, <1>6, <1>7 DEF r

\* So a refresh completes the invariant.
LEMMA RefreshInv ==
    ASSUME NEW ix, Shape(ix), TypeOK(ix), SlotsPartitioned(ix), PostingsExact(ix),
           SlotContents(ix)
    PROVE  LET r == refresh_avg_doc_len(ix)
           IN  /\ IndexInv(r)
               /\ r.id_to_slot = ix.id_to_slot /\ r.live_docs = ix.live_docs
               /\ docs_of(r) = docs_of(ix)
<1> DEFINE r == refresh_avg_doc_len(ix)
<1>1. /\ Shape(r)
      /\ r.id_to_slot = ix.id_to_slot /\ r.slot_to_id = ix.slot_to_id
      /\ r.doc_terms = ix.doc_terms /\ r.doc_lengths = ix.doc_lengths
      /\ r.free_slots = ix.free_slots /\ r.doc_freqs = ix.doc_freqs
      /\ r.inverted = ix.inverted /\ r.live_docs = ix.live_docs
  BY Refresh
<1>2. r.avg_doc_len = AverageOf(r)
  BY RefreshAverage
<1> HIDE DEF r
<1>3. Slots(r) = Slots(ix) /\ LiveSlots(r) = LiveSlots(ix)
  BY <1>1 DEF LiveSlots, Slots
<1>4. TypeOK(r)
  BY <1>1 DEF TypeOK
<1>5. SlotsPartitioned(r) /\ PostingsExact(r) /\ SlotContents(r)
  BY <1>1, <1>3 DEF SlotsPartitioned, PostingsExact, SlotContents
<1>6. docs_of(r) = docs_of(ix)
  BY <1>1 DEF docs_of
<1> QED BY <1>1, <1>2, <1>4, <1>5, <1>6 DEF IndexInv, r

-----------------------------------------------------------------------------
(* remove_document.                                                        *)

\* What a removal does to the fields, but for the average.
FreesSlot(ix, id, freed) ==
    LET slot == ix.id_to_slot[id]
        terms == ix.doc_terms[slot]
    IN  /\ freed.id_to_slot = [ix.id_to_slot EXCEPT ![id] = 0]
        /\ freed.slot_to_id = [ix.slot_to_id EXCEPT ![slot] = Absent]
        /\ freed.doc_terms = [ix.doc_terms EXCEPT ![slot] = Absent]
        /\ freed.doc_lengths = [ix.doc_lengths EXCEPT ![slot] = Absent]
        /\ freed.free_slots = Append(ix.free_slots, slot)
        /\ freed.doc_freqs =
              [t \in Term |-> IF t \in terms /\ ix.doc_freqs[t] > 0
                                 THEN ix.doc_freqs[t] - 1 ELSE ix.doc_freqs[t]]
        /\ freed.inverted =
              [t \in Term |-> IF t \in terms THEN retain_others(ix.inverted[t], slot)
                                              ELSE ix.inverted[t]]
        /\ freed.live_docs = IF ix.live_docs > 0 THEN ix.live_docs - 1 ELSE 0

\* remove_document of an indexed id, as a list of the fields it leaves.
LEMMA RemoveFields ==
    ASSUME NEW ix, Shape(ix), NEW id \in Id, ix.id_to_slot[id] # 0
    PROVE  \E freed : /\ Shape(freed) /\ FreesSlot(ix, id, freed)
                      /\ remove_document(ix, id) = refresh_avg_doc_len(freed)
<1> DEFINE slot == ix.id_to_slot[id]
           terms == ix.doc_terms[slot]
           freqs(f) == [t \in Term |-> IF t \in terms /\ f[t] > 0 THEN f[t] - 1 ELSE f[t]]
           lists(f) == [t \in Term |-> IF t \in terms THEN retain_others(f[t], slot) ELSE f[t]]
           freed == [ix EXCEPT !.id_to_slot[id] = 0,
                               !.doc_freqs = freqs(@),
                               !.inverted = lists(@),
                               !.doc_terms[slot] = Absent,
                               !.doc_lengths[slot] = Absent,
                               !.slot_to_id[slot] = Absent,
                               !.free_slots = Append(@, slot),
                               !.live_docs = IF @ > 0 THEN @ - 1 ELSE 0]
<1>1. remove_document(ix, id) = refresh_avg_doc_len(freed)
  BY DEF remove_document
<1>2. Shape(freed)
  BY DEF Shape
<1>3. FreesSlot(ix, id, freed)
  <2>1. /\ freed.id_to_slot = [ix.id_to_slot EXCEPT ![id] = 0]
        /\ freed.slot_to_id = [ix.slot_to_id EXCEPT ![slot] = Absent]
        /\ freed.doc_terms = [ix.doc_terms EXCEPT ![slot] = Absent]
        /\ freed.doc_lengths = [ix.doc_lengths EXCEPT ![slot] = Absent]
        /\ freed.free_slots = Append(ix.free_slots, slot)
        /\ freed.doc_freqs = freqs(ix.doc_freqs)
        /\ freed.inverted = lists(ix.inverted)
        /\ freed.live_docs = IF ix.live_docs > 0 THEN ix.live_docs - 1 ELSE 0
    <3> HIDE DEF slot, freqs, lists
    <3> QED BY DEF Shape
  <2> HIDE DEF freed
  <2> QED BY <2>1 DEF FreesSlot
<1> HIDE DEF freed
<1> QED BY <1>1, <1>2, <1>3

\* A removal keeps the invariant and forgets the chunk alone.
LEMMA RemoveInv ==
    ASSUME NEW ix, IndexInv(ix), NEW id \in Id
    PROVE  LET r == remove_document(ix, id)
           IN  /\ IndexInv(r) /\ r.id_to_slot[id] = 0
               /\ docs_of(r) = Put(docs_of(ix), id, Absent)
               /\ r.live_docs = IF ix.id_to_slot[id] = 0 THEN ix.live_docs
                                ELSE ix.live_docs - 1
<1> DEFINE n == Len(ix.slot_to_id)
           slot == ix.id_to_slot[id]
           terms == ix.doc_terms[slot]
           inUse == LiveSlots(ix)
<1>1. /\ n \in Nat /\ Slots(ix) = 1..n
      /\ DOMAIN ix.doc_terms = Slots(ix) /\ DOMAIN ix.doc_lengths = Slots(ix)
      /\ inUse \subseteq Slots(ix) /\ IsFiniteSet(inUse)
      /\ ix.live_docs = Cardinality(inUse) /\ ix.live_docs \in Nat
      /\ \A s \in inUse : ix.slot_to_id[s] \in Id
      /\ \A i \in Id : ix.id_to_slot[i] # 0 => ix.id_to_slot[i] \in inUse
  BY InvTypes
<1>2. Shape(ix) /\ TypeOK(ix) /\ SlotsPartitioned(ix) /\ PostingsExact(ix) /\ SlotContents(ix)
  BY DEF IndexInv
<1>3. DOMAIN ix.id_to_slot = Id
  BY <1>2 DEF TypeOK
<1>4. CASE slot = 0
  <2>1. remove_document(ix, id) = ix
    BY <1>4 DEF remove_document
  <2>2. docs_of(ix) = Put(docs_of(ix), id, Absent)
    BY <1>4 DEF docs_of, Put
  <2> QED BY <1>4, <2>1, <2>2
<1>5. CASE slot # 0
  <2>1. PICK freed :
          /\ Shape(freed) /\ FreesSlot(ix, id, freed)
          /\ remove_document(ix, id) = refresh_avg_doc_len(freed)
    BY <1>2, <1>5, RemoveFields
  <2>f. /\ freed.id_to_slot = [ix.id_to_slot EXCEPT ![id] = 0]
        /\ freed.slot_to_id = [ix.slot_to_id EXCEPT ![slot] = Absent]
        /\ freed.doc_terms = [ix.doc_terms EXCEPT ![slot] = Absent]
        /\ freed.doc_lengths = [ix.doc_lengths EXCEPT ![slot] = Absent]
        /\ freed.free_slots = Append(ix.free_slots, slot)
        /\ freed.doc_freqs =
              [t \in Term |-> IF t \in terms /\ ix.doc_freqs[t] > 0
                                 THEN ix.doc_freqs[t] - 1 ELSE ix.doc_freqs[t]]
        /\ freed.inverted =
              [t \in Term |-> IF t \in terms THEN retain_others(ix.inverted[t], slot)
                                              ELSE ix.inverted[t]]
        /\ freed.live_docs = IF ix.live_docs > 0 THEN ix.live_docs - 1 ELSE 0
    BY <2>1 DEF FreesSlot
  <2>2. /\ slot \in 1..n /\ slot \in inUse /\ ix.slot_to_id[slot] = id
        /\ terms \in SUBSET Term
    BY <1>1, <1>2, <1>5 DEF SlotsPartitioned, SlotContents, LiveSlots
  <2> HIDE DEF slot, terms, n, inUse
  <2>3. /\ freed.slot_to_id \in Seq(Id \cup {Absent}) /\ Len(freed.slot_to_id) = n
        /\ \A s \in 1..n : freed.slot_to_id[s] = IF s = slot THEN Absent ELSE ix.slot_to_id[s]
    BY <1>1, <1>2, <2>f, <2>2 DEF TypeOK, n
  <2>4. /\ freed.doc_terms \in Seq({Absent} \cup SUBSET Term) /\ Len(freed.doc_terms) = n
        /\ \A s \in 1..n : freed.doc_terms[s] = IF s = slot THEN Absent ELSE ix.doc_terms[s]
    BY <1>1, <1>2, <2>f, <2>2 DEF TypeOK, n
  <2>5. /\ freed.doc_lengths \in Seq({Absent} \cup Nat) /\ Len(freed.doc_lengths) = n
        /\ \A s \in 1..n : freed.doc_lengths[s] = IF s = slot THEN Absent ELSE ix.doc_lengths[s]
    BY <1>1, <1>2, <2>f, <2>2 DEF TypeOK, n
  <2>6. Slots(freed) = 1..n /\ LiveSlots(freed) = inUse \ {slot}
    BY <1>1, <2>2, <2>3 DEF Slots, LiveSlots, inUse
  <2>7. ix.live_docs > 0 /\ freed.live_docs = ix.live_docs - 1
    BY <1>1, <2>f, <2>2, FS_EmptySet
  <2>8. freed.live_docs = Cardinality(LiveSlots(freed))
    BY <1>1, <2>2, <2>6, <2>7, FS_RemoveElement
  <2>9. /\ freed.free_slots \in Seq(1..n) /\ IsInjective(freed.free_slots)
        /\ Range(freed.free_slots) = Range(ix.free_slots) \cup {slot}
    <3>1. ix.free_slots \in Seq(1..n) /\ IsInjective(ix.free_slots)
      BY <1>2 DEF TypeOK, SlotsPartitioned, n
    <3>2. slot \notin Range(ix.free_slots)
      BY <1>2, <2>2 DEF SlotsPartitioned, inUse
    <3> DEFINE S == 1..n
    <3> HIDE DEF S
    <3>3. ix.free_slots \in Seq(S) /\ slot \in S
      BY <2>2, <3>1 DEF S
    <3>4. LET more == Append(ix.free_slots, slot)
          IN  /\ more \in Seq(S) /\ IsInjective(more)
              /\ Range(more) = Range(ix.free_slots) \cup {slot}
      BY <3>1, <3>2, <3>3, AppendFresh
    <3> QED BY <2>f, <3>4 DEF S
  <2>10. \A i \in Id : i # id => ix.id_to_slot[i] # slot
    BY <1>2, <2>2, <1>5 DEF SlotsPartitioned
  <2>11. \A s \in inUse \ {slot} : ix.slot_to_id[s] # id
    <3>1. ix.id_to_slot[id] = slot
      BY DEF slot
    <3>2. \A s \in inUse : ix.id_to_slot[ix.slot_to_id[s]] = s
      BY <1>2 DEF SlotsPartitioned, inUse
    <3> QED BY <3>1, <3>2
  <2>12. SlotsPartitioned(freed)
    <3>1. \A s \in LiveSlots(freed) : freed.id_to_slot[freed.slot_to_id[s]] = s
      BY <1>1, <1>2, <1>3, <2>f, <2>3, <2>6, <2>11 DEF SlotsPartitioned, inUse
    <3>2. \A i \in Id : freed.id_to_slot[i] # 0 => freed.slot_to_id[freed.id_to_slot[i]] = i
      BY <1>1, <1>2, <1>3, <2>f, <2>3, <2>10 DEF SlotsPartitioned
    <3>3. Range(freed.free_slots) = Slots(freed) \ LiveSlots(freed)
      BY <1>1, <1>2, <2>2, <2>6, <2>9 DEF SlotsPartitioned, inUse
    <3> QED BY <2>8, <2>9, <3>1, <3>2, <3>3 DEF SlotsPartitioned
  <2>13. ASSUME NEW t \in Term
         PROVE  /\ freed.inverted[t] \in Seq(1..n) /\ freed.doc_freqs[t] \in Nat
                /\ Range(freed.inverted[t]) =
                       {s \in LiveSlots(freed) : t \in freed.doc_terms[s]}
                /\ IsInjective(freed.inverted[t])
                /\ freed.doc_freqs[t] = Len(freed.inverted[t])
    <3> DEFINE list == ix.inverted[t]
    <3>1. /\ list \in Seq(1..n) /\ IsInjective(list) /\ ix.doc_freqs[t] = Len(list)
          /\ Range(list) = {s \in inUse : t \in ix.doc_terms[s]}
      BY <1>2 DEF TypeOK, PostingsExact, n, inUse
    <3>2. {s \in LiveSlots(freed) : t \in freed.doc_terms[s]} = Range(list) \ {slot}
      BY <1>1, <2>4, <2>6, <3>1
    <3>3. CASE t \in terms
      <4>1. slot \in Range(list)
        BY <2>2, <3>1, <3>3 DEF terms
      <4>2. freed.inverted[t] = retain_others(list, slot)
        BY <2>f, <3>3
      <4>3. Len(list) \in Nat /\ Len(list) > 0
        BY <3>1, <4>1 DEF Range
      <4>4. freed.doc_freqs[t] = Len(list) - 1
        BY <2>f, <3>1, <3>3, <4>3
      <4>5. /\ retain_others(list, slot) \in Seq(1..n)
            /\ Len(retain_others(list, slot)) = Len(list) - 1
            /\ Range(retain_others(list, slot)) = Range(list) \ {slot}
            /\ IsInjective(retain_others(list, slot))
        BY <3>1, <4>1, RetainOthers
      <4> HIDE DEF list
      <4> QED BY <3>2, <4>2, <4>3, <4>4, <4>5
    <3>4. CASE t \notin terms
      <4>1. slot \notin Range(list)
        BY <3>1, <3>4 DEF terms
      <4>2. freed.inverted[t] = list /\ freed.doc_freqs[t] = ix.doc_freqs[t]
        BY <2>f, <3>4
      <4>3. Len(list) \in Nat
        BY <3>1
      <4> HIDE DEF list
      <4> QED BY <3>1, <3>2, <4>1, <4>2, <4>3
    <3> QED BY <3>3, <3>4
  <2>14. PostingsExact(freed)
    BY <2>13 DEF PostingsExact
  <2>15. TypeOK(freed)
    <3>1. freed.id_to_slot \in [Id -> 0..n]
      BY <1>1, <1>2, <2>f DEF TypeOK, n
    <3>2. freed.live_docs \in 0..Cap
      BY <1>1, <1>2, <2>7, Bm25Assumption DEF TypeOK
    <3>3. freed.doc_freqs \in [Term -> Nat] /\ freed.inverted \in [Term -> Seq(1..n)]
      BY <2>f, <2>13
    <3> QED BY <2>3, <2>4, <2>5, <2>9, <3>1, <3>2, <3>3 DEF TypeOK
  <2>16. SlotContents(freed)
    BY <1>1, <1>2, <2>3, <2>4, <2>5, <2>6 DEF SlotContents
  <2>17. docs_of(freed) = Put(docs_of(ix), id, Absent)
    <3>1. \A i \in Id \ {id} : ix.id_to_slot[i] # 0 =>
            freed.doc_terms[ix.id_to_slot[i]] = ix.doc_terms[ix.id_to_slot[i]]
      BY <1>1, <2>4, <2>10
    <3>2. \A i \in Id : freed.id_to_slot[i] = IF i = id THEN 0 ELSE ix.id_to_slot[i]
      BY <1>3, <2>f
    <3> QED BY <3>1, <3>2 DEF docs_of, Put
  <2>18. freed.id_to_slot[id] = 0
    BY <1>3, <2>f
  <2> QED BY <1>5, <2>1, <2>f, <2>7, <2>12, <2>14, <2>15, <2>16, <2>17, <2>18, RefreshInv DEF slot
<1> QED BY <1>4, <1>5

-----------------------------------------------------------------------------
(* insert_document, the part of upsert_document after the cap.             *)

\* What an insertion into a slot does to the fields, but for the average: lists of
\* slots as they are once the slot is taken.
FillsSlot(taken, id, terms, slot, filled) ==
    /\ filled.id_to_slot = [taken.id_to_slot EXCEPT ![id] = slot]
    /\ filled.slot_to_id = taken.slot_to_id
    /\ filled.doc_terms = [taken.doc_terms EXCEPT ![slot] = terms]
    /\ filled.doc_lengths = [taken.doc_lengths EXCEPT ![slot] = Cardinality(terms)]
    /\ filled.free_slots = taken.free_slots
    /\ filled.doc_freqs = [t \in Term |-> IF t \in terms THEN taken.doc_freqs[t] + 1
                                                        ELSE taken.doc_freqs[t]]
    /\ filled.inverted = [t \in Term |-> IF t \in terms THEN Append(taken.inverted[t], slot)
                                                       ELSE taken.inverted[t]]
    /\ filled.live_docs = taken.live_docs + 1

\* insert_document into the slot that allocate_slot gave, as a list of fields.
LEMMA InsertFields ==
    ASSUME NEW ix, NEW id \in Id, NEW terms, NEW slot, NEW taken, Shape(taken),
           allocate_slot(ix, id) = [slot |-> slot, ix |-> taken]
    PROVE  \E filled : /\ Shape(filled) /\ FillsSlot(taken, id, terms, slot, filled)
                       /\ insert_document(ix, id, terms) = refresh_avg_doc_len(filled)
<1> DEFINE freqs(f) == [t \in Term |-> IF t \in terms THEN f[t] + 1 ELSE f[t]]
           lists(f) == [t \in Term |-> IF t \in terms THEN Append(f[t], slot) ELSE f[t]]
           size == Cardinality(terms)
           filled == [taken EXCEPT !.id_to_slot[id] = slot,
                                   !.live_docs = @ + 1,
                                   !.doc_lengths[slot] = size,
                                   !.doc_freqs = freqs(@),
                                   !.inverted = lists(@),
                                   !.doc_terms[slot] = terms]
<1>1. insert_document(ix, id, terms) = refresh_avg_doc_len(filled)
  <2>1. allocate_slot(ix, id).slot = slot /\ allocate_slot(ix, id).ix = taken
    OBVIOUS
  <2> QED BY <2>1, Zenon DEF insert_document
<1>2. Shape(filled)
  BY DEF Shape
<1>3. FillsSlot(taken, id, terms, slot, filled)
  <2>1. /\ filled.id_to_slot = [taken.id_to_slot EXCEPT ![id] = slot]
        /\ filled.slot_to_id = taken.slot_to_id
        /\ filled.doc_terms = [taken.doc_terms EXCEPT ![slot] = terms]
        /\ filled.doc_lengths = [taken.doc_lengths EXCEPT ![slot] = size]
        /\ filled.free_slots = taken.free_slots
        /\ filled.doc_freqs = freqs(taken.doc_freqs)
        /\ filled.inverted = lists(taken.inverted)
        /\ filled.live_docs = taken.live_docs + 1
    <3> HIDE DEF freqs, lists, size
    <3> QED BY DEF Shape
  <2> HIDE DEF filled
  <2> QED BY <2>1 DEF FillsSlot
<1> HIDE DEF filled
<1> QED BY <1>1, <1>2, <1>3

\* What allocate_slot does to a slot s of the lists, in both of its branches.
TakesSlot(ix, id, slot, taken) ==
    /\ slot \in 1..Len(taken.slot_to_id) /\ slot \notin LiveSlots(ix)
    /\ Len(ix.slot_to_id) <= Len(taken.slot_to_id)
    /\ \A s \in 1..Len(taken.slot_to_id) : s # slot => s \in 1..Len(ix.slot_to_id)
    /\ taken.slot_to_id \in Seq(Id \cup {Absent})
    /\ taken.doc_terms \in Seq({Absent} \cup SUBSET Term)
    /\ taken.doc_lengths \in Seq({Absent} \cup Nat)
    /\ Len(taken.doc_terms) = Len(taken.slot_to_id)
    /\ Len(taken.doc_lengths) = Len(taken.slot_to_id)
    /\ taken.slot_to_id[slot] = id
    /\ \A s \in 1..Len(ix.slot_to_id) : s # slot =>
          /\ taken.slot_to_id[s] = ix.slot_to_id[s]
          /\ taken.doc_terms[s] = ix.doc_terms[s]
          /\ taken.doc_lengths[s] = ix.doc_lengths[s]
    /\ taken.free_slots \in Seq(1..Len(ix.slot_to_id)) /\ IsInjective(taken.free_slots)
    /\ Range(taken.free_slots) = Range(ix.free_slots) \ {slot}
    /\ taken.id_to_slot = ix.id_to_slot /\ taken.doc_freqs = ix.doc_freqs
    /\ taken.inverted = ix.inverted /\ taken.live_docs = ix.live_docs

\* allocate_slot gives a slot that is free or new, and takes it out of the free ones.
LEMMA AllocateTakes ==
    ASSUME NEW ix, IndexInv(ix), NEW id \in Id
    PROVE  \E slot, taken : /\ Shape(taken) /\ TakesSlot(ix, id, slot, taken)
                            /\ allocate_slot(ix, id) = [slot |-> slot, ix |-> taken]
<1> DEFINE n == Len(ix.slot_to_id)
<1>1. /\ n \in Nat /\ Slots(ix) = 1..n /\ LiveSlots(ix) \subseteq 1..n
      /\ Shape(ix) /\ TypeOK(ix) /\ SlotsPartitioned(ix)
  BY InvTypes DEF IndexInv
<1>2. /\ ix.slot_to_id \in Seq(Id \cup {Absent})
      /\ ix.doc_terms \in Seq({Absent} \cup SUBSET Term) /\ Len(ix.doc_terms) = n
      /\ ix.doc_lengths \in Seq({Absent} \cup Nat) /\ Len(ix.doc_lengths) = n
      /\ ix.free_slots \in Seq(1..n) /\ IsInjective(ix.free_slots)
      /\ Range(ix.free_slots) = (1..n) \ LiveSlots(ix)
  BY <1>1 DEF TypeOK, SlotsPartitioned
<1>3. CASE ix.free_slots # <<>>
  <2> DEFINE slot == Last(ix.free_slots)
             taken == [ix EXCEPT !.free_slots = Front(@),
                                 !.slot_to_id[slot] = id,
                                 !.doc_lengths[slot] = 0,
                                 !.doc_terms[slot] = {}]
  <2>1. allocate_slot(ix, id) = [slot |-> slot, ix |-> taken]
    BY <1>3 DEF allocate_slot
  <2>2. /\ Last(ix.free_slots) \in Range(ix.free_slots)
        /\ Front(ix.free_slots) \in Seq(1..n)
        /\ Range(Front(ix.free_slots)) = Range(ix.free_slots) \ {slot}
        /\ IsInjective(Front(ix.free_slots))
    <3> DEFINE S == 1..n
    <3>1. ix.free_slots \in Seq(S)
      BY <1>2
    <3> HIDE DEF S
    <3>2. Front(ix.free_slots) \in Seq(S) /\ Last(ix.free_slots) \in Range(ix.free_slots)
      BY <1>2, <1>3, <3>1, TakeLast
    <3>3. /\ Range(Front(ix.free_slots)) = Range(ix.free_slots) \ {Last(ix.free_slots)}
          /\ IsInjective(Front(ix.free_slots))
      BY <1>2, <1>3, <3>1, TakeLast
    <3> QED BY <3>2, <3>3 DEF S
  <2>3. slot \in 1..n /\ slot \notin LiveSlots(ix)
    BY <1>2, <2>2
  <2> HIDE DEF slot
  <2>4. Shape(taken)
    BY <1>1 DEF Shape
  <2>5. /\ taken.slot_to_id = [ix.slot_to_id EXCEPT ![slot] = id]
        /\ taken.doc_terms = [ix.doc_terms EXCEPT ![slot] = {}]
        /\ taken.doc_lengths = [ix.doc_lengths EXCEPT ![slot] = 0]
        /\ taken.free_slots = Front(ix.free_slots)
        /\ taken.id_to_slot = ix.id_to_slot /\ taken.doc_freqs = ix.doc_freqs
        /\ taken.inverted = ix.inverted /\ taken.live_docs = ix.live_docs
    BY <1>1 DEF Shape
  <2> HIDE DEF taken
  <2>6. /\ taken.slot_to_id \in Seq(Id \cup {Absent}) /\ Len(taken.slot_to_id) = n
        /\ taken.slot_to_id[slot] = id
        /\ \A s \in 1..n : s # slot => taken.slot_to_id[s] = ix.slot_to_id[s]
    BY <1>1, <1>2, <2>3, <2>5
  <2>7. /\ taken.doc_terms \in Seq({Absent} \cup SUBSET Term) /\ Len(taken.doc_terms) = n
        /\ \A s \in 1..n : s # slot => taken.doc_terms[s] = ix.doc_terms[s]
    BY <1>1, <1>2, <2>3, <2>5
  <2>8. /\ taken.doc_lengths \in Seq({Absent} \cup Nat) /\ Len(taken.doc_lengths) = n
        /\ \A s \in 1..n : s # slot => taken.doc_lengths[s] = ix.doc_lengths[s]
    BY <1>1, <1>2, <2>3, <2>5
  <2>9. TakesSlot(ix, id, slot, taken)
    BY <1>1, <2>2, <2>3, <2>5, <2>6, <2>7, <2>8 DEF TakesSlot
  <2> QED BY <2>1, <2>4, <2>9
<1>4. CASE ix.free_slots = <<>>
  <2> DEFINE slot == n + 1
             taken == [ix EXCEPT !.slot_to_id = Append(@, id),
                                 !.doc_lengths = Append(@, 0),
                                 !.doc_terms = Append(@, {})]
  <2>1. allocate_slot(ix, id) = [slot |-> slot, ix |-> taken]
    BY <1>4 DEF allocate_slot
  <2>2. Shape(taken)
    BY <1>1 DEF Shape
  <2>3. /\ taken.slot_to_id = Append(ix.slot_to_id, id)
        /\ taken.doc_terms = Append(ix.doc_terms, {})
        /\ taken.doc_lengths = Append(ix.doc_lengths, 0)
        /\ taken.free_slots = ix.free_slots
        /\ taken.id_to_slot = ix.id_to_slot /\ taken.doc_freqs = ix.doc_freqs
        /\ taken.inverted = ix.inverted /\ taken.live_docs = ix.live_docs
    BY <1>1 DEF Shape
  <2> HIDE DEF taken
  <2>4. /\ taken.slot_to_id \in Seq(Id \cup {Absent}) /\ Len(taken.slot_to_id) = n + 1
        /\ taken.slot_to_id[slot] = id
        /\ \A s \in 1..n : s # slot => taken.slot_to_id[s] = ix.slot_to_id[s]
    BY <1>1, <1>2, <2>3
  <2>5. /\ taken.doc_terms \in Seq({Absent} \cup SUBSET Term) /\ Len(taken.doc_terms) = n + 1
        /\ \A s \in 1..n : s # slot => taken.doc_terms[s] = ix.doc_terms[s]
    BY <1>1, <1>2, <2>3
  <2>6. /\ taken.doc_lengths \in Seq({Absent} \cup Nat) /\ Len(taken.doc_lengths) = n + 1
        /\ \A s \in 1..n : s # slot => taken.doc_lengths[s] = ix.doc_lengths[s]
    BY <1>1, <1>2, <2>3
  <2>7. /\ slot \in 1..(n + 1) /\ slot \notin LiveSlots(ix)
        /\ Range(ix.free_slots) = Range(ix.free_slots) \ {slot}
        /\ \A s \in 1..(n + 1) : s # slot => s \in 1..n
        /\ n <= n + 1
    BY <1>1, <1>2
  <2> HIDE DEF slot
  <2>8. TakesSlot(ix, id, slot, taken)
    BY <1>1, <1>2, <2>3, <2>4, <2>5, <2>6, <2>7 DEF TakesSlot
  <2> QED BY <2>1, <2>2, <2>8
<1> QED BY <1>3, <1>4

\* Below the cap an insertion of a chunk the index does not know keeps the invariant
\* and adds the chunk alone.
LEMMA InsertInv ==
    ASSUME NEW ix, IndexInv(ix), NEW id \in Id, ix.id_to_slot[id] = 0,
           NEW terms \in SUBSET Term, ix.live_docs < Cap
    PROVE  LET r == insert_document(ix, id, terms)
           IN  /\ IndexInv(r)
               /\ docs_of(r) = Put(docs_of(ix), id, terms)
               /\ r.live_docs = ix.live_docs + 1
<1> DEFINE n == Len(ix.slot_to_id)
           inUse == LiveSlots(ix)
<1>1. /\ n \in Nat /\ Slots(ix) = 1..n
      /\ DOMAIN ix.doc_terms = Slots(ix) /\ DOMAIN ix.doc_lengths = Slots(ix)
      /\ inUse \subseteq Slots(ix) /\ IsFiniteSet(inUse)
      /\ ix.live_docs = Cardinality(inUse) /\ ix.live_docs \in Nat
      /\ \A s \in inUse : ix.slot_to_id[s] \in Id
      /\ \A i \in Id : ix.id_to_slot[i] # 0 => ix.id_to_slot[i] \in inUse
  BY InvTypes
<1>2. TypeOK(ix) /\ SlotsPartitioned(ix) /\ PostingsExact(ix) /\ SlotContents(ix)
  BY DEF IndexInv
<1>3. DOMAIN ix.id_to_slot = Id
  BY <1>2 DEF TypeOK
<1>4. PICK slot, taken : /\ Shape(taken) /\ TakesSlot(ix, id, slot, taken)
                         /\ allocate_slot(ix, id) = [slot |-> slot, ix |-> taken]
  BY AllocateTakes
<1>5. PICK filled : /\ Shape(filled) /\ FillsSlot(taken, id, terms, slot, filled)
                    /\ insert_document(ix, id, terms) = refresh_avg_doc_len(filled)
  BY <1>4, InsertFields
<1> DEFINE m == Len(taken.slot_to_id)
<1>6. /\ m \in Nat /\ n <= m
      /\ slot \in 1..m /\ slot \notin inUse
      /\ \A s \in 1..m : s # slot => s \in 1..n
      /\ 1..n \subseteq 1..m
  <2>1. /\ m \in Nat /\ n <= m /\ slot \in 1..m /\ slot \notin inUse
        /\ \A s \in 1..m : s # slot => s \in 1..n
    BY <1>1, <1>4 DEF TakesSlot
  <2>2. 1..n \subseteq 1..m
    BY ONLY <1>1, <2>1
  <2> QED BY <2>1, <2>2
<1> HIDE DEF n, m, inUse
<1>7. /\ filled.slot_to_id \in Seq(Id \cup {Absent}) /\ Len(filled.slot_to_id) = m
      /\ \A s \in 1..m : filled.slot_to_id[s] = IF s = slot THEN id ELSE ix.slot_to_id[s]
  BY <1>4, <1>5, <1>6 DEF TakesSlot, FillsSlot, n, m
<1>8. /\ filled.doc_terms \in Seq({Absent} \cup SUBSET Term) /\ Len(filled.doc_terms) = m
      /\ \A s \in 1..m : filled.doc_terms[s] = IF s = slot THEN terms ELSE ix.doc_terms[s]
  <2>1. /\ taken.doc_terms \in Seq({Absent} \cup SUBSET Term) /\ Len(taken.doc_terms) = m
        /\ filled.doc_terms = [taken.doc_terms EXCEPT ![slot] = terms]
        /\ \A s \in 1..m : s # slot => taken.doc_terms[s] = ix.doc_terms[s]
    BY <1>4, <1>5, <1>6 DEF TakesSlot, FillsSlot, n, m
  <2> QED BY <1>6, <2>1
<1>9. /\ filled.doc_lengths \in Seq({Absent} \cup Nat) /\ Len(filled.doc_lengths) = m
      /\ \A s \in 1..m : filled.doc_lengths[s] =
            IF s = slot THEN Cardinality(terms) ELSE ix.doc_lengths[s]
  <2>1. /\ taken.doc_lengths \in Seq({Absent} \cup Nat) /\ Len(taken.doc_lengths) = m
        /\ filled.doc_lengths = [taken.doc_lengths EXCEPT ![slot] = Cardinality(terms)]
        /\ \A s \in 1..m : s # slot => taken.doc_lengths[s] = ix.doc_lengths[s]
    BY <1>4, <1>5, <1>6 DEF TakesSlot, FillsSlot, n, m
  <2>2. Cardinality(terms) \in Nat
    BY Bm25Assumption, FS_Subset, FS_CardinalityType
  <2> QED BY <1>6, <2>1, <2>2
<1>10. /\ filled.free_slots \in Seq(1..m) /\ IsInjective(filled.free_slots)
       /\ Range(filled.free_slots) = Range(ix.free_slots) \ {slot}
  <2>1. /\ taken.free_slots \in Seq(1..n) /\ IsInjective(taken.free_slots)
        /\ filled.free_slots = taken.free_slots
        /\ Range(taken.free_slots) = Range(ix.free_slots) \ {slot}
    BY <1>4, <1>5 DEF TakesSlot, FillsSlot, n
  <2> QED BY <1>6, <2>1, MoreSlots
<1>11. /\ filled.id_to_slot = [ix.id_to_slot EXCEPT ![id] = slot]
       /\ filled.doc_freqs = [t \in Term |-> IF t \in terms THEN ix.doc_freqs[t] + 1
                                                           ELSE ix.doc_freqs[t]]
       /\ filled.inverted = [t \in Term |-> IF t \in terms THEN Append(ix.inverted[t], slot)
                                                          ELSE ix.inverted[t]]
       /\ filled.live_docs = ix.live_docs + 1
  BY <1>4, <1>5 DEF TakesSlot, FillsSlot
<1>12. Slots(filled) = 1..m /\ LiveSlots(filled) = inUse \cup {slot}
  <2>1. Slots(filled) = 1..m
    BY <1>6, <1>7 DEF Slots
  <2> QED BY <1>1, <1>6, <1>7, <2>1, Bm25Assumption DEF LiveSlots, inUse
<1>13. filled.live_docs = Cardinality(LiveSlots(filled))
  <2>1. Cardinality(inUse \cup {slot}) = Cardinality(inUse) + 1
    BY <1>1, <1>6, FS_AddElement
  <2> QED BY <1>1, <1>11, <1>12, <2>1
<1>14. \A i \in Id : ix.id_to_slot[i] # slot /\ ix.id_to_slot[i] \in 0..n
  <2>1. \A i \in Id : ix.id_to_slot[i] \in 0..n
    BY <1>2 DEF TypeOK, n
  <2> QED BY <1>1, <1>6, <2>1
<1>15. \A s \in inUse : ix.slot_to_id[s] # id /\ s # slot /\ s \in 1..m
  <2>1. \A s \in inUse : ix.id_to_slot[ix.slot_to_id[s]] = s /\ s \in 1..n
    BY <1>1, <1>2 DEF SlotsPartitioned, inUse
  <2> QED BY <1>6, <2>1
<1>16. SlotsPartitioned(filled)
  <2>1. ASSUME NEW s \in LiveSlots(filled) PROVE filled.id_to_slot[filled.slot_to_id[s]] = s
    <3>1. CASE s = slot
      BY ONLY <1>3, <1>6, <1>7, <1>11, <3>1, id \in Id
    <3>2. CASE s \in inUse
      <4>1. ix.id_to_slot[ix.slot_to_id[s]] = s /\ ix.slot_to_id[s] \in Id
        BY <1>1, <1>2, <3>2 DEF SlotsPartitioned, inUse
      <4>2. filled.slot_to_id[s] = ix.slot_to_id[s] /\ ix.slot_to_id[s] # id
        BY ONLY <1>7, <1>15, <3>2
      <4> QED BY ONLY <1>3, <1>11, <4>1, <4>2
    <3> QED BY <1>12, <3>1, <3>2
  <2>2. \A i \in Id : filled.id_to_slot[i] # 0 => filled.slot_to_id[filled.id_to_slot[i]] = i
    <3> TAKE i \in Id
    <3>1. CASE i = id
      BY <1>3, <1>6, <1>7, <1>11, <3>1
    <3>2. CASE i # id
      <4>1. filled.id_to_slot[i] = ix.id_to_slot[i]
        BY <1>3, <1>11, <3>2
      <4>2. ix.id_to_slot[i] # 0 => ix.id_to_slot[i] \in 1..m
        BY <1>1, <1>6
      <4>3. ix.id_to_slot[i] # 0 => ix.slot_to_id[ix.id_to_slot[i]] = i
        BY <1>2 DEF SlotsPartitioned
      <4> QED BY <1>7, <1>14, <4>1, <4>2, <4>3
    <3> QED BY <3>1, <3>2
  <2>3. Range(filled.free_slots) = Slots(filled) \ LiveSlots(filled)
    <3>1. Range(ix.free_slots) = (1..n) \ inUse
      BY <1>1, <1>2 DEF SlotsPartitioned, inUse
    <3> QED BY <1>6, <1>10, <1>12, <3>1
  <2> QED BY <1>10, <1>13, <2>1, <2>2, <2>3 DEF SlotsPartitioned
<1>17. ASSUME NEW t \in Term
       PROVE  /\ filled.inverted[t] \in Seq(1..m) /\ filled.doc_freqs[t] \in Nat
              /\ Range(filled.inverted[t]) =
                     {s \in LiveSlots(filled) : t \in filled.doc_terms[s]}
              /\ IsInjective(filled.inverted[t])
              /\ filled.doc_freqs[t] = Len(filled.inverted[t])
  <2> DEFINE list == ix.inverted[t]
             S == 1..m
  <2>1. /\ list \in Seq(1..n) /\ IsInjective(list) /\ ix.doc_freqs[t] = Len(list)
        /\ Range(list) = {s \in inUse : t \in ix.doc_terms[s]}
    BY <1>2 DEF TypeOK, PostingsExact, n, inUse
  <2>2. list \in Seq(S) /\ slot \in S /\ Len(list) \in Nat
    <3> DEFINE R == 1..n
    <3>1. R \subseteq S /\ list \in Seq(R) /\ slot \in S
      BY <1>6, <2>1
    <3> HIDE DEF R, S, list
    <3> QED BY <3>1, MoreSlots
  <2>3. {s \in LiveSlots(filled) : t \in filled.doc_terms[s]} =
            IF t \in terms THEN Range(list) \cup {slot} ELSE Range(list)
    BY <1>6, <1>8, <1>12, <1>15, <2>1
  <2>4. slot \notin Range(list)
    BY <1>6, <2>1
  <2>5. CASE t \in terms
    <3>1. filled.inverted[t] = Append(list, slot) /\ filled.doc_freqs[t] = ix.doc_freqs[t] + 1
      BY <1>11, <2>5
    <3> HIDE DEF list, S
    <3>2. /\ Append(list, slot) \in Seq(S) /\ Len(Append(list, slot)) = Len(list) + 1
          /\ Range(Append(list, slot)) = Range(list) \cup {slot}
          /\ IsInjective(Append(list, slot))
      BY <2>1, <2>2, <2>4, AppendFresh
    <3> QED BY <2>1, <2>2, <2>3, <2>5, <3>1, <3>2 DEF S
  <2>6. CASE t \notin terms
    <3>1. filled.inverted[t] = list /\ filled.doc_freqs[t] = ix.doc_freqs[t]
      BY <1>11, <2>6
    <3> HIDE DEF list
    <3> QED BY <2>1, <2>2, <2>3, <2>6, <3>1 DEF S
  <2> QED BY <2>5, <2>6
<1>18. PostingsExact(filled)
  BY <1>17 DEF PostingsExact
<1>19. TypeOK(filled)
  <2>1. filled.id_to_slot \in [Id -> 0..m]
    <3>1. ix.id_to_slot \in [Id -> 0..n] /\ 0..n \subseteq 0..m /\ slot \in 0..m
      BY <1>1, <1>2, <1>6 DEF TypeOK, n
    <3> QED BY <1>11, <3>1
  <2>2. filled.live_docs \in 0..Cap
    BY <1>1, <1>11, Bm25Assumption
  <2>3. filled.doc_freqs \in [Term -> Nat] /\ filled.inverted \in [Term -> Seq(1..m)]
    BY <1>11, <1>17
  <2> QED BY <1>7, <1>8, <1>9, <1>10, <2>1, <2>2, <2>3 DEF TypeOK
<1>20. SlotContents(filled)
  <2> SUFFICES ASSUME NEW s \in 1..m
               PROVE  IF filled.slot_to_id[s] = Absent
                        THEN filled.doc_terms[s] = Absent /\ filled.doc_lengths[s] = Absent
                        ELSE /\ filled.doc_terms[s] \in SUBSET Term
                             /\ filled.doc_lengths[s] = Cardinality(filled.doc_terms[s])
    BY <1>12 DEF SlotContents
  <2>1. CASE s = slot
    BY <1>6, <1>7, <1>8, <1>9, <2>1, Bm25Assumption
  <2>2. CASE s # slot
    BY <1>1, <1>2, <1>6, <1>7, <1>8, <1>9, <2>2 DEF SlotContents
  <2> QED BY <2>1, <2>2
<1>21. docs_of(filled) = Put(docs_of(ix), id, terms)
  <2>1. \A i \in Id \ {id} : ix.id_to_slot[i] # 0 =>
          filled.doc_terms[ix.id_to_slot[i]] = ix.doc_terms[ix.id_to_slot[i]]
    BY <1>1, <1>6, <1>8, <1>14
  <2>2. \A i \in Id : filled.id_to_slot[i] = IF i = id THEN slot ELSE ix.id_to_slot[i]
    BY <1>3, <1>11
  <2>3. filled.doc_terms[slot] = terms /\ slot # 0
    BY <1>6, <1>8
  <2>4. ASSUME NEW i \in Id PROVE docs_of(filled)[i] = Put(docs_of(ix), id, terms)[i]
    <3>1. docs_of(filled)[i] = IF filled.id_to_slot[i] = 0 THEN Absent
                               ELSE filled.doc_terms[filled.id_to_slot[i]]
      BY DEF docs_of
    <3>2. Put(docs_of(ix), id, terms)[i] =
             IF i = id THEN terms
             ELSE IF ix.id_to_slot[i] = 0 THEN Absent ELSE ix.doc_terms[ix.id_to_slot[i]]
      BY DEF docs_of, Put
    <3> QED BY ONLY <2>1, <2>2, <2>3, <3>1, <3>2, i \in Id
  <2>5. /\ docs_of(filled) = [i \in Id |-> docs_of(filled)[i]]
        /\ Put(docs_of(ix), id, terms) = [i \in Id |-> Put(docs_of(ix), id, terms)[i]]
    BY DEF docs_of, Put
  <2> QED BY ONLY <2>4, <2>5
<1> QED BY <1>5, <1>11, <1>16, <1>18, <1>19, <1>20, <1>21, RefreshInv

-----------------------------------------------------------------------------
(* upsert_document and the theorems.                                       *)

\* A removal or an upsert keeps the invariant and is a step of the capped map.
LEMMA UpsertInv ==
    ASSUME NEW ix, IndexInv(ix), NEW id \in Id, NEW terms \in SUBSET Term
    PROVE  LET r == upsert_document(ix, id, terms)
           IN  /\ IndexInv(r)
               /\ ix.id_to_slot[id] # 0 => r.live_docs = ix.live_docs
               /\ docs_of(r) = IF ix.id_to_slot[id] = 0 /\ ix.live_docs >= Cap
                                 THEN docs_of(ix)
                                 ELSE Put(docs_of(ix), id, terms)
<1> DEFINE r == upsert_document(ix, id, terms)
<1>1. ix.live_docs \in 0..Cap /\ Cap \in Nat
  BY Bm25Assumption DEF IndexInv, TypeOK
<1>2. CASE ix.id_to_slot[id] # 0
  <2> DEFINE gone == remove_document(ix, id)
  <2>1. /\ IndexInv(gone) /\ gone.id_to_slot[id] = 0
        /\ docs_of(gone) = Put(docs_of(ix), id, Absent)
        /\ gone.live_docs = ix.live_docs - 1
    BY <1>2, RemoveInv
  <2>2. r = insert_document(gone, id, terms)
    BY <1>2 DEF upsert_document
  <2> HIDE DEF gone, r
  <2>3. gone.live_docs < Cap
    BY <1>1, <2>1
  <2>4. /\ IndexInv(r) /\ r.live_docs = gone.live_docs + 1
        /\ docs_of(r) = Put(docs_of(gone), id, terms)
    BY <2>1, <2>2, <2>3, InsertInv
  <2>5. docs_of(r) = Put(docs_of(ix), id, terms)
    <3>1. Put(Put(docs_of(ix), id, Absent), id, terms) = Put(docs_of(ix), id, terms)
      <4> HIDE DEF r
      <4> QED BY DEF Put, docs_of
    <3> QED BY <2>1, <2>4, <3>1
  <2> QED BY <1>1, <1>2, <2>1, <2>4, <2>5 DEF r
<1>3. CASE ix.id_to_slot[id] = 0 /\ ix.live_docs >= Cap
  BY <1>3 DEF upsert_document
<1>4. CASE ix.id_to_slot[id] = 0 /\ ~(ix.live_docs >= Cap)
  <2>1. r = insert_document(ix, id, terms) /\ ix.live_docs < Cap
    BY <1>1, <1>4 DEF upsert_document
  <2> QED BY <1>4, <2>1, InsertInv
<1> QED BY <1>2, <1>3, <1>4

\* The documents are in bijection with the live slots.
LEMMA DocsCounted ==
    ASSUME NEW ix, IndexInv(ix)
    PROVE  /\ \A id \in Id : docs_of(ix)[id] \in {Absent} \cup SUBSET Term
           /\ \A id \in Id : docs_of(ix)[id] # Absent <=> ix.id_to_slot[id] # 0
           /\ Cardinality({id \in Id : docs_of(ix)[id] # Absent}) = ix.live_docs
           /\ {id \in Id : docs_of(ix)[id] # Absent} = {} <=> ix.live_docs = 0
<1> DEFINE inUse == LiveSlots(ix)
           known == {id \in Id : docs_of(ix)[id] # Absent}
<1>1. /\ inUse \subseteq Slots(ix) /\ IsFiniteSet(inUse)
      /\ ix.live_docs = Cardinality(inUse) /\ ix.live_docs \in Nat
      /\ \A s \in inUse : ix.slot_to_id[s] \in Id
      /\ \A id \in Id : ix.id_to_slot[id] # 0 => ix.id_to_slot[id] \in inUse
  BY InvTypes
<1>2. SlotsPartitioned(ix) /\ SlotContents(ix)
  BY DEF IndexInv
<1>3. \A s \in inUse : ix.doc_terms[s] \in SUBSET Term
  BY <1>1, <1>2 DEF SlotContents, LiveSlots
<1>4. \A id \in Id : docs_of(ix)[id] = IF ix.id_to_slot[id] = 0 THEN Absent
                                      ELSE ix.doc_terms[ix.id_to_slot[id]]
  BY DEF docs_of
<1>5. \A id \in Id : docs_of(ix)[id] \in {Absent} \cup SUBSET Term
  BY <1>1, <1>3, <1>4
<1>6. \A id \in Id : docs_of(ix)[id] # Absent <=> ix.id_to_slot[id] # 0
  BY <1>1, <1>3, <1>4, Bm25Assumption
<1>7. \A s \in inUse : ix.id_to_slot[ix.slot_to_id[s]] = s /\ s # 0
  <2>1. 0 \notin Slots(ix)
    BY InvTypes
  <2> QED BY <1>1, <1>2, <2>1 DEF SlotsPartitioned
<1> DEFINE f == [s \in inUse |-> ix.slot_to_id[s]]
<1>8. f \in Surjection(inUse, known)
  <2>1. f \in [inUse -> known]
    <3>1. \A s \in inUse : ix.slot_to_id[s] \in known
      BY <1>1, <1>6, <1>7
    <3> HIDE DEF inUse, known
    <3> QED BY <3>1
  <2>2. \A id \in known : \E s \in inUse : f[s] = id
    BY <1>1, <1>2, <1>6 DEF SlotsPartitioned
  <2> QED BY <2>1, <2>2 DEF Surjection
<1>9. f \in Injection(inUse, known)
  <2>1. f \in [inUse -> known]
    BY <1>8 DEF Surjection
  <2>2. ASSUME NEW s \in inUse, NEW x \in inUse, f[s] = f[x] PROVE s = x
    <3> HIDE DEF inUse
    <3> QED BY <1>7, <2>2
  <2> HIDE DEF f, inUse, known
  <2> QED BY <2>1, <2>2 DEF Injection, IsInjective
<1>10. IsFiniteSet(known) /\ Cardinality(known) = Cardinality(inUse)
  <2> HIDE DEF f, known, inUse
  <2> QED BY <1>1, <1>8, <1>9, FS_Surjection
<1>11. known = {} <=> ix.live_docs = 0
  <2> HIDE DEF known, inUse
  <2> QED BY <1>1, <1>10, FS_EmptySet
<1> QED BY <1>1, <1>5, <1>6, <1>10, <1>11

\* A query scores the documents that hold one of its terms.
LEMMA QueryScores ==
    ASSUME NEW ix, IndexInv(ix), NEW asked \in SUBSET Term
    PROVE  score_query_all(ix, asked) =
               {id \in Id : docs_of(ix)[id] # Absent /\ docs_of(ix)[id] \cap asked # {}}
<1> DEFINE inUse == LiveSlots(ix)
           touched == UNION {Range(ix.inverted[t]) : t \in {u \in asked : ix.doc_freqs[u] > 0}}
           scored == {s \in touched : ix.doc_lengths[s] # Absent}
           matched == {ix.slot_to_id[s] : s \in {r \in scored : ix.slot_to_id[r] # Absent}}
           wanted == {id \in Id : docs_of(ix)[id] # Absent /\ docs_of(ix)[id] \cap asked # {}}
<1>1. /\ inUse \subseteq Slots(ix) /\ ix.live_docs \in Nat
      /\ \A s \in inUse : ix.slot_to_id[s] \in Id
      /\ \A id \in Id : ix.id_to_slot[id] # 0 => ix.id_to_slot[id] \in inUse
      /\ 0 \notin Slots(ix)
  BY InvTypes
<1>2. TypeOK(ix) /\ SlotsPartitioned(ix) /\ SlotContents(ix) /\ PostingsExact(ix)
  BY DEF IndexInv
<1>3. /\ \A id \in Id : docs_of(ix)[id] # Absent <=> ix.id_to_slot[id] # 0
      /\ {id \in Id : docs_of(ix)[id] # Absent} = {} <=> ix.live_docs = 0
  BY DocsCounted
<1>4. \A s \in inUse : /\ ix.slot_to_id[s] # Absent /\ ix.doc_lengths[s] # Absent
                      /\ ix.id_to_slot[ix.slot_to_id[s]] = s
                      /\ docs_of(ix)[ix.slot_to_id[s]] = ix.doc_terms[s]
                      /\ ix.doc_terms[s] \in SUBSET Term
  <2> TAKE s \in inUse
  <2>1. ix.slot_to_id[s] # Absent /\ s \in Slots(ix)
    BY <1>1 DEF LiveSlots
  <2>2. ix.doc_terms[s] \in SUBSET Term /\ ix.doc_lengths[s] = Cardinality(ix.doc_terms[s])
    BY <1>2, <2>1 DEF SlotContents
  <2>3. Cardinality(ix.doc_terms[s]) \in Nat
    BY <2>2, Bm25Assumption, FS_Subset, FS_CardinalityType
  <2>4. ix.id_to_slot[ix.slot_to_id[s]] = s
    BY <1>2 DEF SlotsPartitioned
  <2>5. docs_of(ix)[ix.slot_to_id[s]] = ix.doc_terms[s]
    BY <1>1, <2>1, <2>4 DEF docs_of
  <2> QED BY <2>1, <2>2, <2>3, <2>4, <2>5, Bm25Assumption
<1>5. \A t \in Term : Range(ix.inverted[t]) = {s \in inUse : t \in ix.doc_terms[s]}
  BY <1>2 DEF PostingsExact
<1>6. \A t \in Term, s \in inUse : t \in ix.doc_terms[s] => ix.doc_freqs[t] > 0
  <2> TAKE t \in Term, s \in inUse
  <2> HAVE t \in ix.doc_terms[s]
  <2>1. s \in Range(ix.inverted[t]) /\ ix.doc_freqs[t] = Len(ix.inverted[t])
    BY <1>2, <1>5 DEF PostingsExact
  <2>2. ix.inverted[t] \in Seq(1..Len(ix.slot_to_id))
    BY <1>2 DEF TypeOK
  <2> QED BY <2>1, <2>2 DEF Range
<1>7. touched = {s \in inUse : ix.doc_terms[s] \cap asked # {}}
  <2> HIDE DEF inUse
  <2>1. \A s \in touched : s \in inUse /\ ix.doc_terms[s] \cap asked # {}
    BY <1>5
  <2>2. ASSUME NEW s \in inUse, ix.doc_terms[s] \cap asked # {} PROVE s \in touched
    <3>1. PICK t \in asked : t \in ix.doc_terms[s]
      BY <2>2
    <3>2. t \in {u \in asked : ix.doc_freqs[u] > 0} /\ s \in Range(ix.inverted[t])
      BY <1>5, <1>6, <2>2, <3>1
    <3> QED BY <3>2
  <2> QED BY <2>1, <2>2
<1>8. matched = {ix.slot_to_id[s] : s \in {r \in inUse : ix.doc_terms[r] \cap asked # {}}}
  <2> HIDE DEF touched, inUse
  <2>1. {r \in scored : ix.slot_to_id[r] # Absent} = {r \in inUse : ix.doc_terms[r] \cap asked # {}}
    BY <1>4, <1>7
  <2> QED BY <2>1
<1>9. matched = wanted
  <2> HIDE DEF inUse, matched
  <2>1. ASSUME NEW s \in inUse, ix.doc_terms[s] \cap asked # {} PROVE ix.slot_to_id[s] \in wanted
    BY <1>1, <1>4, <2>1, Bm25Assumption
  <2>2. ASSUME NEW id \in wanted
        PROVE  \E s \in inUse : ix.doc_terms[s] \cap asked # {} /\ ix.slot_to_id[s] = id
    <3>1. ix.id_to_slot[id] \in inUse /\ ix.slot_to_id[ix.id_to_slot[id]] = id
      BY <1>1, <1>2, <1>3, <2>2 DEF SlotsPartitioned
    <3> QED BY <1>4, <2>2, <3>1
  <2> HIDE DEF wanted
  <2> QED BY <1>8, <2>1, <2>2
<1>10. CASE ix.live_docs = 0
  <2>1. wanted = {}
    BY <1>3, <1>10
  <2> QED BY <1>10, <2>1 DEF score_query_all
<1>11. CASE ix.live_docs # 0
  <2>1. score_query_all(ix, asked) = matched
    BY <1>11 DEF score_query_all
  <2> QED BY <1>9, <2>1
<1> QED BY <1>10, <1>11

IInv == IndexInv(bm25)

\* The empty index keeps the invariant.
LEMMA InitInv == Init => IInv
<1> SUFFICES ASSUME Init PROVE IInv
  OBVIOUS
<1>1. /\ bm25.id_to_slot = [id \in Id |-> 0] /\ bm25.slot_to_id = <<>>
      /\ bm25.doc_terms = <<>> /\ bm25.doc_lengths = <<>> /\ bm25.free_slots = <<>>
      /\ bm25.doc_freqs = [t \in Term |-> 0] /\ bm25.inverted = [t \in Term |-> <<>>]
      /\ bm25.live_docs = 0 /\ bm25.avg_doc_len = <<0, 0>> /\ Shape(bm25)
  BY DEF Init, New, Shape
<1>2. Slots(bm25) = {} /\ LiveSlots(bm25) = {} /\ Len(bm25.slot_to_id) = 0
  BY <1>1 DEF Slots, LiveSlots
<1>3. TypeOK(bm25)
  BY <1>1, <1>2, Bm25Assumption DEF TypeOK
<1>4. SlotsPartitioned(bm25) /\ PostingsExact(bm25)
  BY <1>1, <1>2, FS_EmptySet DEF SlotsPartitioned, PostingsExact, Range, IsInjective
<1>5. SlotContents(bm25) /\ bm25.avg_doc_len = AverageOf(bm25)
  BY <1>1, <1>2 DEF SlotContents, AverageOf
<1> QED BY <1>1, <1>3, <1>4, <1>5 DEF IInv, IndexInv

\* Upserts, removals and queries keep it.
LEMMA NextInv == IInv /\ [Next]_bm25 => IInv'
<1> SUFFICES ASSUME IInv, [Next]_bm25 PROVE IInv'
  OBVIOUS
<1>1. ASSUME NEW id \in Id, RemoveDocument(id) PROVE IInv'
  <2>1. IndexInv(remove_document(bm25, id))
    BY RemoveInv DEF IInv
  <2> QED BY <1>1, <2>1 DEF RemoveDocument, IInv
<1>2. ASSUME NEW id \in Id, NEW terms \in SUBSET Term, UpsertDocument(id, terms) PROVE IInv'
  <2>1. IndexInv(upsert_document(bm25, id, terms))
    BY UpsertInv DEF IInv
  <2> QED BY <1>2, <2>1 DEF UpsertDocument, IInv
<1>3. CASE UNCHANGED bm25
  BY <1>3 DEF IInv
<1> QED BY <1>1, <1>2, <1>3 DEF Next

\* The document of a live id is found through its slot.
LEMMA InvUpdates ==
    ASSUME IndexInv(bm25) PROVE UpdatesHonoured
<1> SUFFICES ASSUME NEW id \in Docs, NEW terms \in SUBSET Term
             PROVE  LET updated == upsert_document(bm25, id, terms)
                    IN  /\ updated.doc_terms[updated.id_to_slot[id]] = terms
                        /\ updated.live_docs = bm25.live_docs
                        /\ \A other \in Docs \ {id} :
                              updated.doc_terms[updated.id_to_slot[other]] = docs[other]
  BY DEF UpdatesHonoured
<1> DEFINE updated == upsert_document(bm25, id, terms)
<1>1. id \in Id /\ bm25.id_to_slot[id] # 0
  BY DocsCounted DEF Docs, docs
<1>2. /\ IndexInv(updated) /\ updated.live_docs = bm25.live_docs
      /\ docs_of(updated) = Put(docs_of(bm25), id, terms)
  BY <1>1, UpsertInv
<1> HIDE DEF updated
<1>3. \A i \in Id : docs_of(updated)[i] = IF i = id THEN terms ELSE docs[i]
  BY <1>1, <1>2 DEF Put, docs_of, docs
<1>4. \A i \in Id : docs_of(updated)[i] # Absent =>
          docs_of(updated)[i] = updated.doc_terms[updated.id_to_slot[i]]
  BY DEF docs_of
<1>5. terms # Absent /\ \A other \in Docs : other \in Id /\ docs[other] # Absent
  BY Bm25Assumption DEF Docs
<1> QED BY <1>1, <1>2, <1>3, <1>4, <1>5 DEF updated

\* It gives everything IndexSound asks, the two that look at what an operation would do
\* (queries and updates) included.
LEMMA InvSound == IInv => IndexSound
<1> SUFFICES ASSUME IndexInv(bm25) PROVE IndexSound
  BY DEF IInv
<1>1. TypeOK(bm25) /\ SlotsPartitioned(bm25) /\ PostingsExact(bm25)
  BY DEF IndexInv
<1>2. Cardinality(Docs) = bm25.live_docs /\ (Docs = {} <=> bm25.live_docs = 0)
  BY DocsCounted DEF Docs, docs
<1>3. AverageIsCurrent
  <2>1. bm25.avg_doc_len = AverageOf(bm25)
    BY DEF IndexInv
  <2> QED BY <1>2, <2>1 DEF AverageIsCurrent, AverageOf
<1>4. QueryExact
  <2> SUFFICES ASSUME NEW asked \in SUBSET Term
               PROVE  score_query_all(bm25, asked) = {id \in Docs : docs[id] \cap asked # {}}
    BY DEF QueryExact
  <2> QED BY QueryScores DEF Docs, docs
<1>5. UpdatesHonoured
  BY InvUpdates
<1> QED BY <1>1, <1>3, <1>4, <1>5 DEF IndexSound

\* Whatever is upserted and removed, over recycled slots and at the cap: slots,
\* postings, lengths and the average are those of the documents the index holds, a
\* query scores exactly the matching ones, and an update of a known id is honoured.
THEOREM Bm25Sound == Spec => []IndexSound
<1>1. Init => IInv
  BY InitInv
<1>2. IInv /\ [Next]_bm25 => IInv'
  BY NextInv
<1>3. IInv => IndexSound
  BY InvSound
<1> QED BY <1>1, <1>2, <1>3, PTL DEF Spec

\* Each call of upsert_document or remove_document is the Upsert or Remove of the
\* capped map: only a new id at the cap is dropped, an update never is.
THEOREM Bm25ImplementsCorpus == Spec => ImplementsCorpus
<1>1. Init => Corpus!Init
  BY DEF Init, New, Corpus!Init, docs, docs_of
<1>2. IInv /\ [Next]_bm25 => [Corpus!Next]_docs
  <2> SUFFICES ASSUME IInv, [Next]_bm25 PROVE [Corpus!Next]_docs
    OBVIOUS
  <2>1. /\ \A id \in Id : docs[id] = Absent <=> bm25.id_to_slot[id] = 0
        /\ Cardinality(Corpus!Live) = bm25.live_docs
    BY DocsCounted DEF IInv, docs, Corpus!Live
  <2>2. docs' = docs_of(bm25')
    BY DEF docs, docs_of
  <2>3. ASSUME NEW id \in Id, RemoveDocument(id) PROVE Corpus!Next
    <3>1. docs_of(remove_document(bm25, id)) = Put(docs, id, Absent)
      BY RemoveInv DEF IInv, docs
    <3>2. docs' = [docs EXCEPT ![id] = Absent]
      BY <2>2, <2>3, <3>1 DEF RemoveDocument, Put
    <3> QED BY <3>2 DEF Corpus!Next, Corpus!Remove
  <2>4. ASSUME NEW id \in Id, NEW terms \in SUBSET Term, UpsertDocument(id, terms)
        PROVE  Corpus!Next
    <3>1. docs_of(upsert_document(bm25, id, terms)) =
              IF bm25.id_to_slot[id] = 0 /\ bm25.live_docs >= Cap THEN docs
              ELSE Put(docs, id, terms)
      BY UpsertInv DEF IInv, docs
    <3>2. docs' = IF docs[id] = Absent /\ Cardinality(Corpus!Live) >= Cap THEN docs
                  ELSE [docs EXCEPT ![id] = terms]
      BY <2>1, <2>2, <2>4, <3>1 DEF UpsertDocument, Put
    <3>3. \A S : Corpus!Cardinality(S) = Cardinality(S)
      BY Zenon DEF Corpus!Cardinality, Cardinality
    <3> QED BY <3>2, <3>3 DEF Corpus!Next, Corpus!Upsert
  <2>5. CASE UNCHANGED bm25
    BY <2>5 DEF docs, docs_of
  <2> QED BY <2>3, <2>4, <2>5 DEF Next
<1> QED BY <1>1, <1>2, InitInv, NextInv, PTL DEF Spec, ImplementsCorpus, Corpus!Spec

-----------------------------------------------------------------------------
(* A call of a tool: its values, and its invariant.                        *)

Others == {"initialize", "initialized", "tools/list", "rpc.discover", "no such tool", "no name"}
FieldNames == UNION UNION {Needs(t) \cup {Declared(t)} : t \in Tools}
Codes == {"METHOD_NOT_FOUND", "INVALID_PARAMS", "INVALID_REQUEST", "INTERNAL_ERROR"}
Replies == {NoReply, Suppressed, Panic} \cup {Result(b) : b \in BOOLEAN} \cup {RpcError(c) : c \in Codes}
Targets == IndexName \cup {Segment(n) : n \in IndexName}

Calls ==
    [at : {"dispatch", "send", "answer", "done"}, version : {"2.0", "1.0"}, id : BOOLEAN,
     method : Tools \cup Others, wrapped : BOOLEAN, name : IndexName, fields : SUBSET FieldNames,
     wide : BOOLEAN, handled : {0, 1}, status : Nat, json : BOOLEAN, touched : BOOLEAN,
     acted : {Nobody} \cup Targets, reply : Replies]

\* A request is sent of a tool with all it needs, is carried out once, and changes an index
\* only if the tool may.
Complete(c) == \E need \in Needs(c.method) : need \subseteq c.fields
Sent(c) == c.method \in Tools /\ c.version = "2.0" /\ Complete(c)
Underway(c) ==
    /\ c.at \in {"dispatch", "send"} => c.handled = 0 /\ c.reply = NoReply
    /\ c.at = "send" => Sent(c)
    /\ c.at = "answer" => Sent(c) /\ c.handled = 1 /\ c.acted = Addressed(c.method, c.name)
    /\ c.handled = 0 => ~c.touched
    /\ c.touched => Scope(c.method) = "search.write"

\* A reply says what has become of the request.
Tool(c) == c.method \in Tools /\ c.version = "2.0"
Replied(c) ==
    c.at = "done" =>
        /\ Tool(c) /\ c.reply = Result(FALSE) =>
               Complete(c) /\ c.handled = 1 /\ c.status = 200 /\ c.acted = Addressed(c.method, c.name)
        /\ c.reply.kind = "error" /\ c.reply.code # "INTERNAL_ERROR" => c.handled = 0
        /\ Tool(c) /\ ~Complete(c) => c.handled = 0
        /\ Tool(c) /\ c.wrapped => c.reply.kind \in {"result", "panic"}
        /\ c.reply = RpcError("METHOD_NOT_FOUND") => c.method \notin Tools

CallInv == call = Idle \/ (call \in Calls /\ Underway(call) /\ Replied(call))

-----------------------------------------------------------------------------
(* Tools and replies.                                                      *)

\* A name is a tool's if, and only if, something is needed for it; who may write is listed.
LEMMA ToolTable ==
  /\ \A m \in Others : Needs(m) = {}
  /\ \A t \in Tools : Needs(t) # {}
  /\ \A t \in Tools \ {"chat"} : Declared(t) \in Needs(t)
  /\ \A t \in {"index_file", "remove_file", "create_index", "delete_index", "reindex"} :
         Scope(t) = "search.write"
  /\ Tools \cap Others = {}
<1>1. \A m \in Others : Needs(m) = {}
  BY DEF Others, Needs
<1>2. \A t \in Tools : Needs(t) # {}
  BY DEF Tools, Needs
<1>3. \A t \in Tools \ {"chat"} : Declared(t) \in Needs(t)
  BY DEF Tools, Needs, Declared
<1>4. \A t \in {"index_file", "remove_file", "create_index", "delete_index", "reindex"} :
         Scope(t) = "search.write"
  BY DEF Scope
<1>5. Tools \cap Others = {}
  BY DEF Tools, Others
<1>q. QED  BY <1>1, <1>2, <1>3, <1>4, <1>5

\* Replies differ by their kind and what comes with it.
LEMMA ReplyKinds ==
  /\ \A r \in Replies : r.kind \in {"none", "suppressed", "panic", "result", "error"}
  /\ NoReply.kind = "none" /\ Suppressed.kind = "suppressed" /\ Panic.kind = "panic"
  /\ \A b \in BOOLEAN : Result(b).kind = "result" /\ Result(b).isError = b /\ Result(b) \in Replies
  /\ \A c \in Codes : RpcError(c).kind = "error" /\ RpcError(c).code = c /\ RpcError(c) \in Replies
  /\ NoReply \in Replies /\ Suppressed \in Replies /\ Panic \in Replies
  /\ \A r \in Replies : r.kind = "result" => r \in {Result(TRUE), Result(FALSE)}
<1>1. NoReply.kind = "none" /\ Suppressed.kind = "suppressed" /\ Panic.kind = "panic"
  BY DEF NoReply, Suppressed, Panic
<1>2. \A b : Result(b).kind = "result" /\ Result(b).isError = b
  BY DEF Result
<1>3. \A c : RpcError(c).kind = "error" /\ RpcError(c).code = c
  BY DEF RpcError
<1>4. \A r \in Replies : r.kind \in {"none", "suppressed", "panic", "result", "error"}
  BY <1>1, <1>2, <1>3 DEF Replies
<1>5. /\ \A b \in BOOLEAN : Result(b) \in Replies
      /\ \A c \in Codes : RpcError(c) \in Replies
      /\ NoReply \in Replies /\ Suppressed \in Replies /\ Panic \in Replies
  BY DEF Replies
<1>6. \A r \in Replies : r.kind = "result" => r \in {Result(TRUE), Result(FALSE)}
  BY <1>1, <1>3 DEF Replies
<1>q. QED  BY <1>1, <1>2, <1>3, <1>4, <1>5, <1>6

\* What an outcome is told as.
LEMMA Told ==
  ASSUME call \in Calls, NEW o \in {"ok", "UnknownTool", "InvalidParams", "Transport"}
  PROVE  /\ Tell(o) \in Replies
         /\ Tell(o) = Result(FALSE) => o = "ok"
         /\ o = "ok" => Tell(o) = Result(FALSE)
         /\ Tell(o).kind \in {"result", "error"}
         /\ Tell(o).kind = "error" =>
                /\ o = "UnknownTool" \/ ~call.wrapped
                /\ o = "Transport" => Tell(o).code = "INTERNAL_ERROR"
         /\ Tell(o) = RpcError("METHOD_NOT_FOUND") => o = "UnknownTool"
<1>1. CASE o = "ok"
  BY <1>1, ReplyKinds DEF Tell, Codes
<1>2. CASE o = "UnknownTool"
  BY <1>2, ReplyKinds DEF Tell, Codes
<1>3. CASE o = "InvalidParams"
  <2>1. CASE call.wrapped
    <3>1. Tell(o) = Result(TRUE)
      BY <1>3, <2>1 DEF Tell
    <3>2. Result(TRUE) # Result(FALSE)
      BY DEF Result
    <3>q. QED  BY <3>1, <3>2, <1>3, ReplyKinds DEF Codes
  <2>2. CASE ~call.wrapped
    BY <1>3, <2>2, ReplyKinds DEF Tell, Codes
  <2>q. QED  BY <2>1, <2>2
<1>4. CASE o = "Transport"
  <2>1. CASE call.wrapped
    <3>1. Tell(o) = Result(TRUE)
      BY <1>4, <2>1 DEF Tell
    <3>2. Result(TRUE) # Result(FALSE)
      BY DEF Result
    <3>q. QED  BY <3>1, <3>2, <1>4, ReplyKinds DEF Codes
  <2>2. CASE ~call.wrapped
    BY <1>4, <2>2, ReplyKinds DEF Tell, Codes
  <2>q. QED  BY <2>1, <2>2
<1>q. QED  BY <1>1, <1>2, <1>3, <1>4

\* A call that ends keeps all but its stage and its reply.
LEMMA EndsCall ==
  ASSUME call \in Calls, NEW r \in Replies, Ends(r)
  PROVE  /\ call' \in Calls /\ call'.at = "done" /\ call'.reply = r
         /\ call'.version = call.version /\ call'.method = call.method
         /\ call'.wrapped = call.wrapped /\ call'.name = call.name /\ call'.fields = call.fields
         /\ call'.handled = call.handled /\ call'.status = call.status
         /\ call'.touched = call.touched /\ call'.acted = call.acted
BY DEF Calls, Ends

-----------------------------------------------------------------------------
(* Steps of a call.                                                        *)

\* A new message is checked before anything is done.
LEMMA MessageKeeps == ASSUME CallInv, Message PROVE CallInv'
<1>1. PICK version \in {"2.0", "1.0"}, id \in BOOLEAN, wrapped \in BOOLEAN, i \in IndexName,
           method \in Tools \cup {"initialize", "initialized", "tools/list", "rpc.discover",
                                 "no such tool", "no name"},
           fields \in {{}} \cup UNION {Needs(t) \cup {Declared(t)} : t \in Tools} :
        /\ version = "1.0" => method = "list_indexes" /\ fields = {}
        /\ ~id => method \in {"initialized", "list_indexes", "delete_index"}
        /\ fields \in {{}, Declared(method)} \cup Needs(method)
        /\ method \in {"initialize", "initialized", "tools/list", "rpc.discover"} => ~wrapped
        /\ method = "no name" => wrapped
        /\ \E wide \in IF method = "search_code" THEN BOOLEAN ELSE {FALSE} :
               call' = [at |-> "dispatch", version |-> version, id |-> id, method |-> method,
                        wrapped |-> wrapped, name |-> i, fields |-> fields, wide |-> wide,
                        handled |-> 0, status |-> 0, json |-> FALSE, touched |-> FALSE,
                        acted |-> Nobody, reply |-> NoReply]
  BY DEF Message
<1> PICK wide \in BOOLEAN :
        call' = [at |-> "dispatch", version |-> version, id |-> id, method |-> method,
                 wrapped |-> wrapped, name |-> i, fields |-> fields, wide |-> wide,
                 handled |-> 0, status |-> 0, json |-> FALSE, touched |-> FALSE,
                 acted |-> Nobody, reply |-> NoReply]
  BY <1>1
<1>2. fields \in SUBSET FieldNames
  BY DEF FieldNames
<1>3. call' \in Calls
  BY <1>2, ReplyKinds DEF Calls, Others
<1>4. Underway(call') /\ Replied(call')
  BY DEF Underway, Replied
<1>q. QED  BY <1>3, <1>4 DEF CallInv

\* A call that ends without having been sent.
LEMMA RefusedKeeps ==
  ASSUME call \in Calls, Underway(call), call.at \in {"dispatch", "send"},
         NEW r \in Replies, Ends(r),
         Tool(call) => r.kind # "result" \/ r = Result(TRUE),
         Tool(call) /\ call.wrapped => r.kind \in {"result", "panic"},
         r = RpcError("METHOD_NOT_FOUND") => call.method \notin Tools
  PROVE  CallInv'
<1>1. /\ call' \in Calls /\ call'.at = "done" /\ call'.reply = r
      /\ call'.version = call.version /\ call'.method = call.method
      /\ call'.wrapped = call.wrapped /\ call'.name = call.name /\ call'.fields = call.fields
      /\ call'.handled = call.handled /\ call'.status = call.status
      /\ call'.touched = call.touched /\ call'.acted = call.acted
  BY EndsCall
<1>2. call'.handled = 0 /\ (Tool(call) => r # Result(FALSE))
  <2>1. Result(TRUE) # Result(FALSE) /\ Result(FALSE).kind = "result"
    BY DEF Result
  <2>q. QED  BY <2>1, <1>1 DEF Underway
<1>3. Underway(call')
  BY <1>1 DEF Underway
<1>4. Replied(call')
  BY <1>1, <1>2 DEF Replied, Tool, Complete
<1>q. QED  BY <1>1, <1>3, <1>4 DEF CallInv

\* What is not a call of a tool is answered at once, what lacks a field is refused.
LEMMA DispatchKeeps == ASSUME CallInv, dispatch PROVE CallInv'
<1>1. call \in Calls /\ Underway(call) /\ call.at = "dispatch"
  <2>1. call.at = "dispatch"
    BY DEF dispatch
  <2>2. Idle.at = "idle"
    BY DEF Idle
  <2>q. QED  BY <2>1, <2>2 DEF CallInv
<1>2. CASE \E r \in {RpcError("INVALID_REQUEST"), Suppressed, Result(FALSE),
                     RpcError("INVALID_PARAMS")} : Ends(r) /\ ~Tool(call)
  <2>1. PICK r \in {RpcError("INVALID_REQUEST"), Suppressed, Result(FALSE),
                    RpcError("INVALID_PARAMS")} : Ends(r) /\ ~Tool(call)
    BY <1>2
  <2>2. r \in Replies /\ r # RpcError("METHOD_NOT_FOUND")
    BY ReplyKinds DEF Codes
  <2>q. QED  BY <1>1, <2>1, <2>2, RefusedKeeps
<1>3. CASE Needs(call.method) = {} /\ Ends(Tell("UnknownTool"))
  <2>1. call.method \notin Tools
    BY <1>3, ToolTable
  <2>2. Tell("UnknownTool") \in Replies
    BY <1>1, Told
  <2>q. QED  BY <1>1, <1>3, <2>1, <2>2, RefusedKeeps DEF Tool
<1>4. CASE Ends(Tell("InvalidParams"))
  <2>1. /\ Tell("InvalidParams") \in Replies /\ Tell("InvalidParams") # Result(FALSE)
        /\ Tell("InvalidParams") # RpcError("METHOD_NOT_FOUND")
        /\ Tell("InvalidParams").kind \in {"result", "error"}
        /\ call.wrapped => Tell("InvalidParams").kind = "result"
    BY <1>1, Told
  <2>2. Tell("InvalidParams").kind = "result" => Tell("InvalidParams") = Result(TRUE)
    BY <2>1, ReplyKinds
  <2>q. QED  BY <1>1, <1>4, <2>1, <2>2, RefusedKeeps
<1>5. CASE /\ call.version = "2.0" /\ Needs(call.method) # {} /\ Complete(call)
           /\ call' = [call EXCEPT !.at = "send"]
  <2>1. call.method \in Tools
    BY <1>1, <1>5, ToolTable DEF Calls
  <2>2. /\ call' \in Calls /\ call'.at = "send" /\ call'.version = call.version
        /\ call'.method = call.method /\ call'.fields = call.fields
        /\ call'.handled = call.handled /\ call'.reply = call.reply
        /\ call'.touched = call.touched
    BY <1>1, <1>5 DEF Calls
  <2>3. Underway(call') /\ Replied(call')
    BY <1>1, <1>5, <2>1, <2>2 DEF Underway, Replied, Sent, Complete
  <2>q. QED  BY <2>2, <2>3 DEF CallInv
<1>q. QED
  <2>1. CASE call.version # "2.0"
    BY <2>1, <1>2 DEF dispatch, Tool
  <2>2. CASE call.version = "2.0" /\ call.method \in {"initialize", "tools/list", "rpc.discover"}
    BY <2>2, <1>2 DEF dispatch, Tool, Tools, Result
  <2>3. CASE call.version = "2.0" /\ call.method = "initialized"
    BY <2>3, <1>2 DEF dispatch, Tool, Tools
  <2>4. CASE call.version = "2.0" /\ call.method = "no name"
    BY <2>4, <1>2 DEF dispatch, Tool, Tools
  <2>5. CASE /\ call.version = "2.0"
             /\ call.method \notin {"initialize", "tools/list", "rpc.discover", "initialized", "no name"}
    BY <2>5, <1>3, <1>4, <1>5 DEF dispatch, Complete
  <2>q. QED  BY <2>1, <2>2, <2>3, <2>4, <2>5

\* A transport error of a call that was sent.
LEMMA LostKeeps ==
  ASSUME call \in Calls, Underway(call), call.at \in {"send", "answer"}, Ends(Tell("Transport"))
  PROVE  CallInv'
<1>1. /\ Tell("Transport") \in Replies /\ Tell("Transport") # Result(FALSE)
      /\ Tell("Transport") # RpcError("METHOD_NOT_FOUND")
      /\ Tell("Transport").kind \in {"result", "error"}
      /\ Tell("Transport").kind = "error" => ~call.wrapped /\ Tell("Transport").code = "INTERNAL_ERROR"
  BY Told
<1>2. /\ call' \in Calls /\ call'.at = "done" /\ call'.reply = Tell("Transport")
      /\ call'.version = call.version /\ call'.method = call.method
      /\ call'.wrapped = call.wrapped /\ call'.name = call.name /\ call'.fields = call.fields
      /\ call'.handled = call.handled /\ call'.status = call.status
      /\ call'.touched = call.touched /\ call'.acted = call.acted
  BY <1>1, EndsCall
<1>3. Complete(call) /\ Complete(call')
  BY <1>2 DEF Underway, Sent, Complete
<1>4. Underway(call')
  BY <1>2 DEF Underway
<1>5. Replied(call')
  BY <1>1, <1>2, <1>3 DEF Replied
<1>q. QED  BY <1>2, <1>4, <1>5 DEF CallInv

\* Whatever a handler answers, it changes an index only for a tool that may.
LEMMA Handled ==
  ASSUME NEW target, HandleRequest(target)
  PROVE  /\ \E status \in Nat, json \in BOOLEAN : Answer(status, json, target)
         /\ UNCHANGED indexes \/ Scope(call.method) = "search.write"
<1> DEFINE Ans == \E status \in Nat, json \in BOOLEAN : Answer(status, json, target)
           Same == UNCHANGED indexes \/ Scope(call.method) = "search.write"
           tool == call.method
           present == target # Nobody /\ live[target] # 0
<1>1. \A status \in Nat, json \in BOOLEAN : Answer(status, json, target) => Ans
  OBVIOUS
<1>2. \A status \in Nat, json \in BOOLEAN : Refuse(status, json, target) => Ans /\ Same
  BY DEF Refuse
<1>3. tool \in {"index_file", "remove_file", "create_index", "delete_index"} => Same
  BY ToolTable
<1> HIDE DEF Ans, Same
<1> DEFINE R1 == Refuse(404, FALSE, target)
           R2 == Refuse(200, TRUE, target)
           R3 == Refuse(422, FALSE, target)
           R4 == Refuse(500, FALSE, target)
           R5 == Refuse(404, TRUE, target)
           R6 == Refuse(429, TRUE, target)
           R7 == Refuse(503, TRUE, target)
<1>4. /\ (R1 => Ans /\ Same) /\ (R2 => Ans /\ Same) /\ (R3 => Ans /\ Same) /\ (R4 => Ans /\ Same)
      /\ (R5 => Ans /\ Same) /\ (R6 => Ans /\ Same) /\ (R7 => Ans /\ Same)
  <2>1. /\ \A status \in Nat : Refuse(status, TRUE, target) => Ans /\ Same
        /\ \A status \in Nat : Refuse(status, FALSE, target) => Ans /\ Same
    BY <1>2, Zenon
  <2>2. /\ 200 \in Nat /\ 404 \in Nat /\ 422 \in Nat /\ 429 \in Nat /\ 500 \in Nat /\ 503 \in Nat
    OBVIOUS
  <2>q. QED  BY ONLY <2>1, <2>2
<1>5. (Answer(200, TRUE, target) => Ans) /\ (Answer(500, FALSE, target) => Ans)
  <2>1. 200 \in Nat /\ 500 \in Nat
    OBVIOUS
  <2>q. QED  BY <2>1, <1>1, Zenon
<1> DEFINE Refused == R1 \/ R2 \/ R3 \/ R4 \/ R5 \/ R6 \/ R7
           Partial == \E status \in Nat : Refuse(status, TRUE, target)
           Done == /\ tool \in {"index_file", "remove_file", "create_index", "delete_index"}
                   /\ Answer(200, TRUE, target) \/ Answer(500, FALSE, target)
<1>6. Refused \/ Partial \/ Done
  <2> DEFINE C == {200, 400, 500, 502, 503}
  <2>1. Refused \/ Done \/ \E status \in C : Refuse(status, TRUE, target)
    BY Zenon DEF HandleRequest
  <2>2. C \subseteq Nat
    OBVIOUS
  <2> HIDE DEF C, Refused, Done
  <2>q. QED  BY <2>1, <2>2, Zenon
<1>7. Ans /\ Same
  <2>1. Done => Ans /\ Same
    BY <1>3, <1>5, Zenon
  <2>2. Partial => Ans /\ Same
    BY <1>2, Zenon
  <2>3. Refused => Ans /\ Same
    <3> HIDE DEF R1, R2, R3, R4, R5, R6, R7
    <3>q. QED  BY ONLY <1>4, Zenon
  <2> HIDE DEF Done, Partial, Refused
  <2>q. QED  BY <2>1, <2>2, <2>3, <1>6, Zenon
<1>q. QED  BY <1>7 DEF Ans, Same

\* A request is carried out once, for the index that its name addresses.
LEMMA CarryKeeps == ASSUME CallInv, Carry PROVE CallInv'
<1>1. call.at = "send" /\ HandleRequest(Addressed(call.method, call.name))
  BY DEF Carry
<1>2. call \in Calls /\ Underway(call)
  <2>1. Idle.at = "idle"
    BY DEF Idle
  <2>q. QED  BY <1>1, <2>1 DEF CallInv
<1>3. PICK target : target = Addressed(call.method, call.name)
  OBVIOUS
<1>4. target \in Targets
  BY <1>2, <1>3 DEF Addressed, Targets, Calls
<1>5. PICK status \in Nat, json \in BOOLEAN : Answer(status, json, target)
  BY <1>1, <1>3, Handled
<1>6. PICK touched \in BOOLEAN : touched = (indexes' # indexes)
  OBVIOUS
<1>7. call.handled + 1 = 1
  BY <1>1, <1>2 DEF Underway
<1>8. call' = [call EXCEPT !.at = "answer", !.handled = 1, !.status = status, !.json = json,
                           !.touched = touched, !.acted = target]
  BY <1>5, <1>6, <1>7 DEF Answer
<1>9. /\ call' \in Calls /\ call'.at = "answer" /\ call'.handled = 1 /\ call'.acted = target
      /\ call'.version = call.version /\ call'.method = call.method /\ call'.name = call.name
      /\ call'.fields = call.fields /\ call'.touched = touched
  BY <1>2, <1>4, <1>8 DEF Calls
<1>10. touched => Scope(call.method) = "search.write"
  BY <1>1, <1>3, <1>6, Handled
<1>11. Underway(call') /\ Replied(call')
  BY <1>1, <1>2, <1>3, <1>9, <1>10 DEF Underway, Replied, Sent, Complete
<1>q. QED  BY <1>9, <1>11 DEF CallInv

\* Success is told of an answer with 200 and a body.
LEMMA ReplyKeeps == ASSUME CallInv, Reply PROVE CallInv'
<1>1. call.at = "answer" /\ Ends(IF HttpOutcome = "ok" /\ Cut("mcp") THEN Panic ELSE Tell(HttpOutcome))
  BY DEF Reply
<1>2. call \in Calls /\ Underway(call)
  <2>1. Idle.at = "idle"
    BY DEF Idle
  <2>q. QED  BY <1>1, <2>1 DEF CallInv
<1>3. CASE HttpOutcome # "ok"
  <2>1. HttpOutcome = "Transport"
    BY <1>3 DEF HttpOutcome
  <2>q. QED  BY <1>1, <1>2, <2>1, LostKeeps
<1>4. CASE HttpOutcome = "ok"
  <2>1. call.status = 200
    BY <1>4 DEF HttpOutcome
  <2>2. PICK r \in {Panic, Result(FALSE)} : Ends(r)
    BY <1>1, <1>2, <1>4, Told
  <2>3. r \in Replies /\ r.kind \in {"panic", "result"} /\ r # RpcError("METHOD_NOT_FOUND")
    BY ReplyKinds DEF Codes
  <2>4. /\ call' \in Calls /\ call'.at = "done" /\ call'.reply = r
        /\ call'.version = call.version /\ call'.method = call.method
        /\ call'.wrapped = call.wrapped /\ call'.name = call.name /\ call'.fields = call.fields
        /\ call'.handled = call.handled /\ call'.status = call.status
        /\ call'.touched = call.touched /\ call'.acted = call.acted
    BY <1>2, <2>2, <2>3, EndsCall
  <2>5. Complete(call') /\ call'.handled = 1 /\ call'.acted = Addressed(call'.method, call'.name)
    BY <1>1, <1>2, <2>4 DEF Underway, Sent, Complete
  <2>6. Underway(call')
    BY <1>2, <2>4 DEF Underway
  <2>7. Replied(call')
    BY <2>1, <2>3, <2>4, <2>5 DEF Replied
  <2>q. QED  BY <2>4, <2>6, <2>7 DEF CallInv
<1>q. QED  BY <1>3, <1>4

-----------------------------------------------------------------------------
(* The properties.                                                         *)

\* What holds of a call whatever the daemon and its other clients do.
LEMMA CallKept == McpSpec => []CallInv
<1>1. ASSUME McpInit PROVE CallInv
  BY <1>1 DEF McpInit, CallInv
<1>2. ASSUME CallInv, [McpNext \/ (ApiNext /\ UNCHANGED mcpvars)]_<<apivars, mcpvars>>
      PROVE  CallInv'
  <2>1. CASE UNCHANGED call
    BY <1>2, <2>1 DEF CallInv
  <2>2. CASE Message
    BY <1>2, <2>2, MessageKeeps
  <2>3. CASE dispatch
    BY <1>2, <2>3, DispatchKeeps
  <2>4. CASE Carry
    BY <1>2, <2>4, CarryKeeps
  <2>5. CASE Reply
    BY <1>2, <2>5, ReplyKeeps
  <2>6. CASE call.at \in {"send", "answer"} /\ Ends(Tell("Transport"))
    <3>1. Idle.at = "idle"
      BY DEF Idle
    <3>2. call \in Calls /\ Underway(call)
      BY <1>2, <2>6, <3>1 DEF CallInv
    <3>q. QED  BY <2>6, <3>2, LostKeeps
  <2>7. CASE SendFails
    BY <2>6, <2>7 DEF SendFails
  <2>8. CASE SearchPanics
    BY <2>6, <2>8 DEF SearchPanics
  <2>9. CASE DaemonKilled
    BY <2>1, <2>6, <2>9 DEF DaemonKilled
  <2>10. CASE DaemonBack
    BY <2>1, <2>10 DEF DaemonBack
  <2>11. CASE UNCHANGED mcpvars
    BY <2>1, <2>11 DEF mcpvars
  <2>12. CASE UNCHANGED <<apivars, mcpvars>>
    BY <2>11, <2>12
  <2>q. QED
    BY <1>2, <2>2, <2>3, <2>4, <2>5, <2>7, <2>8, <2>9, <2>10, <2>11, <2>12 DEF McpNext
<1>q. QED  BY <1>1, <1>2, PTL DEF McpSpec

\* What agents are told of their calls and of the tools.
LEMMA CallGives == CallInv => ToolsSound
<1> SUFFICES ASSUME CallInv PROVE ToolsSound
  OBVIOUS
<1>1. CASE call = Idle
  <2>1. call.at = "idle"
    BY <1>1 DEF Idle
  <2>q. QED  BY <2>1, ToolTable DEF ToolsSound, SuccessIsTrue, RefusedIsUnsent, FailuresInBand,
                                    ReadsOnlyRead, DescriptorsHonest, Answered
<1>2. CASE call \in Calls /\ Underway(call) /\ Replied(call)
  <2>1. SuccessIsTrue
    <3>1. Segment(call.name) = call.name => Addressed(call.method, call.name) = call.name
      BY DEF Addressed
    <3>q. QED  BY <1>2, <3>1 DEF SuccessIsTrue, Answered, OfTool, Replied, Tool
  <2>2. RefusedIsUnsent
    <3>1. call.handled <= 1
      BY <1>2 DEF Calls
    <3>q. QED  BY <1>2, <3>1 DEF RefusedIsUnsent, Answered, OfTool, Replied, Tool, Complete
  <2>3. FailuresInBand
    BY <1>2 DEF FailuresInBand, Answered, OfTool, Replied, Tool
  <2>4. ReadsOnlyRead
    BY <1>2 DEF ReadsOnlyRead, Underway
  <2>5. DescriptorsHonest
    BY <1>2, ToolTable DEF DescriptorsHonest, Answered, Replied
  <2>q. QED  BY <2>1, <2>2, <2>3, <2>4, <2>5 DEF ToolsSound
<1>q. QED  BY <1>1, <1>2 DEF CallInv

\* For any names and any number of messages, whatever the daemon answers, refuses or loses:
\* success is told of what was carried out once for the index that was named, a refusal of
\* what was not sent, a failure of a tool within the result; and tools that read change no
\* index (dispatch, call_tool).
THEOREM AgentsTold == McpSpec => []ToolsSound
BY CallKept, CallGives, PTL
-----------------------------------------------------------------------------
(* Ranks: what orders of finite sets, and picking by position, amount to.  *)

\* The members before one by an order, and its place among them all.
Beneath(S, R, x) == {y \in S : <<y, x>> \in R}
Rank(S, R, x) == 1 + Cardinality(Beneath(S, R, x))

\* In a strict total order of a finite set each rank is somebody's, and nobody else's.
LEMMA RankBijection ==
  ASSUME NEW S, IsFiniteSet(S), NEW R,
         \A x, y \in S : <<x, y>> \in R => <<y, x>> \notin R,
         \A x, y, z \in S : <<x, y>> \in R /\ <<y, z>> \in R => <<x, z>> \in R,
         \A x, y \in S : x = y \/ <<x, y>> \in R \/ <<y, x>> \in R
  PROVE  /\ \A x \in S : Rank(S, R, x) \in 1..Cardinality(S)
         /\ \A x, y \in S : Rank(S, R, x) = Rank(S, R, y) => x = y
         /\ \A r \in 1..Cardinality(S) : \E x \in S : Rank(S, R, x) = r
         /\ \A x, y \in S : <<x, y>> \in R <=> Rank(S, R, x) < Rank(S, R, y)
<1>1. Cardinality(S) \in Nat
  BY FS_CardinalityType
<1>2. \A x \in S : /\ IsFiniteSet(Beneath(S, R, x)) /\ Cardinality(Beneath(S, R, x)) \in Nat
                   /\ Cardinality(Beneath(S, R, x)) <= Cardinality(S) - 1
  <2> SUFFICES ASSUME NEW x \in S
               PROVE  /\ IsFiniteSet(Beneath(S, R, x)) /\ Cardinality(Beneath(S, R, x)) \in Nat
                      /\ Cardinality(Beneath(S, R, x)) <= Cardinality(S) - 1
    OBVIOUS
  <2>1. IsFiniteSet(S \ {x}) /\ Cardinality(S \ {x}) = Cardinality(S) - 1
    BY FS_RemoveElement
  <2>2. Beneath(S, R, x) \in SUBSET (S \ {x})
    BY DEF Beneath
  <2> QED BY <2>1, <2>2, FS_Subset, FS_CardinalityType
<1>3. \A x \in S : Rank(S, R, x) \in 1..Cardinality(S)
  BY <1>1, <1>2 DEF Rank
<1>4. \A x, y \in S : <<x, y>> \in R => Rank(S, R, x) < Rank(S, R, y)
  <2> SUFFICES ASSUME NEW x \in S, NEW y \in S, <<x, y>> \in R
               PROVE  Rank(S, R, x) < Rank(S, R, y)
    OBVIOUS
  <2>1. Beneath(S, R, x) \in SUBSET Beneath(S, R, y)
    BY DEF Beneath
  <2>2. Beneath(S, R, x) # Beneath(S, R, y)
    BY DEF Beneath
  <2>3. /\ Cardinality(Beneath(S, R, x)) <= Cardinality(Beneath(S, R, y))
        /\ Cardinality(Beneath(S, R, x)) # Cardinality(Beneath(S, R, y))
    BY <1>2, <2>1, <2>2, FS_Subset
  <2> QED BY <1>2, <2>3 DEF Rank
<1>5. \A x, y \in S : Rank(S, R, x) = Rank(S, R, y) => x = y
  <2> SUFFICES ASSUME NEW x \in S, NEW y \in S, Rank(S, R, x) = Rank(S, R, y), x # y
               PROVE  FALSE
    OBVIOUS
  <2>1. Rank(S, R, x) \in 1..Cardinality(S) /\ Rank(S, R, y) \in 1..Cardinality(S)
    BY <1>3
  <2>2. Rank(S, R, x) < Rank(S, R, y) \/ Rank(S, R, y) < Rank(S, R, x)
    BY <1>4
  <2> QED BY ONLY <1>1, <2>1, <2>2, Rank(S, R, x) = Rank(S, R, y)
<1> DEFINE f == [x \in S |-> Rank(S, R, x)]
<1>6. f \in Injection(S, 1..Cardinality(S))
  BY <1>3, <1>5 DEF Injection, IsInjective
<1>7. IsFiniteSet(1..Cardinality(S)) /\ Cardinality(1..Cardinality(S)) = Cardinality(S)
  BY <1>1, FS_Interval
<1>8. f \in Surjection(S, 1..Cardinality(S))
  BY <1>6, <1>7, FS_Injection
<1>9. \A r \in 1..Cardinality(S) : \E x \in S : Rank(S, R, x) = r
  BY <1>8 DEF Surjection
<1>10. ASSUME NEW x \in S, NEW y \in S, Rank(S, R, x) < Rank(S, R, y) PROVE <<x, y>> \in R
  <2>1. Rank(S, R, x) \in Nat /\ Rank(S, R, y) \in Nat
    BY <1>1, <1>3
  <2>2. x # y
    BY <1>10, <2>1
  <2>3. ~(Rank(S, R, y) < Rank(S, R, x))
    BY ONLY <1>10, <2>1
  <2> QED BY <1>4, <2>2, <2>3
<1> QED BY <1>3, <1>4, <1>5, <1>9, <1>10

Positions(P) == {mn \in P \X P : mn[1] < mn[2]}

\* The positions of a finite set of numbers, each with its rank.
LEMMA PositionRanks ==
  ASSUME NEW P \in SUBSET Nat, IsFiniteSet(P)
  PROVE  /\ \A n \in P : /\ Rank(P, Positions(P), n) \in 1..Cardinality(P)
                         /\ Rank(P, Positions(P), n) = Cardinality({m \in P : m <= n})
                         /\ Rank(P, Positions(P), n) = 1 + Cardinality({m \in P : m < n})
         /\ \A m, n \in P : Rank(P, Positions(P), m) = Rank(P, Positions(P), n) => m = n
         /\ \A r \in 1..Cardinality(P) : \E n \in P : Rank(P, Positions(P), n) = r
         /\ Cardinality(P) \in Nat
<1>1. /\ \A m, n \in P : <<m, n>> \in Positions(P) <=> m < n
      /\ \A x, y, z \in P : x < y /\ y < z => x < z
      /\ \A x, y \in P : x < y => ~(y < x)
      /\ \A x, y \in P : x = y \/ x < y \/ y < x
  BY DEF Positions
<1>2. \A n \in P : Beneath(P, Positions(P), n) = {m \in P : m < n}
  BY <1>1 DEF Beneath
<1>3. ASSUME NEW n \in P PROVE Rank(P, Positions(P), n) = Cardinality({m \in P : m <= n})
  <2>1. {m \in P : m <= n} = {m \in P : m < n} \cup {n}
    <3>1. \A m \in P : m <= n <=> (m < n \/ m = n)
      OBVIOUS
    <3> QED BY <3>1, Zenon
  <2>2. IsFiniteSet({m \in P : m < n})
    BY FS_Subset
  <2>3. Cardinality({m \in P : m < n} \cup {n}) = Cardinality({m \in P : m < n}) + 1
    <3>1. n \notin {m \in P : m < n}
      BY ONLY P \in SUBSET Nat, n \in P
    <3> QED BY ONLY <2>2, <3>1, FS_AddElement
  <2>4. Cardinality({m \in P : m < n}) \in Nat
    BY <2>2, FS_CardinalityType
  <2> QED BY <1>2, <2>1, <2>3, <2>4 DEF Rank
<1>4. \A n \in P : Rank(P, Positions(P), n) = 1 + Cardinality({m \in P : m < n})
  BY <1>2 DEF Rank
<1>5. /\ \A n \in P : Rank(P, Positions(P), n) \in 1..Cardinality(P)
      /\ \A m, n \in P : Rank(P, Positions(P), m) = Rank(P, Positions(P), n) => m = n
      /\ \A r \in 1..Cardinality(P) : \E n \in P : Rank(P, Positions(P), n) = r
  <2>1. \A x, y \in P : <<x, y>> \in Positions(P) => <<y, x>> \notin Positions(P)
    BY <1>1
  <2>2. \A x, y, z \in P : <<x, y>> \in Positions(P) /\ <<y, z>> \in Positions(P) => <<x, z>> \in Positions(P)
    BY <1>1
  <2>3. \A x, y \in P : x = y \/ <<x, y>> \in Positions(P) \/ <<y, x>> \in Positions(P)
    BY <1>1
  <2> QED BY ONLY IsFiniteSet(P), <2>1, <2>2, <2>3, RankBijection
<1> QED BY <1>3, <1>4, <1>5, FS_CardinalityType

\* What is picked is what is at the positions, once for each of them.
LEMMA PickedIs ==
  ASSUME NEW P \in SUBSET Nat, IsFiniteSet(P), NEW s
  PROVE  \E q \in [1..Cardinality(P) -> P] :
             /\ DOMAIN Picked(s, P) = 1..Cardinality(P)
             /\ Picked(s, P) = [r \in DOMAIN Picked(s, P) |-> Picked(s, P)[r]]
             /\ \A r \in 1..Cardinality(P) : Picked(s, P)[r] = s[q[r]]
             /\ \A r, t \in 1..Cardinality(P) : q[r] = q[t] => r = t
             /\ \A n \in P : \E r \in 1..Cardinality(P) : q[r] = n
             /\ Cardinality(P) \in Nat
<1> DEFINE At(n) == Cardinality({m \in P : m <= n})
           q == [r \in 1..Cardinality(P) |-> CHOOSE n \in P : At(n) = r]
<1>0. /\ \A n \in P : /\ Rank(P, Positions(P), n) \in 1..Cardinality(P)
                      /\ Rank(P, Positions(P), n) = At(n)
      /\ \A m, n \in P : Rank(P, Positions(P), m) = Rank(P, Positions(P), n) => m = n
      /\ \A r \in 1..Cardinality(P) : \E n \in P : Rank(P, Positions(P), n) = r
  BY PositionRanks, Zenon
<1> HIDE DEF At
<1>1. /\ \A n \in P : At(n) \in 1..Cardinality(P)
      /\ \A m, n \in P : At(m) = At(n) => m = n
      /\ \A r \in 1..Cardinality(P) : \E n \in P : At(n) = r
  BY <1>0, Zenon
<1>2. Picked(s, P) = [r \in 1..Cardinality(P) |-> s[q[r]]]
  BY DEF Picked, At
<1>3. \A r \in 1..Cardinality(P) : q[r] \in P /\ At(q[r]) = r
  BY <1>1
<1>4. \A n \in P : q[At(n)] = n
  BY <1>1, <1>3
<1> HIDE DEF q
<1>5. q \in [1..Cardinality(P) -> P]
  BY <1>3 DEF q
<1> QED BY <1>1, <1>2, <1>3, <1>4, <1>5, FS_CardinalityType

-----------------------------------------------------------------------------
(* Pages of a corpus.                                                      *)

\* No two chunks of the corpus have the same file, first and last line.
Distinct(C) == \A a, b \in C : a = b \/ Precedes(a, b) \/ Precedes(b, a)
PrecedesIn(C) == {ab \in C \X C : Precedes(ab[1], ab[2])}
\* The corpus in order.
InOrder(C) == [p \in 1..Cardinality(C) |-> CHOOSE c \in C : Rank(C, PrecedesIn(C), c) = p]

\* Precedes is a strict order of the chunks, a total one of distinct chunks.
LEMMA PrecedesOrders ==
  /\ \A a, b \in Chunks : Precedes(a, b) => ~Precedes(b, a)
  /\ \A a, b, c \in Chunks : Precedes(a, b) /\ Precedes(b, c) => Precedes(a, c)
<1>1. \A c \in Chunks : c.file \in Nat /\ c.from \in Nat /\ c.to \in Nat
  BY ApiAssumption
<1> QED BY <1>1 DEF Precedes

\* In a distinct corpus each rank is that of one chunk.
LEMMA ChunkRanks ==
  ASSUME NEW C \in SUBSET Chunks, IsFiniteSet(C), Distinct(C)
  PROVE  /\ \A c \in C : Rank(C, PrecedesIn(C), c) \in 1..Cardinality(C)
         /\ \A c, d \in C : Rank(C, PrecedesIn(C), c) = Rank(C, PrecedesIn(C), d) => c = d
         /\ \A r \in 1..Cardinality(C) : \E c \in C : Rank(C, PrecedesIn(C), c) = r
         /\ \A c \in C : Beneath(C, PrecedesIn(C), c) = {d \in C : Precedes(d, c)}
<1>1. \A c, d \in C : <<c, d>> \in PrecedesIn(C) <=> Precedes(c, d)
  BY DEF PrecedesIn
<1>2. \A c \in C : Beneath(C, PrecedesIn(C), c) = {d \in C : Precedes(d, c)}
  BY <1>1 DEF Beneath
<1>3. \A c, d \in C : <<c, d>> \in PrecedesIn(C) => <<d, c>> \notin PrecedesIn(C)
  BY <1>1, PrecedesOrders
<1>4. \A c, d, e \in C : <<c, d>> \in PrecedesIn(C) /\ <<d, e>> \in PrecedesIn(C) => <<c, e>> \in PrecedesIn(C)
  BY <1>1, PrecedesOrders
<1>5. \A c, d \in C : c = d \/ <<c, d>> \in PrecedesIn(C) \/ <<d, c>> \in PrecedesIn(C)
  BY <1>1 DEF Distinct
<1> QED BY <1>2, <1>3, <1>4, <1>5, RankBijection

\* A distinct corpus in order has every chunk once.
LEMMA SortedIs ==
  ASSUME NEW C \in SUBSET Chunks, IsFiniteSet(C), Distinct(C)
  PROVE  /\ InOrder(C) \in Seq(C) /\ Len(InOrder(C)) = Cardinality(C) /\ Cardinality(C) \in Nat
         /\ IsInjective(InOrder(C)) /\ ToSet(InOrder(C)) = C
         /\ \A p \in 1..Cardinality(C) :
                InOrder(C)[p] \in C /\ Rank(C, PrecedesIn(C), InOrder(C)[p]) = p
<1>1. Cardinality(C) \in Nat
  BY FS_CardinalityType
<1> DEFINE at(c) == Rank(C, PrecedesIn(C), c)
<1>2. /\ \A c \in C : at(c) \in 1..Cardinality(C)
      /\ \A c, d \in C : at(c) = at(d) => c = d
      /\ \A r \in 1..Cardinality(C) : \E c \in C : at(c) = r
  BY ChunkRanks
<1>3. /\ InOrder(C) = [p \in 1..Cardinality(C) |-> CHOOSE c \in C : at(c) = p]
      /\ \A p \in 1..Cardinality(C) : InOrder(C)[p] = CHOOSE c \in C : at(c) = p
  BY DEF InOrder
<1> HIDE DEF at
<1>4. \A p \in 1..Cardinality(C) : InOrder(C)[p] \in C /\ at(InOrder(C)[p]) = p
  BY <1>2, <1>3
<1>5. DOMAIN InOrder(C) = 1..Cardinality(C)
  BY <1>3
<1>6. InOrder(C) \in [1..Cardinality(C) -> C]
  BY <1>3, <1>4
<1>7. InOrder(C) \in Seq(C) /\ Len(InOrder(C)) = Cardinality(C)
  BY <1>1, <1>6
<1>8. IsInjective(InOrder(C))
  BY <1>4, <1>5 DEF IsInjective
<1>9. ASSUME NEW c \in C PROVE c \in ToSet(InOrder(C))
  <2>1. InOrder(C)[at(c)] = c
    BY <1>2, <1>4
  <2> QED BY <1>2, <1>5, <2>1 DEF ToSet
<1>10. ToSet(InOrder(C)) = C
  BY <1>4, <1>5, <1>9 DEF ToSet
<1> QED BY <1>1, <1>4, <1>7, <1>8, <1>10 DEF at

\* The set of a sequence without repetition is as large as the sequence is long.
LEMMA SetOfSequence ==
  ASSUME NEW S, NEW t \in Seq(S), IsInjective(t)
  PROVE  /\ IsFiniteSet(ToSet(t)) /\ Cardinality(ToSet(t)) = Len(t)
         /\ DOMAIN t = 1..Len(t) /\ ToSet(t) \subseteq S
<1>1. DOMAIN t = 1..Len(t) /\ Len(t) \in Nat
  OBVIOUS
<1>2. ToSet(t) \subseteq S
  BY <1>1 DEF ToSet
<1>3. t \in [1..Len(t) -> ToSet(t)]
  BY <1>1 DEF ToSet
<1>4. t \in Bijection(1..Len(t), ToSet(t))
  BY <1>1, <1>3 DEF ToSet, IsInjective, Bijection, Injection, Surjection
<1>5. IsFiniteSet(1..Len(t)) /\ Cardinality(1..Len(t)) = Len(t)
  BY <1>1, FS_Interval
<1>6. ExistsBijection(1..Len(t), ToSet(t))
  BY <1>4 DEF ExistsBijection
<1> QED BY <1>1, <1>2, <1>5, <1>6, FS_Bijection

\* Whatever the order of the map, the sort gives the one order of a distinct corpus.
LEMMA OrderedIs ==
  ASSUME NEW t \in Seq(Chunks), IsInjective(t), Distinct(ToSet(t))
  PROVE  Ordered(t) = InOrder(ToSet(t))
<1> DEFINE C == ToSet(t)
           R == PrecedesIn(C)
           Leads(m, n) == \/ Precedes(t[m], t[n])
                          \/ m < n /\ ~Precedes(t[n], t[m])
           Place(n) == 1 + Cardinality({m \in DOMAIN t : Leads(m, n)})
<1>1. /\ IsFiniteSet(C) /\ Cardinality(C) = Len(t) /\ DOMAIN t = 1..Len(t) /\ C \subseteq Chunks
      /\ \A n \in DOMAIN t : t[n] \in C
      /\ \A c \in C : \E n \in DOMAIN t : t[n] = c
      /\ \A m, n \in DOMAIN t : t[m] = t[n] => m = n
  <2>1. IsFiniteSet(C) /\ Cardinality(C) = Len(t) /\ DOMAIN t = 1..Len(t) /\ C \subseteq Chunks
    BY SetOfSequence
  <2> QED BY <2>1 DEF ToSet, IsInjective
<1>2. Distinct(C)
  OBVIOUS
<1> HIDE DEF C
<1>3. ASSUME NEW n \in DOMAIN t PROVE Place(n) = Rank(C, R, t[n])
  <2>1. \A m \in DOMAIN t : Leads(m, n) <=> Precedes(t[m], t[n])
    <3> SUFFICES ASSUME NEW m \in DOMAIN t, m < n, ~Precedes(t[n], t[m])
                 PROVE  Precedes(t[m], t[n])
      OBVIOUS
    <3>1. m # n
      BY <1>1
    <3> QED BY <1>1, <1>2, <3>1 DEF Distinct
  <2> DEFINE M == {m \in DOMAIN t : Leads(m, n)}
             B == {d \in C : Precedes(d, t[n])}
             g == [m \in M |-> t[m]]
  <2>2. Beneath(C, R, t[n]) = B
    BY <1>1, <1>2, ChunkRanks
  <2>3. M = {m \in DOMAIN t : Precedes(t[m], t[n])}
    BY <2>1
  <2>4. IsFiniteSet(B)
    BY <1>1, FS_Subset
  <2> HIDE DEF M
  <2>5. g \in [M -> B]
    BY <1>1, <2>3
  <2>6. g \in Injection(M, B) /\ g \in Surjection(M, B)
    <3>1. \A a, b \in M : g[a] = g[b] => a = b
      BY <1>1, <2>3
    <3>2. \A d \in B : \E m \in M : g[m] = d
      BY <1>1, <2>3
    <3> QED BY <2>5, <3>1, <3>2 DEF Injection, Surjection, IsInjective
  <2>7. Cardinality(M) = Cardinality(B)
    BY <2>4, <2>6, FS_Injection
  <2> QED BY <2>2, <2>7 DEF Rank, M
<1> DEFINE place(n) == Place(n)
           best(p) == CHOOSE n \in DOMAIN t : place(n) = p
<1>4. Ordered(t) = [p \in DOMAIN t |-> t[best(p)]]
  BY DEF Ordered
<1>5. \A n \in DOMAIN t : place(n) = Rank(C, R, t[n])
  BY <1>3
<1> HIDE DEF place
<1>6. \A p \in 1..Cardinality(C) : best(p) \in DOMAIN t /\ place(best(p)) = p
  <2> SUFFICES ASSUME NEW p \in 1..Cardinality(C) PROVE \E n \in DOMAIN t : place(n) = p
    OBVIOUS
  <2>1. PICK c \in C : Rank(C, R, c) = p
    BY <1>1, <1>2, ChunkRanks
  <2>2. PICK n \in DOMAIN t : t[n] = c
    BY <1>1
  <2> QED BY <1>5, <2>1, <2>2
<1> HIDE DEF best
<1>7. ASSUME NEW p \in 1..Cardinality(C) PROVE t[best(p)] = InOrder(C)[p]
  <2>1. t[best(p)] \in C /\ Rank(C, R, t[best(p)]) = p
    BY <1>1, <1>5, <1>6
  <2>2. InOrder(C)[p] \in C /\ Rank(C, R, InOrder(C)[p]) = p
    BY <1>1, <1>2, SortedIs
  <2> QED BY <1>1, <1>2, <2>1, <2>2, ChunkRanks
<1>8. InOrder(C) = [p \in 1..Cardinality(C) |-> InOrder(C)[p]]
  BY DEF InOrder
<1>9. Ordered(t) = InOrder(C)
  BY <1>1, <1>4, <1>7, <1>8
<1> QED BY <1>9 DEF C

\* The next page goes on where the pages so far have ended.
LEMMA PageAppends ==
  ASSUME NEW S, NEW s \in Seq(S), NEW a \in Nat, NEW b \in Nat
  PROVE  FirstOf(a, s) \o (IF a >= Len(s) THEN <<>> ELSE SubSeq(s, a + 1, Smaller(a + b, Len(s))))
             = FirstOf(a + b, s)
<1>1. Len(s) \in Nat
  OBVIOUS
<1>2. CASE a >= Len(s)
  <2>1. Smaller(a, Len(s)) = Len(s) /\ Smaller(a + b, Len(s)) = Len(s)
    BY <1>1, <1>2 DEF Smaller
  <2>2. FirstOf(a, s) = s /\ FirstOf(a + b, s) = s
    <3>1. SubSeq(s, 1, Len(s)) = s
      OBVIOUS
    <3> QED BY <2>1, <3>1 DEF FirstOf
  <2>3. s \o <<>> = s
    OBVIOUS
  <2> DEFINE next == IF a >= Len(s) THEN <<>> ELSE SubSeq(s, a + 1, Smaller(a + b, Len(s)))
  <2>4. next = <<>>
    BY <1>2
  <2> HIDE DEF next
  <2>5. FirstOf(a, s) \o next = FirstOf(a + b, s)
    BY ONLY <2>2, <2>3, <2>4
  <2> QED BY <2>5, Zenon DEF next
<1>3. CASE a < Len(s)
  <2> DEFINE c == Smaller(a + b, Len(s))
  <2>1. /\ Smaller(a, Len(s)) = a /\ c \in Nat /\ a <= c /\ c <= Len(s)
    BY <1>1, <1>3 DEF Smaller
  <2> HIDE DEF c
  <2>2. SubSeq(s, 1, a) \o SubSeq(s, a + 1, c) = SubSeq(s, 1, c)
    BY <1>1, <2>1
  <2> QED BY <1>1, <1>3, <2>1, <2>2 DEF FirstOf, c
<1>4. a >= Len(s) \/ a < Len(s)
  BY <1>1
<1> QED BY <1>2, <1>3, <1>4, Zenon

-----------------------------------------------------------------------------
(* Chunks like one.                                                        *)

\* What is picked of a sequence without repetition has none.
LEMMA PickedSequence ==
  ASSUME NEW S, NEW s \in Seq(S), IsInjective(s), NEW P \in SUBSET DOMAIN s
  PROVE  /\ Picked(s, P) \in Seq(S) /\ Len(Picked(s, P)) = Cardinality(P)
         /\ IsInjective(Picked(s, P)) /\ ToSet(Picked(s, P)) \subseteq {s[n] : n \in P}
         /\ IsFiniteSet(P) /\ Cardinality(P) \in Nat
<1>1. /\ DOMAIN s = 1..Len(s) /\ Len(s) \in Nat
      /\ \A m, n \in DOMAIN s : s[m] = s[n] => m = n
      /\ \A n \in DOMAIN s : s[n] \in S
  BY DEF IsInjective
<1>2. IsFiniteSet(P) /\ P \in SUBSET Nat
  <2>1. IsFiniteSet(1..Len(s)) /\ 1..Len(s) \subseteq Nat
    BY <1>1, FS_Interval
  <2> QED BY <1>1, <2>1, FS_Subset
<1>3. PICK q \in [1..Cardinality(P) -> P] :
          /\ DOMAIN Picked(s, P) = 1..Cardinality(P)
          /\ Picked(s, P) = [r \in DOMAIN Picked(s, P) |-> Picked(s, P)[r]]
          /\ \A r \in 1..Cardinality(P) : Picked(s, P)[r] = s[q[r]]
          /\ \A r, t \in 1..Cardinality(P) : q[r] = q[t] => r = t
          /\ \A n \in P : \E r \in 1..Cardinality(P) : q[r] = n
          /\ Cardinality(P) \in Nat
  BY ONLY <1>2, PickedIs, SMTT(30)
<1>4. PICK N \in Nat : N = Cardinality(P)
  BY <1>3
<1>5. PICK w : w = Picked(s, P)
  OBVIOUS
<1>6. /\ q \in [1..N -> P] /\ DOMAIN w = 1..N /\ w = [r \in DOMAIN w |-> w[r]]
      /\ \A r \in 1..N : w[r] = s[q[r]]
      /\ \A r, t \in 1..N : q[r] = q[t] => r = t
  BY <1>3, <1>4, <1>5, Zenon
<1>7. \A r \in 1..N : q[r] \in P /\ q[r] \in DOMAIN s
  BY <1>6
<1>8. DOMAIN w = 1..N /\ w \in [1..N -> S]
  BY ONLY <1>1, <1>6, <1>7
<1>9. w \in Seq(S) /\ Len(w) = N
  BY ONLY <1>4, <1>8
<1>10. IsInjective(w)
  <2> SUFFICES ASSUME NEW r \in 1..N, NEW t \in 1..N, w[r] = w[t] PROVE r = t
    BY <1>8 DEF IsInjective
  <2> QED BY ONLY <1>1, <1>6, <1>7, w[r] = w[t], r \in 1..N, t \in 1..N
<1>11. ToSet(w) \subseteq {s[n] : n \in P}
  BY ONLY <1>6, <1>7, <1>8 DEF ToSet
<1> QED BY <1>2, <1>3, <1>4, <1>5, <1>9, <1>10, <1>11, Zenon

\* The first positions of a set of them.
Firsts(positions, most) == {n \in positions : Cardinality({m \in positions : m < n}) < most}

\* Of the hits that are wanted the loop keeps the first ones, each once.
LEMMA CollectIs ==
  ASSUME NEW hits \in Seq(Chunks), IsInjective(hits), NEW K, NEW most \in Nat,
         NEW wanted, wanted \subseteq DOMAIN hits, \A n \in wanted : hits[n] \in K,
         NEW kept, kept = Firsts(wanted, most)
  PROVE  /\ IsInjective(Picked(hits, kept)) /\ ToSet(Picked(hits, kept)) \subseteq K
         /\ Cardinality(wanted) \in Nat
         /\ Cardinality(ToSet(Picked(hits, kept))) = Smaller(most, Cardinality(wanted))
<1>1. /\ DOMAIN hits = 1..Len(hits) /\ Len(hits) \in Nat
      /\ \A m, n \in DOMAIN hits : hits[m] = hits[n] => m = n
      /\ \A n \in DOMAIN hits : hits[n] \in Chunks
  BY DEF IsInjective
<1> USE DEF Firsts
<1>2. /\ IsFiniteSet(wanted) /\ IsFiniteSet(kept)
      /\ Cardinality(wanted) \in Nat /\ Cardinality(kept) \in Nat
      /\ wanted \in SUBSET Nat /\ kept \in SUBSET Nat
  <2>1. IsFiniteSet(1..Len(hits))
    BY <1>1, FS_Interval
  <2>2. wanted \in SUBSET (1..Len(hits)) /\ kept \in SUBSET (1..Len(hits))
    BY <1>1
  <2>3. IsFiniteSet(wanted) /\ IsFiniteSet(kept)
    BY <2>1, <2>2, FS_Subset
  <2>4. 1..Len(hits) \subseteq Nat
    BY <1>1
  <2> QED BY <2>2, <2>3, <2>4, FS_CardinalityType
<1> DEFINE at(n) == Rank(wanted, Positions(wanted), n)
           size == Smaller(most, Cardinality(wanted))
           g == [n \in kept |-> at(n)]
<1>3. /\ \A n \in wanted : at(n) \in 1..Cardinality(wanted)
      /\ \A n \in wanted : at(n) = 1 + Cardinality({m \in wanted : m < n})
      /\ \A m, n \in wanted : at(m) = at(n) => m = n
      /\ \A r \in 1..Cardinality(wanted) : \E n \in wanted : at(n) = r
  <2>1. /\ \A n \in wanted : /\ at(n) \in 1..Cardinality(wanted)
                              /\ at(n) = Cardinality({m \in wanted : m <= n})
                              /\ at(n) = 1 + Cardinality({m \in wanted : m < n})
        /\ \A m, n \in wanted : at(m) = at(n) => m = n
        /\ \A r \in 1..Cardinality(wanted) : \E n \in wanted : at(n) = r
    BY ONLY <1>2, PositionRanks
  <2> HIDE DEF at
  <2> QED BY ONLY <2>1, Zenon
<1>4. \A n \in wanted : Cardinality({m \in wanted : m < n}) \in Nat
  BY <1>2, FS_Subset, FS_CardinalityType
<1>5. \A n \in wanted : n \in kept <=> at(n) <= most
  <2> SUFFICES ASSUME NEW n \in wanted PROVE n \in kept <=> at(n) <= most
    OBVIOUS
  <2>1. at(n) = 1 + Cardinality({m \in wanted : m < n}) /\ Cardinality({m \in wanted : m < n}) \in Nat
    BY <1>3, <1>4
  <2>2. n \in kept <=> Cardinality({m \in wanted : m < n}) < most
    OBVIOUS
  <2> QED BY ONLY <2>1, <2>2, most \in Nat
<1>6. kept \subseteq wanted
  OBVIOUS
<1> HIDE DEF at
<1>7. size \in Nat /\ (size = most \/ size = Cardinality(wanted))
      /\ size <= most /\ size <= Cardinality(wanted)
  BY <1>2 DEF Smaller
<1>8. \A n \in kept : at(n) \in 1..size
  <2> SUFFICES ASSUME NEW n \in kept PROVE at(n) \in 1..size
    OBVIOUS
  <2>1. at(n) \in 1..Cardinality(wanted) /\ at(n) <= most
    BY <1>3, <1>5, <1>6
  <2> QED BY <1>2, <2>1 DEF Smaller
<1>9. \A r \in 1..size : \E n \in kept : at(n) = r
  <2> SUFFICES ASSUME NEW r \in 1..size PROVE \E n \in kept : at(n) = r
    OBVIOUS
  <2>1. r \in 1..Cardinality(wanted) /\ r <= most
    BY <1>2, <1>7
  <2> QED BY <1>3, <1>5, <2>1
<1>10. g \in Bijection(kept, 1..size)
  <2>1. g \in [kept -> 1..size]
    BY <1>8
  <2>2. \A a, b \in kept : g[a] = g[b] => a = b
    BY <1>3, <1>6
  <2>3. \A r \in 1..size : \E n \in kept : g[n] = r
    BY <1>9
  <2> HIDE DEF g, size
  <2> QED BY <2>1, <2>2, <2>3 DEF Bijection, Injection, Surjection, IsInjective
<1>11. Cardinality(kept) = size
  <2>1. Cardinality(1..size) = Cardinality(kept)
    BY <1>2, <1>10, FS_Bijection DEF ExistsBijection
  <2>2. Cardinality(1..size) = size
    BY <1>7, FS_Interval
  <2> QED BY <2>1, <2>2
<1> HIDE DEF size
<1>12. /\ Picked(hits, kept) \in Seq(Chunks) /\ Len(Picked(hits, kept)) = Cardinality(kept)
       /\ IsInjective(Picked(hits, kept))
       /\ ToSet(Picked(hits, kept)) \subseteq {hits[n] : n \in kept}
  <2>1. kept \in SUBSET DOMAIN hits
    OBVIOUS
  <2> QED BY <2>1, PickedSequence, Zenon
<1>13. ToSet(Picked(hits, kept)) \subseteq K
  <2>1. \A n \in kept : hits[n] \in K
    OBVIOUS
  <2> QED BY <1>12, <2>1, Zenon
<1>14. Cardinality(ToSet(Picked(hits, kept))) = Len(Picked(hits, kept))
  BY <1>12, SetOfSequence, Zenon
<1> QED BY <1>2, <1>11, <1>12, <1>13, <1>14, Zenon DEF size

\* All the hits but, at most, the seed are wanted if the corpus has them all.
LEMMA WantedMany ==
  ASSUME NEW hits \in Seq(Chunks), IsInjective(hits), NEW K, ToSet(hits) \subseteq K, NEW x,
         NEW wanted, wanted = {n \in DOMAIN hits : hits[n] \in K \ {x}}
  PROVE  Cardinality(wanted) >= Len(hits) - 1
<1>1. /\ DOMAIN hits = 1..Len(hits) /\ Len(hits) \in Nat
      /\ \A m, n \in DOMAIN hits : hits[m] = hits[n] => m = n
      /\ \A n \in DOMAIN hits : hits[n] \in K
  BY DEF IsInjective, ToSet
<1>2. IsFiniteSet(1..Len(hits)) /\ Cardinality(1..Len(hits)) = Len(hits)
  BY <1>1, FS_Interval
<1>3. CASE \E n \in DOMAIN hits : hits[n] = x
  <2>1. PICK n \in DOMAIN hits : hits[n] = x
    BY <1>3
  <2>2. wanted = (1..Len(hits)) \ {n}
    BY <1>1, <2>1
  <2>3. Cardinality((1..Len(hits)) \ {n}) = Len(hits) - 1
    <3>1. n \in 1..Len(hits)
      BY <1>1, <2>1
    <3>2. Cardinality((1..Len(hits)) \ {n}) =
              IF n \in 1..Len(hits) THEN Cardinality(1..Len(hits)) - 1
              ELSE Cardinality(1..Len(hits))
      BY <1>2, FS_RemoveElement, Zenon
    <3> QED BY ONLY <1>2, <3>1, <3>2
  <2>4. Cardinality(wanted) = Len(hits) - 1
    BY <2>2, <2>3, Zenon
  <2> QED BY ONLY <1>1, <2>4
<1>4. CASE ~ \E n \in DOMAIN hits : hits[n] = x
  <2>1. wanted = 1..Len(hits)
    BY <1>1, <1>4
  <2>2. Cardinality(wanted) = Len(hits)
    BY <1>2, <2>1, Zenon
  <2> QED BY ONLY <1>1, <2>2
<1> QED BY <1>3, <1>4

-----------------------------------------------------------------------------
(* What is so of the indexes at every moment.                              *)

Listings == {s \in Seq(Chunks) : IsInjective(s)}
Stored == {set \in SUBSET Chunks : IsFiniteSet(set)}
IndexesOK ==
    /\ handles \in 0..MaxHandles /\ live \in [IndexName -> 0..MaxHandles]
    /\ table \in [Handle -> Listings] /\ vectors \in [Handle -> Stored]
    /\ updates \in Nat

\* A map yields its chunks in some order, each once.
LEMMA OrdersOf ==
  ASSUME NEW C \in Stored, NEW s \in Orders(C)
  PROVE  s \in Listings /\ ToSet(s) \subseteq C /\ Len(s) = Cardinality(C)
<1>1. Cardinality(C) \in Nat
  BY FS_CardinalityType DEF Stored
<1>2. s \in [1..Cardinality(C) -> C] /\ IsInjective(s) /\ C \subseteq Chunks
  BY DEF Orders, Stored
<1>3. s \in Seq(C) /\ s \in Seq(Chunks) /\ Len(s) = Cardinality(C)
  BY <1>1, <1>2
<1> QED BY <1>2, <1>3, SetOfSequence DEF Listings

\* What a listing lists is a finite set of chunks.
LEMMA ListingStored ==
  ASSUME NEW s \in Listings
  PROVE  ToSet(s) \in Stored /\ Cardinality(ToSet(s)) = Len(s)
BY SetOfSequence DEF Listings, Stored

\* A batch, whole or failed half way, leaves listings of chunks, each once.
LEMMA InsertIndexes ==
  ASSUME IndexesOK, NEW h \in Handle, NEW f \in DOMAIN Files, NEW new \in Files[f],
         Insert(h, new) \/ InsertFails(h, new)
  PROVE  /\ handles' = handles /\ live' = live
         /\ table' \in [Handle -> Listings] /\ vectors' \in [Handle -> Stored]
<1>1. new \in Stored
  BY ApiAssumption DEF Stored, Chunks
<1>2. ChunksOf(h) \in Stored /\ vectors[h] \in Stored
  BY ListingStored DEF IndexesOK, ChunksOf
<1>3. \A A, B \in Stored : A \cup B \in Stored
  BY FS_Union DEF Stored
<1>4. vectors' = [vectors EXCEPT ![h] = @ \cup new] /\ UNCHANGED <<live, handles>>
  BY DEF Insert, InsertFails
<1>5. vectors' \in [Handle -> Stored]
  BY <1>1, <1>2, <1>3, <1>4 DEF IndexesOK
<1>6. table' \in [Handle -> Listings]
  <2>1. CASE table' = table
    BY <2>1 DEF IndexesOK
  <2>2. CASE \E s \in Orders(ChunksOf(h) \cup new) : table' = [table EXCEPT ![h] = s]
    <3>1. PICK s \in Orders(ChunksOf(h) \cup new) : table' = [table EXCEPT ![h] = s]
      BY <2>2
    <3>2. s \in Listings
      BY <1>1, <1>2, <1>3, OrdersOf
    <3> QED BY <3>1, <3>2 DEF IndexesOK
  <2> QED BY <2>1, <2>2 DEF Insert, InsertFails
<1> QED BY <1>4, <1>5, <1>6

\* A removal leaves the other chunks, each once.
LEMMA EraseIndexes ==
  ASSUME IndexesOK, NEW h \in Handle, NEW f, Erase(h, f)
  PROVE  /\ handles' = handles /\ live' = live
         /\ table' \in [Handle -> Listings] /\ vectors' \in [Handle -> Stored]
<1> DEFINE others == {n \in DOMAIN table[h] : table[h][n].file # f}
           left == {c \in vectors[h] : c.file # f}
<1>1. table[h] \in Seq(Chunks) /\ IsInjective(table[h]) /\ vectors[h] \in Stored
  BY DEF IndexesOK, Listings
<1>2. /\ table' = [table EXCEPT ![h] = Picked(table[h], others)]
      /\ vectors' = [vectors EXCEPT ![h] = left]
      /\ UNCHANGED <<live, handles>>
  BY DEF Erase, IndexesOK
<1>3. others \in SUBSET DOMAIN table[h]
  OBVIOUS
<1>4. left \in Stored
  BY <1>1, FS_Subset DEF Stored
<1> HIDE DEF others, left
<1>5. Picked(table[h], others) \in Listings
  BY <1>1, <1>3, PickedSequence DEF Listings
<1> QED BY <1>2, <1>4, <1>5 DEF IndexesOK

\* Whatever others do, the indexes keep their form.
LEMMA ElsewhereIndexes ==
  ASSUME IndexesOK, Elsewhere
  PROVE  IndexesOK' /\ updates' = updates + 1
<1>1. updates' = updates + 1 /\ updates' \in Nat
  BY DEF Elsewhere, IndexesOK
<1>2. PICK i \in IndexName : Change(i) \/ Reboot(i)
  BY DEF Elsewhere
<1>3. live[i] # 0 => live[i] \in Handle
  BY ApiAssumption DEF IndexesOK, Handle
<1>4. CASE Register(i)
  BY <1>1, <1>4, ApiAssumption DEF Register, IndexesOK
<1>5. CASE Unregister(i)
  <2>1. 0 \in 0..MaxHandles
    BY ApiAssumption
  <2> QED BY <1>1, <1>5, <2>1 DEF Unregister, IndexesOK
<1>6. ASSUME NEW f \in DOMAIN Files, live[i] # 0, NEW new \in Files[f],
             Insert(live[i], new) \/ InsertFails(live[i], new)
      PROVE  IndexesOK'
  BY <1>1, <1>3, <1>6, InsertIndexes DEF IndexesOK
<1>7. ASSUME NEW f \in DOMAIN Files, live[i] # 0, Erase(live[i], f) PROVE IndexesOK'
  BY <1>1, <1>3, <1>7, EraseIndexes DEF IndexesOK
<1>8. CASE Reboot(i)
  <2>1. PICK order \in Orders(ChunksOf(live[i])) : live[i] # 0 /\ Reload(live[i], order)
    BY <1>8 DEF Reboot
  <2>2. ChunksOf(live[i]) \in Stored
    BY <1>3, <2>1, ListingStored DEF IndexesOK, ChunksOf
  <2>3. order \in Listings
    BY <2>2, OrdersOf
  <2> QED BY <1>1, <1>3, <2>1, <2>3 DEF Reload, IndexesOK
<1> QED BY <1>1, <1>2, <1>4, <1>5, <1>6, <1>7, <1>8 DEF Change

-----------------------------------------------------------------------------
(* The client that pages.                                                  *)

\* Of a distinct corpus that stayed the same, the pages so far are its beginning.
Pages(p) ==
    p.same /\ Distinct(p.corpus)
    => /\ p.got = FirstOf(p.offset, InOrder(p.corpus))
       /\ p.at = "done" => p.offset >= Cardinality(p.corpus)
PagerOK ==
    \/ pager = Idle
    \/ /\ DOMAIN pager = {"at", "index", "limit", "offset", "got", "corpus", "same"}
       /\ pager.at \in {"reading", "done"} /\ pager.index \in IndexName
       /\ pager.limit \in 1..MaxLimit /\ pager.offset \in Nat /\ pager.corpus \in Stored
       /\ pager.same \in BOOLEAN /\ Pages(pager)

\* The first request finds an index, and has no pages yet.
LEMMA PagerStarts ==
  ASSUME IndexesOK, PagerStart PROVE PagerOK'
<1>1. PICK i \in IndexName, limit \in 1..MaxLimit :
          /\ live[i] # 0
          /\ pager' = [at |-> "reading", index |-> i, limit |-> limit, offset |-> 0, got |-> <<>>,
                       corpus |-> ChunksOf(live[i]), same |-> TRUE]
  BY DEF PagerStart
<1>2. live[i] \in Handle
  BY <1>1, ApiAssumption DEF IndexesOK, Handle
<1> DEFINE C == ChunksOf(live[i])
<1>3. C \in Stored
  BY <1>2, ListingStored DEF IndexesOK, ChunksOf
<1> HIDE DEF C
<1>4. Distinct(C) => FirstOf(0, InOrder(C)) = <<>>
  <2> SUFFICES ASSUME Distinct(C) PROVE FirstOf(0, InOrder(C)) = <<>>
    OBVIOUS
  <2>1. InOrder(C) \in Seq(C) /\ Len(InOrder(C)) \in Nat
    BY <1>3, SortedIs DEF Stored
  <2>2. Smaller(0, Len(InOrder(C))) = 0
    BY <2>1 DEF Smaller
  <2> QED BY <2>1, <2>2 DEF FirstOf
<1>5. /\ DOMAIN pager' = {"at", "index", "limit", "offset", "got", "corpus", "same"}
      /\ pager'.at = "reading" /\ pager'.index = i /\ pager'.limit = limit /\ pager'.offset = 0
      /\ pager'.got = <<>> /\ pager'.corpus = C /\ pager'.same = TRUE
  BY <1>1 DEF C
<1>6. Pages(pager')
  BY <1>4, <1>5 DEF Pages
<1>7. 0 \in Nat
  OBVIOUS
<1> QED BY <1>3, <1>5, <1>6, <1>7 DEF PagerOK

\* A page of an index is the next part of its corpus in order, of at least one chunk
\* unless there is no more.
LEMMA PageIs ==
  ASSUME NEW h \in Handle, table[h] \in Listings, Distinct(ChunksOf(h)), NEW offset \in Nat,
         NEW limit \in Nat, limit # 0
  PROVE  LET chunks == enumerate_chunks(h, offset, limit)
             s == InOrder(ChunksOf(h))
         IN  /\ FirstOf(offset, s) \o chunks = FirstOf(offset + limit, s)
             /\ chunks = <<>> => offset >= Cardinality(ChunksOf(h))
<1> DEFINE s == InOrder(ChunksOf(h))
<1>1. table[h] \in Seq(Chunks) /\ IsInjective(table[h])
  BY DEF Listings
<1>2. Ordered(table[h]) = s
  BY <1>1, OrderedIs DEF ChunksOf
<1>3. Cardinality(ChunksOf(h)) = Len(table[h]) /\ ChunksOf(h) \in Stored
  BY ListingStored DEF ChunksOf
<1>4. s \in Seq(ChunksOf(h)) /\ Len(s) = Len(table[h]) /\ Len(s) \in Nat
  BY <1>3, SortedIs DEF Stored
<1> HIDE DEF s
<1>5. enumerate_chunks(h, offset, limit) =
          IF offset >= Len(s) THEN <<>> ELSE SubSeq(s, offset + 1, Smaller(offset + limit, Len(s)))
  BY <1>2, <1>4 DEF enumerate_chunks
<1>6. FirstOf(offset, s) \o enumerate_chunks(h, offset, limit) = FirstOf(offset + limit, s)
  BY <1>4, <1>5, PageAppends
<1>7. ASSUME offset < Len(s) PROVE enumerate_chunks(h, offset, limit) # <<>>
  <2> DEFINE c == Smaller(offset + limit, Len(s))
  <2>1. c \in Nat /\ offset + 1 <= c /\ c <= Len(s)
    BY <1>4, <1>7 DEF Smaller
  <2> HIDE DEF c
  <2>2. Len(SubSeq(s, offset + 1, c)) = c - offset
    BY <1>4, <2>1
  <2>3. SubSeq(s, offset + 1, c) # <<>>
    BY <2>1, <2>2
  <2>4. ~(offset >= Len(s))
    BY <1>4, <1>7
  <2> QED BY <1>5, <2>3, <2>4 DEF c
<1>8. enumerate_chunks(h, offset, limit) = <<>> => offset >= Cardinality(ChunksOf(h))
  BY <1>3, <1>4, <1>7
<1> QED BY <1>6, <1>8 DEF s

\* A page of a distinct corpus that is the same continues its one order where the last ended.
LEMMA PagerReads ==
  ASSUME IndexesOK, PagerOK, PagerRead PROVE PagerOK'
<1> DEFINE h == live[pager.index]
           clamped == Smaller(pager.limit, MAX_CHUNKS_LIMIT)
           page == enumerate_chunks(h, pager.offset, clamped)
<1>1. /\ DOMAIN pager = {"at", "index", "limit", "offset", "got", "corpus", "same"}
      /\ pager.at = "reading" /\ pager.index \in IndexName
      /\ pager.limit \in 1..MaxLimit /\ pager.offset \in Nat /\ pager.corpus \in Stored
      /\ pager.same \in BOOLEAN /\ Pages(pager) /\ h # 0
  BY DEF PagerOK, PagerRead, Idle
<1>2. h \in Handle
  BY <1>1, ApiAssumption DEF IndexesOK, Handle
<1>3. clamped \in Nat /\ clamped # 0
  BY <1>1, ApiAssumption DEF Smaller
<1>4. pager' = [pager EXCEPT !.at = IF page = <<>> THEN "done" ELSE @,
                             !.offset = @ + clamped, !.got = @ \o page,
                             !.same = @ /\ ChunksOf(h) = pager.corpus]
  BY DEF PagerRead, get_index_chunks
<1> HIDE DEF page, clamped, h
<1>5. /\ DOMAIN pager' = {"at", "index", "limit", "offset", "got", "corpus", "same"}
      /\ pager'.at = (IF page = <<>> THEN "done" ELSE "reading") /\ pager'.index = pager.index
      /\ pager'.limit = pager.limit /\ pager'.offset = pager.offset + clamped
      /\ pager'.got = pager.got \o page /\ pager'.corpus = pager.corpus
      /\ pager'.same = (pager.same /\ ChunksOf(h) = pager.corpus)
  BY <1>1, <1>4
<1>6. Pages(pager')
  <2> SUFFICES ASSUME pager'.same, Distinct(pager'.corpus)
               PROVE  /\ pager'.got = FirstOf(pager'.offset, InOrder(pager'.corpus))
                      /\ pager'.at = "done" => pager'.offset >= Cardinality(pager'.corpus)
    BY DEF Pages
  <2>1. pager.same /\ ChunksOf(h) = pager.corpus /\ Distinct(pager.corpus)
    BY <1>5
  <2>2. pager.got = FirstOf(pager.offset, InOrder(pager.corpus))
    BY <1>1, <2>1 DEF Pages
  <2>3. table[h] \in Listings
    BY <1>2 DEF IndexesOK
  <2>4. /\ FirstOf(pager.offset, InOrder(pager.corpus)) \o page
               = FirstOf(pager.offset + clamped, InOrder(pager.corpus))
        /\ page = <<>> => pager.offset >= Cardinality(pager.corpus)
    BY <1>1, <1>2, <1>3, <2>1, <2>3, PageIs DEF page
  <2>5. Cardinality(pager.corpus) \in Nat
    BY <1>1, FS_CardinalityType DEF Stored
  <2>6. page = <<>> => pager.offset + clamped >= Cardinality(pager.corpus)
    BY <1>1, <1>3, <2>4, <2>5
  <2> QED BY <1>5, <2>2, <2>4, <2>6
<1>7. pager.offset + clamped \in Nat
  BY <1>1, <1>3
<1>8. pager'.same \in BOOLEAN
  BY <1>1, <1>5, Zenon
<1> QED BY <1>1, <1>5, <1>6, <1>7, <1>8 DEF PagerOK

\* The pages of a client that has them all are the corpus in order.
LEMMA PagerGives == PagerOK => PagesExact
<1> SUFFICES ASSUME PagerOK, pager.at = "done", pager.same, Distinct(pager.corpus)
             PROVE  IsInjective(pager.got) /\ ToSet(pager.got) = pager.corpus
  BY DEF PagesExact, Distinct
<1> DEFINE s == InOrder(pager.corpus)
<1>1. /\ pager.offset \in Nat /\ pager.corpus \in Stored /\ pager.got = FirstOf(pager.offset, s)
      /\ pager.offset >= Cardinality(pager.corpus)
  BY DEF PagerOK, Pages, Idle
<1>2. /\ s \in Seq(pager.corpus) /\ Len(s) = Cardinality(pager.corpus) /\ Len(s) \in Nat
      /\ IsInjective(s) /\ ToSet(s) = pager.corpus
  BY <1>1, SortedIs DEF Stored
<1> HIDE DEF s
<1>3. SubSeq(s, 1, Len(s)) = s
  BY <1>2
<1>4. Smaller(pager.offset, Len(s)) = Len(s)
  BY <1>1, <1>2 DEF Smaller
<1> QED BY <1>1, <1>2, <1>3, <1>4 DEF FirstOf

-----------------------------------------------------------------------------
(* The request for similar chunks.                                         *)

\* Once the seed is found it is one chunk, and the index is one; while nobody else was
\* at work the hits are the first ones of a ranking of the vectors as they are.
Following(q) ==
    /\ q.at \in {"embed", "search", "collect"} => q.h \in Handle /\ \E x : q.seed = {x}
    /\ q.at = "collect" =>
           /\ q.hits \in Listings
           /\ q.began = updates =>
                  /\ ToSet(q.hits) \subseteq vectors[q.h]
                  /\ Len(q.hits) = Smaller(q.top_k + 1, Cardinality(vectors[q.h]))
SimilarOK ==
    \/ similar = Idle
    \/ /\ DOMAIN similar = {"at", "index", "suffix", "function", "top_k", "h", "began", "seed",
                            "hits", "corpus", "results", "answer", "why"}
       /\ similar.at \in {"find", "embed", "search", "collect", "done"}
       /\ similar.top_k \in Nat /\ similar.h \in 0..MaxHandles
       /\ similar.began \in Nat /\ similar.began <= updates
       /\ Following(similar) /\ SimilarExact

\* Fields that no step of the request changes.
Asked(p, q) ==
    /\ DOMAIN q = DOMAIN p /\ q.top_k = p.top_k /\ q.h = p.h /\ q.began = p.began

\* A new request remembers the index and the moment it began.
LEMMA SimilarAsks ==
  ASSUME IndexesOK, SimilarAsk PROVE SimilarOK'
<1>1. PICK i \in IndexName, suffix \in Endings, top_k \in 0..MaxTopK,
           function \in {c.function : c \in Chunks} \cup {Nobody} :
           similar' = [at |-> "find", index |-> i, suffix |-> suffix, function |-> function,
                       top_k |-> top_k, h |-> live[i], began |-> updates, seed |-> {},
                       hits |-> <<>>, corpus |-> {}, results |-> <<>>, answer |-> 0, why |-> Nobody]
  BY DEF SimilarAsk
<1>2. /\ similar'.at = "find" /\ similar'.top_k = top_k /\ similar'.h = live[i]
      /\ similar'.began = updates
      /\ DOMAIN similar' = {"at", "index", "suffix", "function", "top_k", "h", "began", "seed",
                            "hits", "corpus", "results", "answer", "why"}
  BY <1>1
<1>3. live[i] \in 0..MaxHandles /\ top_k \in Nat /\ updates \in Nat /\ updates' = updates
  BY ApiAssumption DEF IndexesOK, SimilarAsk
<1>4. Following(similar)'
  BY <1>2 DEF Following
<1>5. SimilarExact'
  BY <1>2 DEF SimilarExact
<1> QED BY <1>2, <1>3, <1>4, <1>5 DEF SimilarOK

\* The request ends without results, or has its seed.
LEMMA SimilarFinds ==
  ASSUME IndexesOK, SimilarOK, SimilarFind \/ GetEmbedding PROVE SimilarOK'
<1>1. /\ similar.at \in {"find", "embed"}
      /\ DOMAIN similar = {"at", "index", "suffix", "function", "top_k", "h", "began", "seed",
                           "hits", "corpus", "results", "answer", "why"}
      /\ similar.top_k \in Nat /\ similar.h \in 0..MaxHandles
      /\ similar.began \in Nat /\ similar.began <= updates /\ Following(similar)
  <2>1. similar.at \in {"find", "embed"}
    BY DEF SimilarFind, GetEmbedding
  <2>2. similar # Idle
    BY <2>1 DEF Idle
  <2> QED BY <2>1, <2>2 DEF SimilarOK
<1>2. UNCHANGED <<indexes, updates>>
  BY DEF SimilarFind, GetEmbedding
<1>3. ASSUME NEW reason, NotFound(reason) PROVE SimilarOK'
  <2>1. Asked(similar, similar') /\ similar'.at = "done" /\ similar'.answer = 404
    BY <1>1, <1>3 DEF NotFound, Asked
  <2>2. Following(similar)' /\ SimilarExact'
    BY <2>1 DEF Following, SimilarExact
  <2> QED BY <1>1, <1>2, <2>1, <2>2 DEF SimilarOK, Asked
<1>4. ASSUME similar.h \in Handle, NEW x, similar'.seed = {x}, Asked(similar, similar'),
             similar'.at \in {"embed", "search"}
      PROVE  SimilarOK'
  <2>1. Following(similar)' /\ SimilarExact'
    BY <1>4 DEF Following, SimilarExact, Asked
  <2> QED BY <1>1, <1>2, <1>4, <2>1 DEF SimilarOK, Asked
<1>5. CASE SimilarFind
  <2>1. CASE NotFound("chunk")
    BY <1>3, <2>1
  <2>2. CASE \E x \in IF similar.h = 0 THEN {}
                      ELSE find_chunk_id(similar.h, similar.suffix, similar.function) :
                 similar' = [similar EXCEPT !.at = "embed", !.seed = {x}]
    <3>1. PICK x : similar' = [similar EXCEPT !.at = "embed", !.seed = {x}] /\ similar.h # 0
      BY <2>2
    <3>2. similar.h \in Handle
      BY <1>1, <3>1, ApiAssumption DEF Handle
    <3>3. similar'.seed = {x} /\ similar'.at = "embed" /\ Asked(similar, similar')
      BY <1>1, <3>1 DEF Asked
    <3> QED BY <1>4, <3>2, <3>3
  <2> QED BY <1>5, <2>1, <2>2 DEF SimilarFind
<1>6. CASE GetEmbedding
  <2>1. ASSUME NEW reason, NotFound(reason) PROVE SimilarOK'
    BY <1>3, <2>1
  <2>2. CASE similar' = [similar EXCEPT !.at = "search"]
    <3>1. PICK x : similar.seed = {x} /\ similar.h \in Handle
      BY <1>1, <1>6 DEF GetEmbedding, Following
    <3>2. similar'.seed = {x} /\ similar'.at = "search" /\ Asked(similar, similar')
      BY <1>1, <2>2, <3>1 DEF Asked
    <3> QED BY <1>4, <3>1, <3>2
  <2> QED BY <1>6, <2>1, <2>2 DEF GetEmbedding
<1> QED BY <1>5, <1>6

\* The first part of a listing.
LEMMA FirstListing ==
  ASSUME NEW s \in Listings, NEW n \in Nat
  PROVE  /\ FirstOf(n, s) \in Listings /\ ToSet(FirstOf(n, s)) \subseteq ToSet(s)
         /\ Len(FirstOf(n, s)) = Smaller(n, Len(s))
<1> DEFINE k == Smaller(n, Len(s))
           first == SubSeq(s, 1, k)
<1>1. s \in Seq(Chunks) /\ Len(s) \in Nat /\ DOMAIN s = 1..Len(s)
      /\ \A i, j \in DOMAIN s : s[i] = s[j] => i = j
  BY DEF Listings, IsInjective
<1>2. k \in Nat /\ k <= Len(s)
  BY <1>1 DEF Smaller
<1> HIDE DEF k
<1>3. /\ first \in Seq(Chunks) /\ Len(first) = k /\ DOMAIN first = 1..k
      /\ \A i \in 1..k : first[i] = s[i] /\ i \in DOMAIN s
  BY <1>1, <1>2
<1> HIDE DEF first
<1>4. IsInjective(first)
  <2> SUFFICES ASSUME NEW i \in 1..k, NEW j \in 1..k, first[i] = first[j] PROVE i = j
    BY <1>3 DEF IsInjective
  <2> QED BY <1>1, <1>3
<1>5. ToSet(first) \subseteq ToSet(s)
  BY <1>3 DEF ToSet
<1> QED BY <1>3, <1>4, <1>5 DEF FirstOf, first, k, Listings

\* The hits are the first ones of a ranking of the vectors.
LEMMA SimilarRanks ==
  ASSUME IndexesOK, SimilarOK, VectorSearch PROVE SimilarOK'
<1>1. /\ similar.at = "search"
      /\ DOMAIN similar = {"at", "index", "suffix", "function", "top_k", "h", "began", "seed",
                           "hits", "corpus", "results", "answer", "why"}
      /\ similar.top_k \in Nat /\ similar.h \in 0..MaxHandles /\ similar.h \in Handle
      /\ similar.began \in Nat /\ similar.began <= updates /\ \E x : similar.seed = {x}
  BY DEF SimilarOK, VectorSearch, Idle, Following
<1>2. UNCHANGED <<indexes, updates>>
  BY DEF VectorSearch
<1>3. PICK ranking \in Orders(vectors[similar.h]) :
          similar' = [similar EXCEPT !.at = "collect",
                                     !.hits = FirstOf(similar.top_k + 1, ranking)]
  BY DEF VectorSearch, Want
<1> DEFINE first == FirstOf(similar.top_k + 1, ranking)
<1>4. vectors[similar.h] \in Stored
  BY <1>1 DEF IndexesOK
<1>5. /\ ranking \in Listings /\ ToSet(ranking) \subseteq vectors[similar.h]
      /\ Len(ranking) = Cardinality(vectors[similar.h])
  BY <1>4, OrdersOf
<1>6. /\ first \in Listings /\ ToSet(first) \subseteq vectors[similar.h]
      /\ Len(first) = Smaller(similar.top_k + 1, Cardinality(vectors[similar.h]))
  <2> DEFINE n == similar.top_k + 1
  <2>1. n \in Nat
    BY <1>1
  <2> HIDE DEF n
  <2>2. /\ FirstOf(n, ranking) \in Listings /\ ToSet(FirstOf(n, ranking)) \subseteq ToSet(ranking)
        /\ Len(FirstOf(n, ranking)) = Smaller(n, Len(ranking))
    BY <1>5, <2>1, FirstListing
  <2>3. first = FirstOf(n, ranking)
    BY DEF n
  <2> QED BY <1>5, <2>2, <2>3, Zenon DEF n
<1> HIDE DEF first
<1>7. /\ Asked(similar, similar') /\ similar'.at = "collect" /\ similar'.seed = similar.seed
      /\ similar'.hits = first
  BY <1>1, <1>3 DEF Asked, first
<1>8. vectors' = vectors /\ updates' = updates
  BY <1>2 DEF indexes
<1>9. Following(similar)'
  BY <1>1, <1>6, <1>7, <1>8 DEF Following, Asked
<1>10. SimilarExact'
  BY <1>7 DEF SimilarExact
<1> QED BY <1>1, <1>7, <1>8, <1>9, <1>10 DEF SimilarOK, Asked

\* What is collected: other chunks of the corpus, each once, no more than asked for, and
\* as many as there are when nobody else was at work.
LEMMA SimilarCollects ==
  ASSUME IndexesOK, SimilarOK, Collect PROVE SimilarOK'
<1> DEFINE hits == similar.hits
           K == ChunksOf(similar.h) \ similar.seed
           wanted == {n \in DOMAIN hits : hits[n] \in K}
           most == IF similar.top_k = 0 THEN 1 ELSE similar.top_k
           kept == {n \in wanted : Cardinality({m \in wanted : m < n}) < most}
           corpus == ChunksOf(similar.h)
<1>1. similar.at = "collect" /\ similar # Idle
  BY DEF Collect, Idle
<1>2. /\ DOMAIN similar = {"at", "index", "suffix", "function", "top_k", "h", "began", "seed",
                           "hits", "corpus", "results", "answer", "why"}
      /\ similar.top_k \in Nat /\ similar.h \in 0..MaxHandles /\ similar.h \in Handle
      /\ similar.began \in Nat /\ similar.began <= updates /\ hits \in Listings
      /\ similar.began = updates =>
             /\ ToSet(hits) \subseteq vectors[similar.h]
             /\ Len(hits) = Smaller(similar.top_k + 1, Cardinality(vectors[similar.h]))
  BY <1>1 DEF SimilarOK, Following
<1>3. PICK x : similar.seed = {x}
  BY <1>1 DEF SimilarOK, Following
<1>4. similar' = [similar EXCEPT !.at = "done", !.answer = 200, !.corpus = corpus,
                                 !.results = Picked(hits, kept)]
  BY DEF Collect
<1>5. UNCHANGED <<indexes, updates>>
  BY DEF Collect
<1>6. corpus \in Stored /\ Cardinality(corpus) \in Nat
  BY <1>2, ListingStored, FS_CardinalityType DEF IndexesOK, ChunksOf, Stored
<1>7. most \in Nat /\ most >= similar.top_k
      /\ most = similar.top_k + (IF similar.top_k = 0 THEN 1 ELSE 0)
  BY <1>2
<1>8. hits \in Seq(Chunks) /\ IsInjective(hits)
  BY <1>2 DEF Listings
<1> DEFINE shown == Picked(hits, kept)
<1>9. /\ IsInjective(shown) /\ ToSet(shown) \subseteq K
      /\ Cardinality(wanted) \in Nat
      /\ Cardinality(ToSet(shown)) = Smaller(most, Cardinality(wanted))
  <2>1. wanted \subseteq DOMAIN hits /\ \A n \in wanted : hits[n] \in K
    OBVIOUS
  <2>4. kept = Firsts(wanted, most)
    BY DEF Firsts
  <2>2. most \in Nat
    BY <1>7
  <2> HIDE DEF wanted, kept, most, K, hits
  <2>3. hits \in Seq(Chunks) /\ IsInjective(hits)
    BY <1>8
  <2> QED BY ONLY <2>1, <2>2, <2>3, <2>4, CollectIs
<1>10. ASSUME similar.began = updates, vectors[similar.h] = corpus
       PROVE  Cardinality(wanted) >= Smaller(similar.top_k, Cardinality(corpus) - 1)
  <2>1. ToSet(hits) \subseteq corpus
        /\ Len(hits) = Smaller(similar.top_k + 1, Cardinality(corpus))
    BY <1>2, <1>10
  <2>2. wanted = {n \in DOMAIN hits : hits[n] \in corpus \ {x}}
    BY <1>3
  <2>3. Cardinality(wanted) >= Len(hits) - 1
    <3> HIDE DEF wanted, hits, corpus
    <3> QED BY <1>8, <2>1, <2>2, WantedMany
  <2>4. Len(hits) - 1 = Smaller(similar.top_k, Cardinality(corpus) - 1)
    BY <1>2, <1>6, <2>1 DEF Smaller
  <2> HIDE DEF wanted
  <2> QED BY <2>3, <2>4
<1> HIDE DEF shown, wanted, kept, most
<1>11. /\ Asked(similar, similar') /\ similar'.at = "done" /\ similar'.answer = 200
       /\ similar'.corpus = corpus /\ similar'.results = shown /\ similar'.seed = similar.seed
  BY <1>2, <1>4 DEF Asked, shown
<1>12. vectors' = vectors /\ updates' = updates
  BY <1>5 DEF indexes
<1>13. Cardinality(ToSet(shown)) <= most
  BY <1>7, <1>9 DEF Smaller
<1>14. similar.began = updates /\ vectors[similar.h] = corpus
       => Cardinality(ToSet(shown)) >= Smaller(similar.top_k, Cardinality(corpus) - 1)
  <2> SUFFICES ASSUME similar.began = updates, vectors[similar.h] = corpus
               PROVE  Cardinality(ToSet(shown)) >= Smaller(similar.top_k, Cardinality(corpus) - 1)
    OBVIOUS
  <2>1. Cardinality(wanted) >= Smaller(similar.top_k, Cardinality(corpus) - 1)
    BY <1>10
  <2> HIDE DEF corpus
  <2> QED BY <1>2, <1>6, <1>7, <1>9, <2>1 DEF Smaller
<1>15. SimilarExact'
  <2>1. /\ IsInjective(similar'.results) /\ ToSet(similar'.results) \subseteq similar'.corpus \ similar'.seed
        /\ Cardinality(ToSet(similar'.results)) <= similar'.top_k + (IF similar'.top_k = 0 THEN 1 ELSE 0)
    BY <1>7, <1>9, <1>11, <1>13 DEF Asked
  <2>2. (similar'.began = updates' /\ vectors'[similar'.h] = similar'.corpus)
        => Cardinality(ToSet(similar'.results)) >= Smaller(similar'.top_k, Cardinality(similar'.corpus) - 1)
    BY <1>11, <1>12, <1>14 DEF Asked
  <2> QED BY <2>1, <2>2 DEF SimilarExact
<1>16. Following(similar)'
  BY <1>11 DEF Following
<1> QED BY <1>2, <1>11, <1>12, <1>15, <1>16 DEF SimilarOK, Asked

\* Whoever else is at work: the request is as it was, with another count of updates.
LEMMA SimilarStays ==
  ASSUME IndexesOK, SimilarOK, similar' = similar,
         UNCHANGED <<indexes, updates>> \/ updates' = updates + 1
  PROVE  SimilarOK'
<1>1. CASE similar = Idle
  BY <1>1 DEF SimilarOK
<1>2. CASE similar # Idle
  <2>1. updates \in Nat /\ similar.began \in Nat /\ similar.began <= updates
        /\ Following(similar) /\ SimilarExact
    BY <1>2 DEF SimilarOK, IndexesOK
  <2>2. updates' \in Nat /\ similar.began <= updates'
    BY <2>1
  <2>3. similar.began = updates' => vectors' = vectors /\ updates' = updates
    BY <2>1 DEF indexes
  <2>4. Following(similar)'
    BY <2>1, <2>3 DEF Following
  <2>5. SimilarExact'
    BY <2>1, <2>3 DEF SimilarExact
  <2> QED BY <1>2, <2>2, <2>4, <2>5 DEF SimilarOK
<1> QED BY <1>1, <1>2

-----------------------------------------------------------------------------
(* The request to the model.                                               *)

\* Who pays: the key of the request, or else that of the daemon.
Payer(c) ==
    c.provider.key = IF c.own # Nobody THEN c.own
                     ELSE IF c.provider.name = "local" THEN Nobody ELSE daemon_key
ChatOK ==
    /\ cell \in {"unset", "local", "openrouter", Nobody}
    /\ \/ chat = Idle
       \/ chat.at = "listed"
       \/ chat.at = "done" /\ chat.answer = 400
       \/ chat.at = "done" /\ chat.answer = 503 /\ chat.own = Nobody /\ daemon_key = Nobody
       \/ /\ DOMAIN chat = {"at", "index", "h", "provider", "own", "context", "reply", "said",
                            "failed", "answer"}
          /\ chat.at \in {"context", "stream", "done"} /\ chat.answer \in {0, 200, 500, 502}
          /\ chat.failed \in BOOLEAN
          /\ Payer(chat) /\ chat.reply = chat.said /\ chat.said \in Nat
          /\ chat.answer = 200 => chat.at = "done" /\ ~chat.failed
          /\ chat.at # "done" => chat.answer = 0

\* A question, however it is answered, and its stream keep what is so of the chat.
LEMMA ChatKeeps == ASSUME ChatOK, ChatNext PROVE ChatOK'
<1>1. daemon_key' = daemon_key
  BY DEF ChatNext, ChatAsk, SearchForContext, ChatEvent, StreamEnds, list_chat_providers, LocalServer
<1>2. chat_provider \in {"local", "openrouter", Nobody}
  BY DEF ChatOK, chat_provider, Nobody
<1>3. cell' \in {"unset", "local", "openrouter", Nobody}
  <2>1. cell' = cell \/ cell' = chat_provider
    <3>1. CASE ChatAsk
      BY <3>1 DEF ChatAsk
    <3>2. CASE SearchForContext \/ ChatEvent \/ StreamEnds
      BY <3>2 DEF SearchForContext, ChatEvent, StreamEnds
    <3>3. CASE list_chat_providers \/ LocalServer
      BY <3>3 DEF list_chat_providers, LocalServer
    <3> QED BY <3>1, <3>2, <3>3 DEF ChatNext
  <2> QED BY <1>2, <2>1 DEF ChatOK
<1>4. CASE ChatAsk
  <2>1. PICK i \in IndexName, message \in BOOLEAN, own \in {Nobody, "own"} :
            IF ~message THEN chat' = [at |-> "done", answer |-> 400] /\ UNCHANGED cell
            ELSE LET p == ResolveProvider(chat_provider, own)
                 IN /\ cell' = chat_provider
                    /\ chat' = IF p.name = Nobody
                               THEN [at |-> "done", answer |-> 503, own |-> own]
                               ELSE [at |-> "context", index |-> i, h |-> live[i], provider |-> p,
                                     own |-> own, context |-> {}, reply |-> 0, said |-> 0,
                                     failed |-> FALSE, answer |-> 0]
    BY <1>4 DEF ChatAsk
  <2> DEFINE p == ResolveProvider(chat_provider, own)
  <2>2. CASE ~message
    <3>1. chat'.at = "done" /\ chat'.answer = 400
      BY <2>1, <2>2
    <3> QED BY <1>3, <3>1 DEF ChatOK
  <2>3. CASE message /\ p.name = Nobody
    <3>1. chat' = [at |-> "done", answer |-> 503, own |-> own]
      BY <2>1, <2>3
    <3>2. own = Nobody /\ daemon_key = Nobody
      BY <1>2, <2>3 DEF ResolveProvider, Provider, Nobody
    <3> QED BY <1>1, <1>3, <3>1, <3>2 DEF ChatOK
  <2>4. CASE message /\ p.name # Nobody
    <3>1. p.key = IF own # Nobody THEN own ELSE IF p.name = "local" THEN Nobody ELSE daemon_key
      BY <1>2, <2>4 DEF ResolveProvider, Provider, Nobody
    <3> HIDE DEF p
    <3>2. chat' = [at |-> "context", index |-> i, h |-> live[i], provider |-> p,
                   own |-> own, context |-> {}, reply |-> 0, said |-> 0,
                   failed |-> FALSE, answer |-> 0]
      BY <2>1, <2>4 DEF p
    <3>3. /\ DOMAIN chat' = {"at", "index", "h", "provider", "own", "context", "reply", "said",
                             "failed", "answer"}
          /\ chat'.at = "context" /\ chat'.provider = p /\ chat'.own = own /\ chat'.reply = 0
          /\ chat'.said = 0 /\ chat'.failed = FALSE /\ chat'.answer = 0
      BY <3>2
    <3>4. Payer(chat)'
      BY <1>1, <3>1, <3>3 DEF Payer
    <3>5. chat'.failed \in BOOLEAN /\ chat'.reply = chat'.said
      BY <3>3, Zenon
    <3>6. /\ chat'.said \in Nat
          /\ chat'.at \in {"context", "stream", "done"} /\ chat'.answer \in {0, 200, 500, 502}
      BY <3>3
    <3>7. /\ chat'.answer = 200 => chat'.at = "done" /\ ~chat'.failed
          /\ chat'.at # "done" => chat'.answer = 0
      BY <3>3
    <3> QED BY <1>3, <3>3, <3>4, <3>5, <3>6, <3>7, Zenon DEF ChatOK
  <2> QED BY <2>2, <2>3, <2>4
<1>5. CASE SearchForContext \/ ChatEvent \/ StreamEnds
  <2>1. chat.at \in {"context", "stream"}
    BY <1>5 DEF SearchForContext, ChatEvent, StreamEnds
  <2>2. /\ DOMAIN chat = {"at", "index", "h", "provider", "own", "context", "reply", "said",
                          "failed", "answer"}
        /\ chat.failed \in BOOLEAN /\ Payer(chat) /\ chat.reply = chat.said /\ chat.said \in Nat
        /\ chat.answer = 0
    BY <2>1 DEF ChatOK, Idle
  <2>3. ASSUME DOMAIN chat' = DOMAIN chat, chat'.provider = chat.provider, chat'.own = chat.own,
               chat'.failed \in BOOLEAN, chat'.reply = chat'.said, chat'.said \in Nat,
               chat'.at \in {"context", "stream", "done"}, chat'.answer \in {0, 200, 500, 502},
               chat'.answer = 200 => chat'.at = "done" /\ ~chat'.failed,
               chat'.at # "done" => chat'.answer = 0
        PROVE  ChatOK'
    <3>1. Payer(chat)'
      BY <1>1, <2>2, <2>3 DEF Payer
    <3> QED BY <1>3, <2>2, <2>3, <3>1 DEF ChatOK
  <2>4. CASE SearchForContext
    <3>1. PICK text : chat' = [chat EXCEPT !.at = "stream", !.context = text]
      BY <2>4 DEF SearchForContext
    <3>2. /\ DOMAIN chat' = DOMAIN chat /\ chat'.provider = chat.provider /\ chat'.own = chat.own
          /\ chat'.failed = chat.failed /\ chat'.reply = chat.reply /\ chat'.said = chat.said
          /\ chat'.at = "stream" /\ chat'.answer = 0
      BY <2>2, <3>1
    <3>3. /\ chat'.failed \in BOOLEAN /\ chat'.reply = chat'.said /\ chat'.said \in Nat
          /\ chat'.at \in {"context", "stream", "done"} /\ chat'.answer \in {0, 200, 500, 502}
      BY <2>2, <3>2
    <3>4. /\ chat'.answer = 200 => chat'.at = "done" /\ ~chat'.failed
          /\ chat'.at # "done" => chat'.answer = 0
      BY <3>2
    <3> QED BY <2>3, <3>2, <3>3, <3>4, Zenon
  <2>5. CASE ChatEvent
    <3>1. CASE chat' = [chat EXCEPT !.said = @ + 1, !.reply = @ + 1]
      <4>1. /\ DOMAIN chat' = DOMAIN chat /\ chat'.provider = chat.provider /\ chat'.own = chat.own
            /\ chat'.failed = chat.failed /\ chat'.reply = chat.reply + 1
            /\ chat'.said = chat.said + 1 /\ chat'.at = "stream" /\ chat'.answer = 0
        BY <2>2, <2>5, <3>1 DEF ChatEvent
      <4>2. /\ chat'.failed \in BOOLEAN /\ chat'.reply = chat'.said /\ chat'.said \in Nat
            /\ chat'.at \in {"context", "stream", "done"} /\ chat'.answer \in {0, 200, 500, 502}
        BY <2>2, <4>1
      <4>3. /\ chat'.answer = 200 => chat'.at = "done" /\ ~chat'.failed
            /\ chat'.at # "done" => chat'.answer = 0
        BY <4>1
      <4> QED BY <2>3, <4>1, <4>2, <4>3, Zenon
    <3>2. CASE chat' = [chat EXCEPT !.failed = TRUE]
      <4>1. /\ DOMAIN chat' = DOMAIN chat /\ chat'.provider = chat.provider /\ chat'.own = chat.own
            /\ chat'.failed = TRUE /\ chat'.reply = chat.reply
            /\ chat'.said = chat.said /\ chat'.at = "stream" /\ chat'.answer = 0
        BY <2>2, <2>5, <3>2 DEF ChatEvent
      <4>2. /\ chat'.failed \in BOOLEAN /\ chat'.reply = chat'.said /\ chat'.said \in Nat
            /\ chat'.at \in {"context", "stream", "done"} /\ chat'.answer \in {0, 200, 500, 502}
        BY <2>2, <4>1
      <4>3. /\ chat'.answer = 200 => chat'.at = "done" /\ ~chat'.failed
            /\ chat'.at # "done" => chat'.answer = 0
        BY <4>1
      <4> QED BY <2>3, <4>1, <4>2, <4>3, Zenon
    <3> QED BY <2>5, <3>1, <3>2 DEF ChatEvent
  <2>6. CASE StreamEnds
    <3>1. PICK result \in {"ok", "failed", "panicked"} :
              chat' = [chat EXCEPT !.at = "done",
                                   !.answer = IF result = "panicked" THEN 500
                                              ELSE IF result = "failed" \/ chat.failed THEN 502
                                              ELSE 200]
      BY <2>6 DEF StreamEnds
    <3> DEFINE status == IF result = "panicked" THEN 500
                         ELSE IF result = "failed" \/ chat.failed THEN 502 ELSE 200
    <3>2. status \in {200, 500, 502} /\ (status = 200 => ~chat.failed)
      OBVIOUS
    <3> HIDE DEF status
    <3>3. chat' = [chat EXCEPT !.at = "done", !.answer = status]
      BY <3>1 DEF status
    <3>4. /\ DOMAIN chat' = DOMAIN chat /\ chat'.provider = chat.provider /\ chat'.own = chat.own
          /\ chat'.failed = chat.failed /\ chat'.reply = chat.reply
          /\ chat'.said = chat.said /\ chat'.at = "done" /\ chat'.answer = status
      BY <2>2, <3>3
    <3>5. /\ chat'.failed \in BOOLEAN /\ chat'.reply = chat'.said /\ chat'.said \in Nat
          /\ chat'.at \in {"context", "stream", "done"} /\ chat'.answer \in {0, 200, 500, 502}
      BY <2>2, <3>2, <3>4
    <3>6. /\ chat'.answer = 200 => chat'.at = "done" /\ ~chat'.failed
          /\ chat'.at # "done" => chat'.answer = 0
      BY <3>2, <3>4
    <3> QED BY <2>3, <3>4, <3>5, <3>6, Zenon
  <2> QED BY <1>5, <2>4, <2>5, <2>6
<1>6. CASE list_chat_providers
  <2>1. chat'.at = "listed"
    BY <1>6 DEF list_chat_providers
  <2> QED BY <1>3, <2>1 DEF ChatOK
<1>7. CASE LocalServer
  <2>1. chat' = chat
    BY <1>7 DEF LocalServer
  <2> QED BY <1>1, <1>3, <2>1 DEF ChatOK, Payer
<1> QED BY <1>4, <1>5, <1>6, <1>7 DEF ChatNext

\* What is so of the chat is what a client may rely on.
LEMMA ChatGives == ChatOK => ChatHonest
BY DEF ChatOK, ChatHonest, Payer, Idle

-----------------------------------------------------------------------------
(* All clients beside each other.                                          *)

ApiInv == IndexesOK /\ PagerOK /\ SimilarOK /\ ChatOK

\* Nothing is registered and nobody asks at first.
LEMMA ApiStarts == ApiInit => ApiInv
<1> SUFFICES ASSUME ApiInit PROVE ApiInv
  OBVIOUS
<1>1. <<>> \in Listings /\ {} \in Stored
  BY FS_EmptySet DEF Listings, Stored, IsInjective
<1>2. IndexesOK
  BY <1>1, ApiAssumption DEF ApiInit, IndexesOK
<1> QED BY <1>2 DEF ApiInit, ApiInv, PagerOK, SimilarOK, ChatOK

\* Every step of every client, and of the indexes, keeps what is so of all.
LEMMA ApiKeeps == ApiInv /\ [ApiNext]_apivars => ApiInv'
<1> SUFFICES ASSUME ApiInv, [ApiNext]_apivars PROVE ApiInv'
  OBVIOUS
<1> USE DEF ApiInv
<1>1. CASE Elsewhere
  <2>1. IndexesOK' /\ updates' = updates + 1 /\ pager' = pager /\ similar' = similar
    BY <1>1, ElsewhereIndexes DEF Elsewhere
  <2>2. PagerOK'
    BY <2>1 DEF PagerOK, Pages
  <2>3. SimilarOK'
    BY <2>1, SimilarStays
  <2>4. chat' = chat /\ daemon_key' = daemon_key
        /\ cell' \in {"unset", "local", "openrouter", Nobody}
    BY <1>1 DEF Elsewhere, Reboot, chatting, ChatOK
  <2>5. ChatOK'
    BY <2>4 DEF ChatOK, Payer
  <2> QED BY <2>1, <2>2, <2>3, <2>5
<1>2. ASSUME UNCHANGED <<indexes, updates>> PROVE IndexesOK'
  BY <1>2 DEF IndexesOK, indexes
<1>3. ASSUME UNCHANGED chatting PROVE ChatOK'
  BY <1>3 DEF ChatOK, Payer, chatting
<1>4. ASSUME UNCHANGED pager PROVE PagerOK'
  BY <1>4 DEF PagerOK, Pages
<1>5. CASE PagerStart \/ PagerRead \/ PagerNotFound
  <2>1. UNCHANGED <<indexes, updates>> /\ similar' = similar /\ UNCHANGED chatting
    BY <1>5 DEF PagerStart, PagerRead, PagerNotFound
  <2>2. PagerOK'
    BY <1>5, PagerStarts, PagerReads DEF PagerOK, PagerNotFound
  <2> QED BY <1>2, <1>3, <2>1, <2>2, SimilarStays
<1>6. CASE SimilarNext
  <2>1. UNCHANGED <<indexes, updates>> /\ UNCHANGED pager /\ UNCHANGED chatting
    BY <1>6 DEF SimilarNext, SimilarAsk, SimilarFind, GetEmbedding, VectorSearch, Collect
  <2>2. SimilarOK'
    BY <1>6, SimilarAsks, SimilarFinds, SimilarRanks, SimilarCollects DEF SimilarNext
  <2> QED BY <1>2, <1>3, <1>4, <2>1, <2>2
<1>7. CASE ChatNext
  <2>1. UNCHANGED <<indexes, updates>> /\ UNCHANGED pager /\ similar' = similar
    BY <1>7 DEF ChatNext, ChatAsk, SearchForContext, ChatEvent, StreamEnds, list_chat_providers,
                LocalServer
  <2> QED BY <1>2, <1>4, <1>7, <2>1, SimilarStays, ChatKeeps
<1>8. CASE UNCHANGED apivars
  <2>1. /\ UNCHANGED <<indexes, updates>> /\ UNCHANGED pager /\ similar' = similar
        /\ UNCHANGED chatting
    BY <1>8 DEF apivars
  <2> QED BY <1>2, <1>3, <1>4, <2>1, SimilarStays
<1> QED BY <1>1, <1>5, <1>6, <1>7, <1>8 DEF ApiNext

\* For any indexes, files, sizes of pages and of the LRU, and any number of changes and
\* restarts: the pages of a corpus that stayed the same have each chunk once, similar
\* chunks are others, each once and as many as there are, and the chat shows no part of an
\* answer as the whole and takes nobody else's key (enumerate_chunks, similar_by_embedding,
\* chat_handler).
THEOREM ReadersAreTold == ApiSpec => []ApiSound
<1>1. ApiInv => ApiSound
  <2>1. SimilarOK => SimilarExact
    BY DEF SimilarOK, SimilarExact, Idle
  <2> QED BY <2>1, PagerGives, ChatGives DEF ApiInv, ApiSound
<1> QED BY <1>1, ApiStarts, ApiKeeps, PTL DEF ApiSpec
-----------------------------------------------------------------------------
(* The search of all indexes.                                              *)

\* A finite set of numbers that is not empty has a least member.
LEMMA LeastMember ==
  ASSUME NEW P \in SUBSET Nat, IsFiniteSet(P), P # {}
  PROVE  \E n \in P : \A m \in P : n <= m
<1>1. 1 \in 1..Cardinality(P)
  <2>1. Cardinality(P) \in Nat /\ Cardinality(P) # 0
    BY FS_CardinalityType, FS_EmptySet
  <2> QED BY <2>1
<1>2. PICK n \in P : Rank(P, Positions(P), n) = 1
  BY <1>1, PositionRanks
<1>3. 1 + Cardinality({m \in P : m < n}) = 1 /\ Cardinality({m \in P : m < n}) \in Nat
  <2>1. IsFiniteSet({m \in P : m < n})
    BY FS_Subset
  <2>2. Cardinality({m \in P : m < n}) \in Nat
    BY <2>1, FS_CardinalityType
  <2>3. \A k \in P : Rank(P, Positions(P), k) = 1 + Cardinality({m \in P : m < k})
    BY PositionRanks, Zenon
  <2> QED BY <1>2, <2>2, <2>3
<1>4. {m \in P : m < n} = {}
  <2>1. IsFiniteSet({m \in P : m < n}) /\ Cardinality({m \in P : m < n}) = 0
    BY <1>3, FS_Subset
  <2> QED BY <2>1, FS_EmptySet
<1> QED BY <1>4

\* By a strict total order a finite set is arranged in a sequence, each member once.
LEMMA ArrangedIs ==
  ASSUME NEW S, IsFiniteSet(S), NEW R,
         \A x, y \in S : <<x, y>> \in R => <<y, x>> \notin R,
         \A x, y, z \in S : <<x, y>> \in R /\ <<y, z>> \in R => <<x, z>> \in R,
         \A x, y \in S : x = y \/ <<x, y>> \in R \/ <<y, x>> \in R
  PROVE  /\ Arranged(S, R) \in Seq(S) /\ Len(Arranged(S, R)) = Cardinality(S)
         /\ ToSet(Arranged(S, R)) = S /\ IsInjective(Arranged(S, R))
         /\ \A p, r \in DOMAIN Arranged(S, R) :
                p < r => <<Arranged(S, R)[p], Arranged(S, R)[r]>> \in R
<1> DEFINE n == Cardinality(S)
           s == Arranged(S, R)
<1>0. n \in Nat
  BY FS_CardinalityType
<1>1. /\ \A x \in S : Rank(S, R, x) \in 1..n
      /\ \A x, y \in S : Rank(S, R, x) = Rank(S, R, y) => x = y
      /\ \A r \in 1..n : \E x \in S : Rank(S, R, x) = r
      /\ \A x, y \in S : <<x, y>> \in R <=> Rank(S, R, x) < Rank(S, R, y)
  BY RankBijection
<1>2. s = [r \in 1..n |-> CHOOSE x \in S : Rank(S, R, x) = r]
  BY DEF Arranged, Rank, Beneath
<1> HIDE DEF n, s
<1>3. \A r \in 1..n : s[r] \in S /\ Rank(S, R, s[r]) = r
  BY <1>1, <1>2
<1>4. s \in [1..n -> S] /\ DOMAIN s = 1..n
  BY <1>2, <1>3
<1>5. s \in Seq(S) /\ Len(s) = n
  BY <1>0, <1>4
<1>6. ASSUME NEW x \in S PROVE x \in ToSet(s)
  <2>1. s[Rank(S, R, x)] = x
    BY <1>1, <1>3
  <2> QED BY <1>1, <1>4, <2>1 DEF ToSet
<1>7. ToSet(s) = S
  BY <1>3, <1>4, <1>6 DEF ToSet
<1>8. IsInjective(s)
  BY <1>3, <1>4 DEF IsInjective
<1>9. \A p, r \in DOMAIN s : p < r => <<s[p], s[r]>> \in R
  BY <1>1, <1>3, <1>4
<1> QED BY <1>5, <1>7, <1>8, <1>9 DEF n, s

\* What is taken is the beginning.
LEMMA TakeIs ==
  ASSUME NEW T, NEW s \in Seq(T), NEW n \in Nat
  PROVE  /\ Take(n, s) \in Seq(T) /\ Len(Take(n, s)) = IF n < Len(s) THEN n ELSE Len(s)
         /\ DOMAIN Take(n, s) = 1..Len(Take(n, s)) /\ DOMAIN Take(n, s) \subseteq DOMAIN s
         /\ \A p \in DOMAIN Take(n, s) : Take(n, s)[p] = s[p]
         /\ ToSet(Take(n, s)) \subseteq ToSet(s)
         /\ IsInjective(s) => IsInjective(Take(n, s))
         /\ \A x, y : Ahead(Take(n, s), x, y) => Ahead(s, x, y)
<1> DEFINE k == IF n < Len(s) THEN n ELSE Len(s)
           t == Take(n, s)
<1>1. k \in Nat /\ k <= Len(s) /\ t = SubSeq(s, 1, k) /\ DOMAIN s = 1..Len(s)
  BY DEF Take
<1> HIDE DEF k, t
<1>2. t \in Seq(T) /\ Len(t) = k /\ DOMAIN t = 1..k /\ \A p \in 1..k : t[p] = s[p]
  BY <1>1
<1>3. DOMAIN t \subseteq DOMAIN s
  BY <1>1, <1>2
<1>4. ToSet(t) \subseteq ToSet(s)
  BY <1>2, <1>3 DEF ToSet
<1>5. IsInjective(s) => IsInjective(t)
  BY <1>2, <1>3 DEF IsInjective
<1>6. \A x, y : Ahead(t, x, y) => Ahead(s, x, y)
  BY <1>2, <1>3 DEF Ahead
<1>7. k = IF n < Len(s) THEN n ELSE Len(s)
  BY DEF k
<1> QED BY <1>2, <1>3, <1>4, <1>5, <1>6, <1>7 DEF t

\* The rank of an id in a list without repetition is its place.
LEMMA RankOfIs ==
  ASSUME NEW T, NEW s \in Seq(T), IsInjective(s)
  PROVE  /\ \A p \in DOMAIN s : RankOf(s, s[p]) = p
         /\ \A x : x \notin ToSet(s) => RankOf(s, x) = 0
         /\ \A x \in ToSet(s) : RankOf(s, x) \in DOMAIN s /\ s[RankOf(s, x)] = x
<1>1. ASSUME NEW p \in DOMAIN s PROVE RankOf(s, s[p]) = p
  <2>1. DOMAIN s = 1..Len(s)
    OBVIOUS
  <2>2. {i \in 1..Len(s) : s[i] = s[p]} = {p}
    BY <2>1 DEF IsInjective
  <2>3. Min({p}) = p
    BY <2>1 DEF Min
  <2> QED BY <2>2, <2>3 DEF RankOf, SelectInSeq
<1>2. ASSUME NEW x, x \notin ToSet(s) PROVE RankOf(s, x) = 0
  <2>1. {i \in 1..Len(s) : s[i] = x} = {}
    BY <1>2 DEF ToSet
  <2> QED BY <2>1 DEF RankOf, SelectInSeq
<1> QED BY <1>1, <1>2 DEF ToSet

\* A lower place scores less, as long as the unit is fine enough.
LEMMA ScoresFall ==
  ASSUME NEW u \in Nat, NEW k \in Nat, NEW a \in 1..k, NEW b \in 1..k, a < b,
         u >= (RRF_K + k) * (RRF_K + k + 1)
  PROVE  u \div (RRF_K + b) < u \div (RRF_K + a) /\ u \div (RRF_K + b) \in Nat \ {0}
<1> DEFINE A == RRF_K + a
           B == RRF_K + b
           K == RRF_K + k
           x == u \div A
           y == u \div B
<1>1. A \in Nat /\ B \in Nat /\ K \in Nat /\ A > 0 /\ B > 0 /\ A + 1 <= B /\ B <= K /\ A <= K
  BY DEF RRF_K
<1>2. u >= K * (K + 1)
  OBVIOUS
<1>3. /\ x = u \div A /\ y = u \div B
  OBVIOUS
<1> HIDE DEF A, B, K, x, y
<1>4. x \in Nat /\ y \in Nat /\ u < A * x + A /\ B * y <= u /\ u < B * y + B
  BY <1>1, <1>3
<1>5. B * A <= u
  <2>1. B * A <= K * K /\ K * K <= K * (K + 1)
    BY ONLY <1>1
  <2>2. B * A \in Nat /\ K * K \in Nat /\ K * (K + 1) \in Nat
    BY ONLY <1>1
  <2> QED BY ONLY <1>2, <2>1, <2>2, u \in Nat
<1>6. A <= y
  BY ONLY <1>1, <1>4, <1>5, u \in Nat
<1>7. y < x
  <2>1. A * y + y <= B * y
    <3>1. (A + 1) * y <= B * y /\ (A + 1) * y = A * y + y
      BY ONLY <1>1, <1>4
    <3> QED BY ONLY <3>1, <1>1, <1>4
  <2>2. A * y + A < A * x + A
    <3>1. A * y \in Nat /\ A * x \in Nat /\ B * y \in Nat
      BY ONLY <1>1, <1>4
    <3> QED BY ONLY <2>1, <3>1, <1>1, <1>4, <1>6, u \in Nat
  <2> QED BY ONLY <2>2, <1>1, <1>4
<1>8. y \in Nat \ {0}
  BY ONLY <1>1, <1>4, <1>6
<1> QED BY <1>7, <1>8 DEF A, B, x, y

\* One step of the fusion, of lists that have no id in common: each list keeps its order,
\* nothing comes twice, and no more is lost than what there is no room for.
LEMMA MergedIs ==
  ASSUME NEW s \in Seq(Nat), NEW t \in Seq(Nat), IsInjective(s), IsInjective(t),
         ToSet(s) \cap ToSet(t) = {},
         NEW most \in Nat, Len(s) <= most, Len(t) <= most,
         10 * RankUnit >= (RRF_K + most) * (RRF_K + most + 1)
  PROVE  LET out == Merged(s, t, most)
         IN  /\ out \in Seq(Nat) /\ IsInjective(out)
             /\ ToSet(out) \subseteq ToSet(s) \cup ToSet(t)
             /\ Len(out) = IF most < Len(s) + Len(t) THEN most ELSE Len(s) + Len(t)
             /\ \A x, y \in ToSet(s) : Ahead(out, x, y) => Ahead(s, x, y)
             /\ \A x, y \in ToSet(t) : Ahead(out, x, y) => Ahead(t, x, y)
<1> DEFINE M == 10 * RankUnit
           U == ToSet(s) \cup ToSet(t)
           Score(x) == LaneScore(s, x, 1) + LaneScore(t, x, 1)
           Rec(x) == [id |-> x, score |-> Score(x)]
           C == {Rec(x) : x \in U}
           R == {ab \in C \X C : Before(ab[1], ab[2])}
           sorted == Arranged(C, R)
           cut == Take(most, sorted)
           out == Merged(s, t, most)
<1>1. /\ M \in Nat /\ DOMAIN s = 1..Len(s) /\ DOMAIN t = 1..Len(t)
      /\ Len(s) \in Nat /\ Len(t) \in Nat
      /\ ToSet(s) \subseteq Nat /\ ToSet(t) \subseteq Nat
  BY FusionAssumption DEF ToSet
<1>2. M >= (RRF_K + most) * (RRF_K + most + 1)
  OBVIOUS
<1> HIDE DEF M
<1>3. \A r \in 1..most : M \div (RRF_K + r) \in Nat
  <2> SUFFICES ASSUME NEW r \in 1..most PROVE M \div (RRF_K + r) \in Nat
    OBVIOUS
  <2>1. M \in Nat /\ RRF_K + r \in Nat /\ RRF_K + r > 0
    BY <1>1 DEF RRF_K
  <2> QED BY ONLY <2>1
<1>4. /\ \A x \in ToSet(s) : RankOf(s, x) \in 1..most /\ s[RankOf(s, x)] = x /\ RankOf(s, x) \in DOMAIN s
      /\ \A x \in ToSet(t) : RankOf(t, x) \in 1..most /\ t[RankOf(t, x)] = x /\ RankOf(t, x) \in DOMAIN t
      /\ \A x : x \notin ToSet(s) => RankOf(s, x) = 0
      /\ \A x : x \notin ToSet(t) => RankOf(t, x) = 0
  <2>1. /\ \A x \in ToSet(s) : RankOf(s, x) \in DOMAIN s /\ s[RankOf(s, x)] = x
        /\ \A x : x \notin ToSet(s) => RankOf(s, x) = 0
    BY RankOfIs
  <2>2. /\ \A x \in ToSet(t) : RankOf(t, x) \in DOMAIN t /\ t[RankOf(t, x)] = x
        /\ \A x : x \notin ToSet(t) => RankOf(t, x) = 0
    BY RankOfIs
  <2> QED BY <1>1, <2>1, <2>2
<1>5. /\ \A x \in ToSet(s) : Score(x) = M \div (RRF_K + RankOf(s, x))
      /\ \A x \in ToSet(t) : Score(x) = M \div (RRF_K + RankOf(t, x))
  <2>1. ASSUME NEW x \in ToSet(s) PROVE Score(x) = M \div (RRF_K + RankOf(s, x))
    <3>1. RankOf(t, x) = 0 /\ RankOf(s, x) \in 1..most
      BY <1>4
    <3>2. LaneScore(t, x, 1) = 0 /\ LaneScore(s, x, 1) = 1 * (M \div (RRF_K + RankOf(s, x)))
      BY <3>1 DEF LaneScore, M
    <3> QED BY <1>3, <3>1, <3>2
  <2>2. ASSUME NEW x \in ToSet(t) PROVE Score(x) = M \div (RRF_K + RankOf(t, x))
    <3>1. RankOf(s, x) = 0 /\ RankOf(t, x) \in 1..most
      BY <1>4
    <3>2. LaneScore(s, x, 1) = 0 /\ LaneScore(t, x, 1) = 1 * (M \div (RRF_K + RankOf(t, x)))
      BY <3>1 DEF LaneScore, M
    <3> QED BY <1>3, <3>1, <3>2
  <2> QED BY <2>1, <2>2
<1> HIDE DEF Score
<1>6. \A x \in U : x \in Nat /\ Score(x) \in Nat
  BY <1>1, <1>3, <1>4, <1>5
<1>7. /\ \A x, y \in ToSet(s) : RankOf(s, x) < RankOf(s, y) => Score(y) < Score(x)
      /\ \A x, y \in ToSet(t) : RankOf(t, x) < RankOf(t, y) => Score(y) < Score(x)
  <2>1. \A a, b \in 1..most : a < b => M \div (RRF_K + b) < M \div (RRF_K + a)
    BY <1>1, <1>2, ScoresFall
  <2> QED BY <1>4, <1>5, <2>1
<1>8. IsFiniteSet(C) /\ Cardinality(C) = Len(s) + Len(t)
  <2>1. /\ IsFiniteSet(ToSet(s)) /\ Cardinality(ToSet(s)) = Len(s)
        /\ IsFiniteSet(ToSet(t)) /\ Cardinality(ToSet(t)) = Len(t)
    BY SetOfSequence
  <2>2. IsFiniteSet(U) /\ Cardinality(U) = Len(s) + Len(t)
    <3>1. Cardinality(ToSet(s) \cap ToSet(t)) = 0
      BY FS_EmptySet
    <3>2. /\ IsFiniteSet(ToSet(s) \cup ToSet(t))
          /\ Cardinality(ToSet(s) \cup ToSet(t)) =
                Cardinality(ToSet(s)) + Cardinality(ToSet(t)) - Cardinality(ToSet(s) \cap ToSet(t))
      BY <2>1, FS_Union
    <3> QED BY <1>1, <2>1, <3>1, <3>2
  <2> DEFINE f == [x \in U |-> Rec(x)]
  <2>3. f \in Bijection(U, C)
    BY DEF Bijection, Injection, Surjection, IsInjective
  <2> QED BY <2>2, <2>3, FS_Bijection DEF ExistsBijection
<1>9. \A a \in C : a.id \in U /\ a.id \in Nat /\ a.score = Score(a.id) /\ a.score \in Nat /\ a = Rec(a.id)
  BY <1>6
<1> HIDE DEF C, U
<1>10. /\ sorted \in Seq(C) /\ Len(sorted) = Len(s) + Len(t)
      /\ ToSet(sorted) = C /\ IsInjective(sorted)
      /\ \A p, r \in DOMAIN sorted : p < r => Before(sorted[p], sorted[r])
  <2>1. \A a, b \in C : <<a, b>> \in R <=> Before(a, b)
    OBVIOUS
  <2> HIDE DEF R, Rec
  <2>0. \A a \in C : a.id \in Nat /\ a.score \in Nat
    BY <1>9
  <2>a. ASSUME NEW a \in C, NEW b \in C, Before(a, b) PROVE ~Before(b, a)
    <3>1. a.id \in Nat /\ a.score \in Nat /\ b.id \in Nat /\ b.score \in Nat
      BY <2>0
    <3> QED BY ONLY <3>1, Before(a, b) DEF Before
  <2>b. ASSUME NEW a \in C, NEW b \in C, NEW c \in C, Before(a, b), Before(b, c) PROVE Before(a, c)
    <3>1. /\ a.id \in Nat /\ a.score \in Nat /\ b.id \in Nat /\ b.score \in Nat
          /\ c.id \in Nat /\ c.score \in Nat
      BY <2>0
    <3> QED BY ONLY <3>1, Before(a, b), Before(b, c) DEF Before
  <2>2. \A a, b \in C : <<a, b>> \in R => <<b, a>> \notin R
    BY ONLY <2>1, <2>a
  <2>3. \A a, b, c \in C : <<a, b>> \in R /\ <<b, c>> \in R => <<a, c>> \in R
    BY ONLY <2>1, <2>b
  <2>4. \A a, b \in C : a = b \/ <<a, b>> \in R \/ <<b, a>> \in R
    <3> SUFFICES ASSUME NEW a \in C, NEW b \in C, a # b PROVE Before(a, b) \/ Before(b, a)
      BY <2>1
    <3>1. a.id # b.id
      BY <1>9
    <3> QED BY <1>9, <3>1 DEF Before
  <2>5. /\ sorted \in Seq(C) /\ Len(sorted) = Cardinality(C)
        /\ ToSet(sorted) = C /\ IsInjective(sorted)
        /\ \A p, r \in DOMAIN sorted : p < r => <<sorted[p], sorted[r]>> \in R
    BY ONLY <1>8, <2>2, <2>3, <2>4, ArrangedIs
  <2>6. \A p \in DOMAIN sorted : sorted[p] \in C
    BY <2>5
  <2> QED BY <1>8, <2>1, <2>5, <2>6
<1>11. out = [r \in DOMAIN cut |-> cut[r].id]
  BY DEF Merged, rrf_fuse, Sorted, C, U, Score
<1> HIDE DEF sorted
<1>12. /\ cut \in Seq(C) /\ IsInjective(cut) /\ DOMAIN cut = 1..Len(cut)
       /\ Len(cut) = IF most < Len(s) + Len(t) THEN most ELSE Len(s) + Len(t)
       /\ \A p, r \in DOMAIN cut : p < r => Before(cut[p], cut[r])
  <2>1. sorted \in Seq(C) /\ IsInjective(sorted)
    BY <1>10
  <2>2. /\ cut \in Seq(C) /\ Len(cut) = IF most < Len(sorted) THEN most ELSE Len(sorted)
        /\ DOMAIN cut = 1..Len(cut) /\ DOMAIN cut \subseteq DOMAIN sorted
        /\ \A p \in DOMAIN cut : cut[p] = sorted[p]
        /\ IsInjective(cut)
    BY ONLY <2>1, TakeIs, most \in Nat
  <2> HIDE DEF cut
  <2> QED BY <1>10, <2>2
<1> HIDE DEF cut, out
<1>13. \A p \in DOMAIN cut : cut[p] \in C
  BY <1>12
<1>14. DOMAIN out = DOMAIN cut /\ \A p \in DOMAIN cut : out[p] = cut[p].id /\ out[p] \in U
  BY <1>9, <1>11, <1>13
<1>15. out \in Seq(Nat) /\ Len(out) = Len(cut)
  <2>1. Len(cut) \in Nat
    BY <1>12
  <2>2. out \in [1..Len(cut) -> Nat]
    <3>1. \A p \in 1..Len(cut) : cut[p].id \in Nat
      BY <1>9, <1>12, <1>13
    <3>2. DOMAIN out = 1..Len(cut) /\ \A p \in 1..Len(cut) : out[p] \in Nat
      BY <1>11, <1>12, <3>1
    <3>3. out = [r \in 1..Len(cut) |-> out[r]]
      BY <1>11, <1>12
    <3> QED BY ONLY <3>2, <3>3
  <2> DEFINE n == Len(cut)
  <2> HIDE DEF n
  <2>3. n \in Nat /\ out \in [1..n -> Nat]
    BY <2>1, <2>2 DEF n
  <2>4. out \in Seq(Nat) /\ Len(out) = n
    BY ONLY <2>3
  <2> QED BY <2>4 DEF n
<1>16. IsInjective(out)
  <2> SUFFICES ASSUME NEW p \in DOMAIN out, NEW r \in DOMAIN out, out[p] = out[r] PROVE p = r
    BY DEF IsInjective
  <2>1. cut[p] = cut[r]
    BY <1>9, <1>13, <1>14
  <2> QED BY <1>12, <1>14, <2>1 DEF IsInjective
<1>17. ToSet(out) \subseteq ToSet(s) \cup ToSet(t)
  BY <1>14 DEF ToSet, U
<1>18. \A x, y : Ahead(out, x, y) => Score(y) <= Score(x) /\ x # y
  <2> SUFFICES ASSUME NEW p \in DOMAIN out, NEW r \in DOMAIN out, p < r
               PROVE  Score(out[r]) <= Score(out[p]) /\ out[p] # out[r]
    BY DEF Ahead
  <2>1. Before(cut[p], cut[r]) /\ cut[p] \in C /\ cut[r] \in C
    BY <1>12, <1>13, <1>14
  <2> QED BY <1>9, <1>14, <2>1 DEF Before
<1>19. \A x, y \in ToSet(s) : Ahead(out, x, y) => Ahead(s, x, y)
  <2> SUFFICES ASSUME NEW x \in ToSet(s), NEW y \in ToSet(s), Ahead(out, x, y) PROVE Ahead(s, x, y)
    OBVIOUS
  <2>1. /\ RankOf(s, x) \in DOMAIN s /\ s[RankOf(s, x)] = x /\ RankOf(s, x) \in 1..most
        /\ RankOf(s, y) \in DOMAIN s /\ s[RankOf(s, y)] = y /\ RankOf(s, y) \in 1..most
    BY <1>4
  <2>2. RankOf(s, x) # RankOf(s, y) /\ Score(y) <= Score(x)
    BY <1>18, <2>1
  <2>3. ~(RankOf(s, y) < RankOf(s, x))
    <3>1. Score(x) \in Nat /\ Score(y) \in Nat
      BY <1>6 DEF U
    <3> QED BY <1>7, <2>2, <3>1
  <2>4. RankOf(s, x) < RankOf(s, y)
    BY ONLY <2>1, <2>2, <2>3
  <2> QED BY <2>1, <2>4 DEF Ahead
<1>20. \A x, y \in ToSet(t) : Ahead(out, x, y) => Ahead(t, x, y)
  <2> SUFFICES ASSUME NEW x \in ToSet(t), NEW y \in ToSet(t), Ahead(out, x, y) PROVE Ahead(t, x, y)
    OBVIOUS
  <2>1. /\ RankOf(t, x) \in DOMAIN t /\ t[RankOf(t, x)] = x /\ RankOf(t, x) \in 1..most
        /\ RankOf(t, y) \in DOMAIN t /\ t[RankOf(t, y)] = y /\ RankOf(t, y) \in 1..most
    BY <1>4
  <2>2. RankOf(t, x) # RankOf(t, y) /\ Score(y) <= Score(x)
    BY <1>18, <2>1
  <2>3. ~(RankOf(t, y) < RankOf(t, x))
    <3>1. Score(x) \in Nat /\ Score(y) \in Nat
      BY <1>6 DEF U
    <3> QED BY <1>7, <2>2, <3>1
  <2>4. RankOf(t, x) < RankOf(t, y)
    BY ONLY <2>1, <2>2, <2>3
  <2> QED BY <2>1, <2>4 DEF Ahead
<1> QED BY <1>12, <1>15, <1>16, <1>17, <1>19, <1>20 DEF out

\* The fusion of the lists begins with nothing and goes on list by list.
LEMMA FusedSteps ==
  ASSUME NEW lists, Len(lists) \in Nat, NEW most
  PROVE  /\ FusedUpTo(lists, most)[0] = <<>>
         /\ \A n \in 1..Len(lists) :
                FusedUpTo(lists, most)[n] = Merged(FusedUpTo(lists, most)[n - 1], lists[n], most)
<1> DEFINE N == Len(lists)
           Step(g, k) == IF k = 0 THEN <<>> ELSE Merged(g[k - 1], lists[k], most)
           Goes(g, n) == g = [k \in 0..n |-> Step(g, k)]
           Bad == {n \in 0..N : ~ \E g : Goes(g, n)}
<1>1. Bad = {}
  <2> SUFFICES ASSUME Bad # {} PROVE FALSE
    OBVIOUS
  <2>1. Bad \in SUBSET Nat /\ IsFiniteSet(Bad)
    <3>1. IsFiniteSet(0..N) /\ Bad \in SUBSET (0..N)
      BY FS_Interval
    <3>2. IsFiniteSet(Bad)
      BY <3>1, FS_Subset, Zenon
    <3> QED BY <3>1, <3>2
  <2>2. PICK n \in Bad : \A m \in Bad : n <= m
    <3> HIDE DEF Bad
    <3> QED BY <2>1, LeastMember
  <2>3. CASE n = 0
    <3> DEFINE g == [k \in 0..0 |-> <<>>]
    <3>1. g = [k \in 0..0 |-> Step(g, k)]
      OBVIOUS
    <3> QED BY <2>3, <3>1, <2>2
  <2>4. CASE n # 0
    <3>1. n - 1 \in 0..N /\ n - 1 \notin Bad /\ n \in 1..N
      <4>1. n \in 0..N /\ N \in Nat
        BY <2>2
      <4>2. n - 1 \in 0..N /\ n \in 1..N /\ ~(n <= n - 1)
        BY <2>4, <4>1
      <4> HIDE DEF Bad
      <4> QED BY <2>2, <4>2
    <3>2. PICK g : Goes(g, n - 1)
      BY <3>1
    <3> DEFINE h == [k \in 0..n |-> IF k = n THEN Merged(g[n - 1], lists[n], most) ELSE g[k]]
    <3>3. \A k \in 0..(n - 1) : g[k] = Step(g, k)
      BY <3>2
    <3>4. ASSUME NEW k \in 0..n PROVE h[k] = Step(h, k)
      <4>1. CASE k = n
        <5>1. h[k - 1] = g[k - 1]
          BY <3>1, <4>1
        <5> QED BY <3>1, <4>1, <5>1
      <4>2. CASE k # n /\ k # 0
        <5>1. h[k] = g[k] /\ h[k - 1] = g[k - 1] /\ g[k] = Step(g, k)
          BY <3>1, <3>3, <4>2
        <5> QED BY <4>2, <5>1
      <4>3. CASE k = 0
        <5>1. h[k] = g[k] /\ g[k] = Step(g, k)
          BY <3>1, <3>3, <4>3
        <5> QED BY <4>3, <5>1
      <4> QED BY <3>1, <4>1, <4>2, <4>3
    <3>5. Goes(h, n)
      <4>1. h = [k \in 0..n |-> h[k]]
        OBVIOUS
      <4> HIDE DEF h
      <4> QED BY <3>4, <4>1
    <3> QED BY <3>5, <2>2
  <2> QED BY <2>3, <2>4
<1>2. \E g : Goes(g, N)
  BY <1>1
<1> DEFINE F == FusedUpTo(lists, most)
<1>3. F = CHOOSE g : Goes(g, N)
  BY DEF FusedUpTo
<1>4. Goes(F, N)
  <2> HIDE DEF F, Goes
  <2> QED BY <1>2, <1>3
<1> HIDE DEF F
<1>5. \A k \in 0..N : F[k] = Step(F, k)
  BY <1>4
<1> QED BY <1>5 DEF F

\* Lists of what several indexes found: no two have an id in common.
Apart(lists, most) ==
    /\ Len(lists) \in Nat /\ DOMAIN lists = 1..Len(lists)
    /\ \A k \in DOMAIN lists : /\ lists[k] \in Seq(Nat) /\ IsInjective(lists[k])
                               /\ Len(lists[k]) <= most
    /\ \A j, k \in DOMAIN lists : j # k => ToSet(lists[j]) \cap ToSet(lists[k]) = {}
FirstIds(lists, n) == UNION {ToSet(lists[k]) : k \in 1..n}

\* What is fused after n lists: ids of these, each once, as many as there is room for, those
\* of one list in its order.
FusedOK(lists, most, n, s) ==
    /\ s \in Seq(Nat) /\ IsInjective(s) /\ ToSet(s) \subseteq FirstIds(lists, n)
    /\ IsFiniteSet(FirstIds(lists, n))
    /\ Len(s) = IF most < Cardinality(FirstIds(lists, n)) THEN most
                ELSE Cardinality(FirstIds(lists, n))
    /\ \A k \in 1..n : \A x, y \in ToSet(lists[k]) : Ahead(s, x, y) => Ahead(lists[k], x, y)

\* One more list is fused: what came out before and the new list come out as one merge of both.
LEMMA FusedGoesOn ==
  ASSUME NEW lists, NEW most \in Nat, Apart(lists, most),
         10 * RankUnit >= (RRF_K + most) * (RRF_K + most + 1),
         NEW n \in 1..Len(lists), NEW s, FusedOK(lists, most, n - 1, s)
  PROVE  FusedOK(lists, most, n, Merged(s, lists[n], most))
<1> DEFINE t == lists[n]
           U == FirstIds(lists, n - 1)
           out == Merged(s, t, most)
<1>0. Len(lists) \in Nat /\ n \in Nat /\ n - 1 \in Nat /\ n \in DOMAIN lists
  BY DEF Apart
<1>1. t \in Seq(Nat) /\ IsInjective(t) /\ Len(t) <= most /\ Len(t) \in Nat
  BY <1>0 DEF Apart
<1>2. U \cap ToSet(t) = {}
  <2> SUFFICES ASSUME NEW k \in 1..(n - 1) PROVE ToSet(lists[k]) \cap ToSet(t) = {}
    BY DEF FirstIds
  <2>1. k \in DOMAIN lists /\ k # n
    BY <1>0 DEF Apart
  <2> QED BY <1>0, <2>1 DEF Apart
<1>3. FirstIds(lists, n) = U \cup ToSet(t)
  <2>1. 1..n = (1..(n - 1)) \cup {n}
    BY <1>0
  <2> QED BY <2>1, Zenon DEF FirstIds
<1> HIDE DEF t, U
<1>4. /\ s \in Seq(Nat) /\ IsInjective(s) /\ ToSet(s) \subseteq U /\ IsFiniteSet(U)
      /\ Len(s) = IF most < Cardinality(U) THEN most ELSE Cardinality(U)
      /\ \A k \in 1..(n - 1) :
             \A x, y \in ToSet(lists[k]) : Ahead(s, x, y) => Ahead(lists[k], x, y)
  BY DEF FusedOK, U
<1>5. Cardinality(U) \in Nat /\ Len(s) \in Nat /\ Len(s) <= most
  BY <1>4, FS_CardinalityType
<1>6. /\ out \in Seq(Nat) /\ IsInjective(out)
      /\ ToSet(out) \subseteq ToSet(s) \cup ToSet(t)
      /\ Len(out) = IF most < Len(s) + Len(t) THEN most ELSE Len(s) + Len(t)
      /\ \A x, y \in ToSet(s) : Ahead(out, x, y) => Ahead(s, x, y)
      /\ \A x, y \in ToSet(t) : Ahead(out, x, y) => Ahead(t, x, y)
  <2>1. ToSet(s) \cap ToSet(t) = {}
    BY <1>2, <1>4
  <2> QED BY <1>1, <1>4, <1>5, <2>1, MergedIs
<1> HIDE DEF out
<1>7. IsFiniteSet(U \cup ToSet(t)) /\ Cardinality(U \cup ToSet(t)) = Cardinality(U) + Len(t)
  <2>1. IsFiniteSet(ToSet(t)) /\ Cardinality(ToSet(t)) = Len(t)
    BY <1>1, SetOfSequence
  <2>2. Cardinality(U \cap ToSet(t)) = 0
    BY <1>2, FS_EmptySet
  <2>3. /\ IsFiniteSet(U \cup ToSet(t))
        /\ Cardinality(U \cup ToSet(t)) =
              Cardinality(U) + Cardinality(ToSet(t)) - Cardinality(U \cap ToSet(t))
    BY <1>4, <2>1, FS_Union
  <2> QED BY <1>1, <1>5, <2>1, <2>2, <2>3
<1>8. Len(out) = IF most < Cardinality(U \cup ToSet(t)) THEN most ELSE Cardinality(U \cup ToSet(t))
  BY <1>1, <1>4, <1>5, <1>6, <1>7
<1>9. ASSUME NEW k \in 1..n, NEW x \in ToSet(lists[k]), NEW y \in ToSet(lists[k]), Ahead(out, x, y)
      PROVE  Ahead(lists[k], x, y)
  <2>1. CASE k = n
    BY <1>6, <1>9, <2>1 DEF t
  <2>2. CASE k # n
    <3>1. k \in 1..(n - 1)
      BY <1>0, <2>2
    <3>2. x \in U /\ y \in U
      BY <3>1 DEF U, FirstIds
    <3>3. x \in ToSet(out) /\ y \in ToSet(out)
      BY <1>9 DEF Ahead, ToSet
    <3>4. x \in ToSet(s) /\ y \in ToSet(s)
      BY <1>2, <1>6, <3>2, <3>3
    <3> QED BY <1>4, <1>6, <1>9, <3>1, <3>4
  <2> QED BY <2>1, <2>2
<1> QED BY <1>3, <1>4, <1>6, <1>7, <1>8, <1>9 DEF FusedOK, out, t

\* However many lists there are.
LEMMA FusedIs ==
  ASSUME NEW lists, NEW most \in Nat, Apart(lists, most),
         10 * RankUnit >= (RRF_K + most) * (RRF_K + most + 1)
  PROVE  FusedOK(lists, most, Len(lists), FusedUpTo(lists, most)[Len(lists)])
<1> DEFINE N == Len(lists)
           F == FusedUpTo(lists, most)
           Bad == {n \in 0..N : ~ FusedOK(lists, most, n, F[n])}
<1>0. N \in Nat
  BY DEF Apart
<1>1. F[0] = <<>> /\ \A n \in 1..N : F[n] = Merged(F[n - 1], lists[n], most)
  BY <1>0, FusedSteps
<1>2. FusedOK(lists, most, 0, F[0])
  <2>1. FirstIds(lists, 0) = {} /\ ToSet(<<>>) = {}
    BY DEF FirstIds, ToSet
  <2>2. IsFiniteSet({}) /\ Cardinality({}) = 0
    BY FS_EmptySet
  <2> DEFINE s == <<>>
  <2>3. s \in Seq(Nat) /\ Len(s) = 0 /\ IsInjective(s) /\ \A x, y : ~Ahead(s, x, y)
    BY DEF IsInjective, Ahead
  <2>4. F[0] = s /\ ToSet(s) = {}
    BY <1>1, <2>1
  <2> HIDE DEF s, F
  <2>5. FusedOK(lists, most, 0, s)
    <3>1. Cardinality(FirstIds(lists, 0)) = 0 /\ IsFiniteSet(FirstIds(lists, 0))
      BY <2>1, <2>2
    <3>2. Len(s) = IF most < Cardinality(FirstIds(lists, 0)) THEN most
                   ELSE Cardinality(FirstIds(lists, 0))
      BY <2>3, <3>1
    <3>3. ToSet(s) \subseteq FirstIds(lists, 0)
      BY <2>4
    <3>4. \A k \in 1..0 : \A x, y \in ToSet(lists[k]) : Ahead(s, x, y) => Ahead(lists[k], x, y)
      BY <2>3
    <3> QED BY ONLY <2>3, <3>1, <3>2, <3>3, <3>4 DEF FusedOK
  <2> QED BY <2>4, <2>5
<1> HIDE DEF F
<1>3. Bad = {}
  <2> SUFFICES ASSUME Bad # {} PROVE FALSE
    OBVIOUS
  <2>1. Bad \in SUBSET Nat /\ IsFiniteSet(Bad)
    <3>1. IsFiniteSet(0..N) /\ Bad \in SUBSET (0..N)
      BY <1>0, FS_Interval
    <3>2. IsFiniteSet(Bad)
      BY <3>1, FS_Subset, Zenon
    <3> QED BY <3>1, <3>2
  <2>2. PICK n \in Bad : \A m \in Bad : n <= m
    <3> HIDE DEF Bad
    <3> QED BY <2>1, LeastMember
  <2>3. n \in 1..N /\ n - 1 \in 0..N /\ n - 1 \notin Bad
    BY <1>0, <1>2, <2>2
  <2>4. FusedOK(lists, most, n - 1, F[n - 1])
    BY <2>3
  <2>5. FusedOK(lists, most, n, Merged(F[n - 1], lists[n], most))
    BY <2>3, <2>4, FusedGoesOn
  <2> QED BY <1>1, <2>2, <2>3, <2>5
<1> QED BY <1>0, <1>3 DEF F

\* What the search of an index brings, in front of each number that of the index.
Brought(i, lane, n) ==
    \E hits \in RankedHits \cup {<<>>} : Len(hits) <= n /\ lane = Namespaced(i, hits)

\* Such a list has no id twice, and its ids say which index they are of.
LEMMA BroughtIs ==
  ASSUME NEW i \in Nat, NEW n \in Nat, NEW lane, Brought(i, lane, n)
  PROVE  /\ lane \in Seq(Nat) /\ IsInjective(lane) /\ Len(lane) <= n
         /\ \A x \in ToSet(lane) : IndexOf(x) = i
<1>1. PICK hits \in RankedHits \cup {<<>>} : Len(hits) <= n /\ lane = Namespaced(i, hits)
  BY DEF Brought
<1>2. hits \in Seq(0..(Room - 1)) /\ IsInjective(hits) /\ Room \in Nat \ {0}
  <2>1. Room \in Nat \ {0}
    BY GlobalAssumption
  <2>2. CASE hits \in RankedHits
    BY <2>1, <2>2, GlobalAssumption, Zenon
  <2>3. CASE hits = <<>>
    BY <2>1, <2>3 DEF IsInjective
  <2> QED BY <1>1, <2>2, <2>3
<1>3. DOMAIN hits = 1..Len(hits) /\ Len(hits) \in Nat /\ \A r \in 1..Len(hits) : hits[r] \in 0..(Room - 1)
  BY <1>2
<1>4. DOMAIN lane = 1..Len(hits) /\ \A r \in 1..Len(hits) : lane[r] = Room * i + hits[r]
  BY <1>1, <1>3 DEF Namespaced
<1>5. \A c \in 0..(Room - 1) : Room * i + c \in Nat /\ (Room * i + c) \div Room = i
  BY <1>2
<1>6. \A c, d \in 0..(Room - 1) : Room * i + c = Room * i + d => c = d
  <2>1. Room * i \in Nat
    BY <1>2
  <2> QED BY <1>2, <2>1
<1>7. lane \in [1..Len(hits) -> Nat]
  <2>1. lane = [r \in 1..Len(hits) |-> lane[r]]
    BY <1>1, <1>3 DEF Namespaced
  <2>2. \A r \in 1..Len(hits) : lane[r] \in Nat
    BY <1>3, <1>4, <1>5
  <2> QED BY ONLY <2>1, <2>2
<1>8. lane \in Seq(Nat) /\ Len(lane) = Len(hits)
  BY <1>3, <1>7
<1>9. IsInjective(lane)
  BY <1>2, <1>3, <1>4, <1>6 DEF IsInjective
<1>10. \A x \in ToSet(lane) : IndexOf(x) = i
  BY <1>3, <1>4, <1>5 DEF ToSet, IndexOf
<1> QED BY <1>1, <1>8, <1>9, <1>10

\* What is fused of the lists that came back is their merge.
LEMMA MergeIs ==
  ASSUME NEW q \in GlobalQueries, NEW act \in Seq(Index), IsInjective(act),
         NEW fnd, DOMAIN fnd = ToSet(act), \A i \in ToSet(act) : Brought(i, fnd[i], q.top_k)
  PROVE  IsMerge(FuseLanes(q, [p \in DOMAIN act |-> fnd[act[p]]]), fnd, q.top_k)
<1> DEFINE lists == [p \in DOMAIN act |-> fnd[act[p]]]
           N == Len(act)
           most == Oversample(q)
           F == FusedUpTo(lists, most)[Len(lists)]
           s == FuseLanes(q, lists)
           members == UNION {ToSet(fnd[i]) : i \in DOMAIN fnd}
<1>1. /\ q.top_k \in Nat /\ Index \subseteq Nat /\ most \in Nat /\ q.top_k <= most
      /\ 10 * RankUnit >= (RRF_K + most) * (RRF_K + most + 1)
  BY GlobalAssumption, RanksDiffer DEF Oversample
<1> HIDE DEF most
<1>2. DOMAIN act = 1..N /\ N \in Nat /\ \A p \in 1..N : act[p] \in ToSet(act) /\ act[p] \in Nat
  <2>1. DOMAIN act = 1..N /\ N \in Nat /\ \A p \in 1..N : act[p] \in Index
    OBVIOUS
  <2>2. \A p \in 1..N : act[p] \in Nat
    BY <1>1, <2>1
  <2> QED BY <2>1, <2>2 DEF ToSet
<1>3. ToSet(act) \subseteq Nat
  BY <1>2 DEF ToSet
<1>4. \A i \in ToSet(act) : /\ fnd[i] \in Seq(Nat) /\ IsInjective(fnd[i]) /\ Len(fnd[i]) <= q.top_k
                            /\ Len(fnd[i]) \in Nat /\ \A x \in ToSet(fnd[i]) : IndexOf(x) = i
  BY <1>1, <1>3, BroughtIs
<1>5. Len(lists) = N /\ DOMAIN lists = 1..N /\ \A p \in 1..N : lists[p] = fnd[act[p]]
  <2>1. lists \in [1..N -> {fnd[act[p]] : p \in 1..N}]
    BY <1>2
  <2> QED BY <1>2, <2>1
<1> HIDE DEF lists
<1>6. Apart(lists, most)
  <2>1. \A k \in 1..N : lists[k] \in Seq(Nat) /\ IsInjective(lists[k]) /\ Len(lists[k]) <= most
    BY <1>1, <1>2, <1>4, <1>5
  <2>2. ASSUME NEW j \in 1..N, NEW k \in 1..N, j # k PROVE ToSet(lists[j]) \cap ToSet(lists[k]) = {}
    <3>1. act[j] # act[k]
      BY <1>2, <2>2 DEF IsInjective
    <3> QED BY <1>2, <1>4, <1>5, <3>1
  <2> QED BY <1>2, <1>5, <2>1, <2>2 DEF Apart
<1>7. FusedOK(lists, most, N, F)
  BY <1>1, <1>5, <1>6, FusedIs
<1>8. FirstIds(lists, N) = members
  <2>1. \A x : x \in FirstIds(lists, N) <=> \E p \in 1..N : x \in ToSet(fnd[act[p]])
    BY <1>5 DEF FirstIds
  <2>2. \A x : x \in members <=> \E i \in ToSet(act) : x \in ToSet(fnd[i])
    OBVIOUS
  <2>3. \A i : i \in ToSet(act) <=> \E p \in 1..N : act[p] = i
    BY <1>2 DEF ToSet
  <2> HIDE DEF members
  <2> QED BY ONLY <2>1, <2>2, <2>3
<1> HIDE DEF F, members
<1>9. /\ F \in Seq(Nat) /\ IsInjective(F) /\ ToSet(F) \subseteq members /\ IsFiniteSet(members)
      /\ Len(F) = IF most < Cardinality(members) THEN most ELSE Cardinality(members)
      /\ \A k \in 1..N : \A x, y \in ToSet(lists[k]) : Ahead(F, x, y) => Ahead(lists[k], x, y)
  BY <1>7, <1>8 DEF FusedOK
<1>10. s = Take(q.top_k, F)
  BY DEF FuseLanes, F, most
<1>11. /\ s \in Seq(Nat) /\ Len(s) = IF q.top_k < Len(F) THEN q.top_k ELSE Len(F)
       /\ DOMAIN s = 1..Len(s) /\ ToSet(s) \subseteq ToSet(F) /\ IsInjective(s)
       /\ \A x, y : Ahead(s, x, y) => Ahead(F, x, y)
  BY <1>1, <1>9, <1>10, TakeIs
<1> HIDE DEF s
<1>12. Len(s) = IF q.top_k < Cardinality(members) THEN q.top_k ELSE Cardinality(members)
  <2>1. Cardinality(members) \in Nat
    BY <1>9, FS_CardinalityType
  <2> QED BY <1>1, <1>9, <1>11, <2>1
<1>13. ASSUME NEW p \in DOMAIN s, NEW r \in DOMAIN s, p < r, IndexOf(s[p]) = IndexOf(s[r])
       PROVE  RankOf(fnd[IndexOf(s[p])], s[p]) < RankOf(fnd[IndexOf(s[r])], s[r])
  <2> DEFINE x == s[p]
             y == s[r]
  <2>1. x \in ToSet(s) /\ y \in ToSet(s) /\ Ahead(F, x, y)
    <3>1. Ahead(s, x, y)
      BY <1>13 DEF Ahead
    <3> QED BY <1>11, <3>1 DEF ToSet
  <2> HIDE DEF x, y
  <2>2. x \in members /\ y \in members
    BY <1>9, <1>11, <2>1
  <2>3. PICK j \in 1..N : x \in ToSet(lists[j])
    BY <1>8, <2>2 DEF FirstIds
  <2>4. PICK k \in 1..N : y \in ToSet(lists[k])
    BY <1>8, <2>2 DEF FirstIds
  <2>5. /\ x \in ToSet(fnd[act[j]]) /\ act[j] \in ToSet(act) /\ IndexOf(x) = act[j]
        /\ y \in ToSet(fnd[act[k]]) /\ act[k] \in ToSet(act) /\ IndexOf(y) = act[k]
    BY <1>2, <1>4, <1>5, <2>3, <2>4
  <2>6. j = k
    BY <1>2, <1>13, <2>5 DEF IsInjective, x, y
  <2> DEFINE lane == fnd[act[j]]
  <2>7. lane = lists[j] /\ lane \in Seq(Nat) /\ IsInjective(lane) /\ x \in ToSet(lane) /\ y \in ToSet(lane)
    BY <1>4, <1>5, <2>5, <2>6
  <2> HIDE DEF lane
  <2>8. PICK a, b \in DOMAIN lane : a < b /\ lane[a] = x /\ lane[b] = y
    <3>1. Ahead(lane, x, y)
      BY <1>9, <2>1, <2>7
    <3> QED BY <3>1 DEF Ahead
  <2>9. RankOf(lane, x) = a /\ RankOf(lane, y) = b
    BY <2>7, <2>8, RankOfIs
  <2>10. fnd[IndexOf(x)] = lane /\ fnd[IndexOf(y)] = lane
    BY <2>5, <2>6 DEF lane
  <2>11. RankOf(fnd[IndexOf(x)], x) < RankOf(fnd[IndexOf(y)], y)
    BY <2>8, <2>9, <2>10
  <2> QED BY <2>11 DEF x, y
<1>14. ToSet(s) \subseteq members
  BY <1>9, <1>11
<1> QED BY ONLY <1>11, <1>12, <1>13, <1>14 DEF IsMerge, members, s, lists

\* The list: in the registry's order, each once, and not empty while the request runs.
ListOK ==
    /\ phase \in {"listen", "weigh", "route", "search", "done"}
    /\ registered \subseteq Index /\ context \in Contexts
    /\ ids \in Seq(Index) /\ IsInjective(ids)
    /\ phase = "listen" => ids = <<>>
    /\ phase # "listen" => request \in GlobalQueries
    /\ phase \in {"weigh", "route", "search"} => ids # <<>>

\* The weights: 1, or what the context says, which then there is.
WeightsOK ==
    /\ phase \in {"listen", "weigh"} => weight = None
    /\ phase \in {"route", "search"} => DOMAIN weight = ToSet(ids)
    /\ DOMAIN weight \subseteq ToSet(ids)
    /\ \A i \in DOMAIN weight :
          /\ weight[i] \in 0..10
          /\ weight[i] # 10 =>
                request.embedder /\ context[i] # NoContext /\ context[i] <= weight[i]

\* The lists: of indexes that were chosen.
LanesOK ==
    /\ active \in Seq(ToSet(ids)) /\ IsInjective(active)
    /\ phase \in {"listen", "weigh", "route"} => active = <<>> /\ found = None
    /\ DOMAIN found \subseteq ToSet(active)
    /\ \A i \in DOMAIN found : Brought(i, found[i], request.top_k)

GlobalInv == ListOK /\ WeightsOK /\ LanesOK /\ RoutesToLikely /\ MergeOfLanes

\* The places of a list without repetition are a strict total order of its members.
LEMMA AheadOrders ==
  ASSUME NEW T, NEW s \in Seq(T), IsInjective(s)
  PROVE  /\ \A x, y \in ToSet(s) : Ahead(s, x, y) => ~Ahead(s, y, x)
         /\ \A x, y, z \in ToSet(s) : Ahead(s, x, y) /\ Ahead(s, y, z) => Ahead(s, x, z)
         /\ \A x, y \in ToSet(s) : x = y \/ Ahead(s, x, y) \/ Ahead(s, y, x)
<1>1. DOMAIN s \subseteq Nat /\ \A p, r \in DOMAIN s : s[p] = s[r] => p = r
  BY DEF IsInjective
<1> QED BY ONLY <1>1 DEF Ahead, ToSet

\* Whatever the strategy, who is left out is not likelier than who is chosen.
LEMMA RoutedIs ==
  ASSUME NEW q \in GlobalQueries, NEW order \in Seq(Index), IsInjective(order), order # <<>>,
         NEW w, \A i \in ToSet(order) : w[i] \in 0..10
  PROVE  LET act == Routed(q, order, w)
             out == ToSet(order) \ ToSet(act)
         IN  /\ act \in Seq(ToSet(order)) /\ IsInjective(act)
             /\ \A i \in out, j \in ToSet(act) : w[j] >= w[i]
             /\ q.routing = "top_n" => act # <<>>
             /\ q.routing = "threshold" => \A i \in out : w[i] < q.threshold
<1> DEFINE S == ToSet(order)
           act == Routed(q, order, w)
           out == S \ ToSet(act)
           Pairs == S \X S
           likely == {ij \in Pairs : \/ w[ij[1]] > w[ij[2]]
                                     \/ w[ij[1]] = w[ij[2]] /\ Ahead(order, ij[1], ij[2])}
           kept == {i \in S : w[i] >= q.threshold}
           inorder == {ij \in Pairs : Ahead(order, ij[1], ij[2])}
<1>1. IsFiniteSet(S) /\ Cardinality(S) = Len(order) /\ Len(order) \in Nat \ {0}
  BY SetOfSequence
<1>2. /\ \A x, y \in S : Ahead(order, x, y) => ~Ahead(order, y, x)
      /\ \A x, y, z \in S : Ahead(order, x, y) /\ Ahead(order, y, z) => Ahead(order, x, z)
      /\ \A x, y \in S : x = y \/ Ahead(order, x, y) \/ Ahead(order, y, x)
  BY AheadOrders
<1>3. /\ \A i, j \in S : <<i, j>> \in likely <=> \/ w[i] > w[j]
                                                 \/ w[i] = w[j] /\ Ahead(order, i, j)
      /\ \A i, j \in S : <<i, j>> \in inorder <=> Ahead(order, i, j)
  OBVIOUS
<1>4. order \in Seq(S)
  BY DEF ToSet
<1>5. \A i \in S : w[i] \in Int
  OBVIOUS
<1> HIDE DEF S, likely, inorder
<1>6. CASE q.routing = "top_n"
  <2> DEFINE arr == Arranged(S, likely)
  <2>1. act = Take(TopN(q), arr)
    BY <1>6 DEF Routed, S, likely
  <2>2. /\ arr \in Seq(S) /\ Len(arr) = Cardinality(S) /\ ToSet(arr) = S /\ IsInjective(arr)
        /\ \A p, r \in DOMAIN arr : p < r => <<arr[p], arr[r]>> \in likely
    <3>1. \A x, y \in S : <<x, y>> \in likely => <<y, x>> \notin likely
      BY <1>2, <1>3, <1>5
    <3>2. \A x, y, z \in S : <<x, y>> \in likely /\ <<y, z>> \in likely => <<x, z>> \in likely
      BY <1>2, <1>3, <1>5
    <3>3. ASSUME NEW x \in S, NEW y \in S, x # y PROVE <<x, y>> \in likely \/ <<y, x>> \in likely
      <4>1. w[x] > w[y] \/ w[y] > w[x] \/ w[x] = w[y]
        BY ONLY <1>5, x \in S, y \in S
      <4>2. Ahead(order, x, y) \/ Ahead(order, y, x)
        BY <1>2, <3>3
      <4> QED BY ONLY <1>3, <4>1, <4>2, x \in S, y \in S
    <3> QED BY ONLY <1>1, <3>1, <3>2, <3>3, ArrangedIs
  <2>3. TopN(q) \in Nat \ {0}
    BY GlobalAssumption DEF TopN
  <2> HIDE DEF arr, act
  <2>4. /\ act \in Seq(S) /\ Len(act) = IF TopN(q) < Len(arr) THEN TopN(q) ELSE Len(arr)
        /\ DOMAIN act = 1..Len(act) /\ DOMAIN act \subseteq DOMAIN arr
        /\ \A p \in DOMAIN act : act[p] = arr[p]
        /\ IsInjective(act)
    BY <2>1, <2>2, <2>3, TakeIs
  <2>5. Len(act) # 0
    BY <1>1, <2>2, <2>3, <2>4
  <2>6. ASSUME NEW i \in out, NEW j \in ToSet(act) PROVE w[j] >= w[i]
    <3>1. PICK p \in DOMAIN act : j = act[p]
      BY DEF ToSet
    <3>2. PICK r \in DOMAIN arr : i = arr[r]
      BY <2>2 DEF ToSet
    <3>3. r \notin DOMAIN act
      BY <2>4, <3>2 DEF ToSet
    <3>4. p < r
      BY <2>2, <2>4, <3>1, <3>2, <3>3
    <3>5. <<j, i>> \in likely /\ i \in S /\ j \in S
      BY <2>2, <2>4, <3>1, <3>2, <3>4 DEF ToSet
    <3> QED BY <1>3, <1>5, <3>5
  <2>7. act # <<>>
    BY <2>5
  <2> QED BY <1>6, <2>4, <2>6, <2>7 DEF S, act
<1>7. CASE q.routing = "threshold"
  <2>1. act = Arranged(kept, inorder)
    BY <1>7 DEF Routed, S, inorder
  <2>2. kept \in SUBSET S /\ IsFiniteSet(kept)
    BY <1>1, FS_Subset
  <2> HIDE DEF act
  <2>3. act \in Seq(kept) /\ ToSet(act) = kept /\ IsInjective(act)
    <3> HIDE DEF kept
    <3>1. \A x, y \in kept : <<x, y>> \in inorder => <<y, x>> \notin inorder
      BY <1>2, <1>3, <2>2
    <3>2. \A x, y, z \in kept : <<x, y>> \in inorder /\ <<y, z>> \in inorder => <<x, z>> \in inorder
      <4>1. \A x, y, z \in S : <<x, y>> \in inorder /\ <<y, z>> \in inorder => <<x, z>> \in inorder
        BY ONLY <1>2, <1>3
      <4> QED BY ONLY <2>2, <4>1
    <3>3. \A x, y \in kept : x = y \/ <<x, y>> \in inorder \/ <<y, x>> \in inorder
      BY <1>2, <1>3, <2>2
    <3> QED BY ONLY <2>1, <2>2, <3>1, <3>2, <3>3, ArrangedIs
  <2>4. q.threshold \in Int
    BY GlobalAssumption
  <2>5. \A i \in out : i \in S /\ ~(w[i] >= q.threshold)
    BY <2>3
  <2>6. \A j \in ToSet(act) : j \in S /\ w[j] >= q.threshold
    BY <2>3
  <2>7. act \in Seq(S)
    BY <2>2, <2>3
  <2>8. \A i \in out : w[i] < q.threshold
    BY <1>5, <2>4, <2>5
  <2>9. \A i \in out, j \in ToSet(act) : w[j] >= w[i]
    BY <1>5, <2>4, <2>5, <2>6
  <2> QED BY <1>7, <2>3, <2>7, <2>8, <2>9 DEF S, act
<1>8. CASE q.routing # "top_n" /\ q.routing # "threshold"
  <2>1. act = order
    BY <1>8 DEF Routed
  <2>2. out = {}
    BY <2>1 DEF S
  <2> QED BY <1>4, <1>8, <2>1, <2>2 DEF S
<1> QED BY <1>6, <1>7, <1>8

\* Nothing is asked yet, so nothing was listed, weighed, routed or found.
LEMMA GlobalStarts == GlobalInit => GlobalInv
<1> SUFFICES ASSUME GlobalInit PROVE GlobalInv
  OBVIOUS
<1>1. ListOK
  BY DEF GlobalInit, ListOK, IsInjective
<1>2. WeightsOK
  BY DEF GlobalInit, WeightsOK, None
<1>3. LanesOK
  BY DEF GlobalInit, LanesOK, None, IsInjective
<1>4. RoutesToLikely /\ MergeOfLanes
  BY DEF GlobalInit, RoutesToLikely, MergeOfLanes
<1> QED BY <1>1, <1>2, <1>3, <1>4 DEF GlobalInv

\* A deletion takes an index from the registry and nothing from the request.
LEMMA DeleteIndexKeeps == ASSUME GlobalInv, DeleteIndex PROVE GlobalInv'
<1>1. /\ phase' = phase /\ context' = context /\ request' = request /\ ids' = ids
      /\ weight' = weight /\ active' = active /\ found' = found /\ answer' = answer
      /\ registered' \subseteq registered
  BY DEF DeleteIndex
<1>2. ListOK'
  BY <1>1 DEF GlobalInv, ListOK
<1>3. WeightsOK'
  BY <1>1 DEF GlobalInv, WeightsOK
<1>4. LanesOK'
  BY <1>1 DEF GlobalInv, LanesOK
<1>5. RoutesToLikely' /\ MergeOfLanes'
  BY <1>1 DEF GlobalInv, RoutesToLikely, MergeOfLanes
<1> QED BY <1>2, <1>3, <1>4, <1>5 DEF GlobalInv

\* A request lists some of the registered indexes, each once, and forgets the last one's answer.
LEMMA GlobalBeginKeeps == ASSUME GlobalInv, GlobalBegin PROVE GlobalInv'
<1>1. /\ phase = "listen" /\ request' \in GlobalQueries
      /\ registered' = registered /\ context' = context /\ weight' = weight
      /\ active' = active /\ found' = found /\ answer' = answer
      /\ phase' = IF ids' = <<>> THEN "done" ELSE "weigh"
  BY DEF GlobalBegin
<1>2. ids' \in Seq(Index) /\ IsInjective(ids')
  <2>1. PICK D : D \in SUBSET registered /\ ids' \in SetToSeqs(D)
    BY DEF GlobalBegin
  <2>2. D \in SUBSET Index /\ IsFiniteSet(Index)
    BY <2>1, GlobalAssumption DEF GlobalInv, ListOK
  <2>3. IsFiniteSet(D)
    BY <2>2, FS_Subset
  <2>4. Cardinality(D) \in Nat
    BY <2>3, FS_CardinalityType
  <2>5. ids' \in [1..Cardinality(D) -> D] /\ \A i, j \in 1..Cardinality(D) : i # j => ids'[i] # ids'[j]
    BY <2>1 DEF SetToSeqs
  <2>6. ids' \in [1..Cardinality(D) -> Index]
    BY <2>2, <2>5
  <2> QED BY <2>4, <2>5, <2>6 DEF IsInjective
<1>3. weight = None /\ active = <<>> /\ found = None /\ DOMAIN None = {}
  BY <1>1 DEF GlobalInv, WeightsOK, LanesOK, None
<1>4. ListOK'
  BY <1>1, <1>2 DEF GlobalInv, ListOK
<1>5. WeightsOK'
  BY <1>1, <1>3 DEF WeightsOK
<1>6. LanesOK'
  <2>1. <<>> \in Seq(ToSet(ids')) /\ IsInjective(<<>>)
    BY DEF IsInjective
  <2> QED BY <1>1, <1>3, <2>1 DEF LanesOK
<1>7. RoutesToLikely' /\ MergeOfLanes'
  BY <1>1 DEF RoutesToLikely, MergeOfLanes
<1> QED BY <1>4, <1>5, <1>6, <1>7 DEF GlobalInv

\* Every listed index gets one weight, between none and the largest.
LEMMA WeighKeeps == ASSUME GlobalInv, compute_context_weights PROVE GlobalInv'
<1>1. /\ phase = "weigh" /\ phase' = "route"
      /\ registered' = registered /\ context' = context /\ request' = request /\ ids' = ids
      /\ active' = active /\ found' = found /\ answer' = answer
  BY DEF compute_context_weights
<1>2. PICK embedded :
          /\ embedded = (request.embedder /\ ToSet(ids) \cap registered # {})
          /\ weight' = [i \in ToSet(ids) |-> Weight(i, embedded)]
  BY DEF compute_context_weights
<1>3. ASSUME NEW i \in ToSet(ids)
      PROVE  /\ weight'[i] \in 0..10
             /\ weight'[i] # 10 =>
                   request.embedder /\ context[i] # NoContext /\ context[i] <= weight'[i]
  <2>1. i \in Index
    BY DEF GlobalInv, ListOK, ToSet
  <2>2. context[i] \in (-10..10) \cup {NoContext}
    BY <2>1, GlobalAssumption DEF GlobalInv, ListOK
  <2>3. weight'[i] = Weight(i, embedded)
    BY <1>2
  <2>4. CASE ~embedded \/ i \notin registered \/ context[i] = NoContext
    <3>1. weight'[i] = 10
      BY <2>3, <2>4 DEF Weight
    <3> QED BY <3>1
  <2>5. CASE ~(~embedded \/ i \notin registered \/ context[i] = NoContext)
    <3>1. weight'[i] = IF context[i] < 0 THEN 0 ELSE context[i]
      BY <2>3, <2>5 DEF Weight
    <3>2. request.embedder /\ context[i] # NoContext
      BY <1>2, <2>5
    <3>3. context[i] \in -10..10
      BY <2>2, <3>2
    <3> QED BY <3>1, <3>2, <3>3
  <2> QED BY <2>4, <2>5
<1>4. ListOK'
  BY <1>1 DEF GlobalInv, ListOK
<1>5. WeightsOK'
  <2>1. DOMAIN weight' = ToSet(ids)
    BY <1>2
  <2> QED BY <1>1, <1>3, <2>1 DEF WeightsOK
<1>6. LanesOK'
  BY <1>1 DEF GlobalInv, LanesOK
<1>7. RoutesToLikely' /\ MergeOfLanes'
  BY <1>1 DEF RoutesToLikely, MergeOfLanes
<1> QED BY <1>4, <1>5, <1>6, <1>7 DEF GlobalInv

\* What the routing leaves out weighs no more than what it leaves in.
LEMMA RouteKeeps == ASSUME GlobalInv, Route PROVE GlobalInv'
<1>1. /\ phase = "route" /\ phase' = "search"
      /\ registered' = registered /\ context' = context /\ request' = request /\ ids' = ids
      /\ weight' = weight /\ found' = found /\ answer' = answer
      /\ active' = Routed(request, ids, weight)
  BY DEF Route
<1>2. /\ request \in GlobalQueries /\ ids \in Seq(Index) /\ IsInjective(ids) /\ ids # <<>>
      /\ DOMAIN weight = ToSet(ids)
      /\ \A i \in ToSet(ids) : /\ weight[i] \in 0..10
                               /\ weight[i] # 10 => /\ request.embedder /\ context[i] # NoContext
                                                    /\ context[i] <= weight[i]
  BY <1>1 DEF GlobalInv, ListOK, WeightsOK
<1>3. /\ active' \in Seq(ToSet(ids)) /\ IsInjective(active')
      /\ \A i \in ToSet(ids) \ ToSet(active'), j \in ToSet(active') : weight[j] >= weight[i]
      /\ request.routing = "top_n" => active' # <<>>
      /\ request.routing = "threshold" =>
            \A i \in ToSet(ids) \ ToSet(active') : weight[i] < request.threshold
  BY ONLY <1>1, <1>2, RoutedIs
<1>4. ASSUME request.routing = "threshold", request.threshold <= 10,
             NEW i \in ToSet(ids) \ ToSet(active')
      PROVE  request.embedder /\ context[i] < request.threshold
  <2>1. weight[i] < request.threshold /\ weight[i] \in 0..10 /\ request.threshold \in Int
    BY <1>2, <1>3, <1>4, GlobalAssumption
  <2>2. weight[i] # 10
    BY ONLY <2>1, <1>4
  <2>3. request.embedder /\ context[i] # NoContext /\ context[i] <= weight[i]
    BY <1>2, <2>2
  <2>4. context[i] \in -10..10
    <3>1. i \in Index /\ context \in Contexts
      BY DEF GlobalInv, ListOK, ToSet
    <3>2. context[i] \in (-10..10) \cup {NoContext}
      BY <3>1, GlobalAssumption
    <3> QED BY <2>3, <3>2
  <2> QED BY <2>1, <2>3, <2>4
<1>5. ListOK'
  BY <1>1 DEF GlobalInv, ListOK
<1>6. WeightsOK'
  BY <1>1, <1>2 DEF WeightsOK
<1>7. LanesOK'
  <2>1. found = None /\ DOMAIN None = {}
    BY <1>1 DEF GlobalInv, LanesOK, None
  <2> QED BY <1>1, <1>3, <2>1 DEF LanesOK
<1>8. RoutesToLikely'
  BY <1>1, <1>3, <1>4 DEF RoutesToLikely
<1>9. MergeOfLanes'
  BY <1>1 DEF MergeOfLanes
<1> QED BY <1>5, <1>6, <1>7, <1>8, <1>9 DEF GlobalInv

\* The search of one index ends with chunks of that index, or with none.
LEMMA SearchOneKeeps == ASSUME GlobalInv, SearchOne PROVE GlobalInv'
<1>1. /\ phase = "search" /\ phase' = "search"
      /\ registered' = registered /\ context' = context /\ request' = request /\ ids' = ids
      /\ weight' = weight /\ active' = active /\ answer' = answer
  BY DEF SearchOne
<1>2. PICK i \in ToSet(active) \ DOMAIN found, lane \in RankedHits \cup {<<>>} :
          /\ Len(lane) <= request.top_k
          /\ found' = [j \in DOMAIN found \cup {i} |->
                          IF j = i THEN Namespaced(i, lane) ELSE found[j]]
  BY DEF SearchOne
<1>3. LanesOK'
  <2>1. DOMAIN found' = DOMAIN found \cup {i} /\ DOMAIN found \subseteq ToSet(active)
    BY <1>2 DEF GlobalInv, LanesOK
  <2>2. Brought(i, found'[i], request.top_k)
    BY <1>2 DEF Brought
  <2>3. ASSUME NEW j \in DOMAIN found PROVE Brought(j, found'[j], request.top_k)
    <3>1. found'[j] = found[j]
      BY <1>2
    <3> QED BY <3>1 DEF GlobalInv, LanesOK
  <2> QED BY <1>1, <2>1, <2>2, <2>3 DEF GlobalInv, LanesOK
<1>4. ListOK'
  BY <1>1 DEF GlobalInv, ListOK
<1>5. WeightsOK'
  BY <1>1 DEF GlobalInv, WeightsOK
<1>6. RoutesToLikely' /\ MergeOfLanes'
  BY <1>1 DEF GlobalInv, RoutesToLikely, MergeOfLanes
<1> QED BY <1>3, <1>4, <1>5, <1>6 DEF GlobalInv

\* The fusion of all the lists that came back is a merge of them.
LEMMA MergeKeeps == ASSUME GlobalInv, Merge PROVE GlobalInv'
<1>1. /\ phase = "search" /\ phase' = "done" /\ DOMAIN found = ToSet(active)
      /\ registered' = registered /\ context' = context /\ request' = request /\ ids' = ids
      /\ weight' = weight /\ active' = active /\ found' = found
      /\ answer' = FuseLanes(request, [p \in DOMAIN active |-> found[active[p]]])
  BY DEF Merge
<1>2. MergeOfLanes'
  <2>1. /\ request \in GlobalQueries /\ active \in Seq(ToSet(ids)) /\ ToSet(ids) \subseteq Index
        /\ IsInjective(active) /\ \A i \in ToSet(active) : Brought(i, found[i], request.top_k)
    BY <1>1 DEF GlobalInv, ListOK, LanesOK, ToSet
  <2>2. active \in Seq(Index)
    BY <2>1
  <2>3. IsMerge(answer', found, request.top_k)
    BY ONLY <1>1, <2>1, <2>2, MergeIs
  <2> QED BY <1>1, <2>3 DEF MergeOfLanes
<1>3. ListOK'
  BY <1>1 DEF GlobalInv, ListOK
<1>4. WeightsOK'
  BY <1>1 DEF GlobalInv, WeightsOK
<1>5. LanesOK'
  BY <1>1 DEF GlobalInv, LanesOK
<1>6. RoutesToLikely'
  BY <1>1 DEF RoutesToLikely
<1> QED BY <1>2, <1>3, <1>4, <1>5, <1>6 DEF GlobalInv

\* Every step of a request, and every deletion beside it, keeps the invariant.
LEMMA GlobalKeeps == GlobalInv /\ [GlobalNext]_gvars => GlobalInv'
<1> SUFFICES ASSUME GlobalInv, [GlobalNext]_gvars PROVE GlobalInv'
  OBVIOUS
<1>1. CASE UNCHANGED gvars
  BY <1>1 DEF gvars, GlobalInv, ListOK, WeightsOK, LanesOK, RoutesToLikely, MergeOfLanes
<1>2. CASE GlobalNext
  BY <1>2, DeleteIndexKeeps, GlobalBeginKeeps, WeighKeeps, RouteKeeps, SearchOneKeeps, MergeKeeps
     DEF GlobalNext
<1> QED BY <1>1, <1>2

\* The inductive invariant names each part of the property.
LEMMA GlobalGives == GlobalInv => GlobalSound
<1> SUFFICES ASSUME GlobalInv PROVE GlobalSound
  OBVIOUS
<1>1. ToSet(active) \subseteq ToSet(ids)
  BY DEF GlobalInv, LanesOK, ToSet
<1> QED BY <1>1 DEF GlobalInv, GlobalSound, GlobalTypeOK, ListOK, WeightsOK, LanesOK

\* For any indexes, contexts, requests, lists that the searches bring, and deletions
\* meanwhile: no index is left out in favour of a less likely one, and the answer is a merge of what
\* came back (RoutingMode::apply, global_search_handler, rrf_fuse).
THEOREM AnswersMerge == GlobalSpec => []GlobalSound
BY GlobalStarts, GlobalKeeps, GlobalGives, PTL DEF GlobalSpec
-----------------------------------------------------------------------------
(* Induction and recursion over the first numbers, and what sequences are  *)
(* made of.                                                                *)

\* What holds of 0 and goes on holds up to N.
LEMMA UpTo ==
  ASSUME NEW N \in Nat, NEW G, 0 \in G, \A n \in 1..N : n - 1 \in G => n \in G
  PROVE  \A n \in 0..N : n \in G
<1> DEFINE Bad == (0..N) \ G
<1> SUFFICES ASSUME Bad # {} PROVE FALSE
  OBVIOUS
<1>1. Bad \in SUBSET Nat /\ IsFiniteSet(Bad)
  <2>1. IsFiniteSet(0..N) /\ Bad \in SUBSET (0..N)
    BY FS_Interval
  <2>2. IsFiniteSet(Bad)
    BY <2>1, FS_Subset, Zenon
  <2> QED BY <2>1, <2>2
<1>2. PICK n \in Bad : \A m \in Bad : n <= m
  <2> HIDE DEF Bad
  <2> QED BY <1>1, LeastMember
<1>3. n \in 1..N /\ n - 1 \in 0..N
  BY <1>2
<1>4. n - 1 \notin Bad
  <2>1. ~(n <= n - 1)
    BY <1>3
  <2> HIDE DEF Bad
  <2> QED BY <1>2, <2>1
<1> QED BY <1>2, <1>3, <1>4

\* A function that starts with b and goes on by f.
Runs(g, N, V, b, f) ==
    g \in [0..N -> V] /\ g[0] = b /\ \A k \in 1..N : g[k] = f[k][g[k - 1]]

\* A value and a way to go on from it make a function.
LEMMA Recursion ==
  ASSUME NEW N \in Nat, NEW V, NEW b \in V, NEW f \in [1..N -> [V -> V]]
  PROVE  \E g : Runs(g, N, V, b, f)
<1> DEFINE Goes(g, n) == g[0] = b /\ \A k \in 1..n : g[k] = f[k][g[k - 1]]
           G == {n \in 0..N : \E g \in [0..n -> V] : Goes(g, n)}
<1>1. 0 \in G
  <2> DEFINE g == [k \in 0..0 |-> b]
  <2>1. g \in [0..0 -> V] /\ Goes(g, 0)
    OBVIOUS
  <2> HIDE DEF g, Goes
  <2> QED BY <2>1
<1>2. ASSUME NEW n \in 1..N, n - 1 \in G PROVE n \in G
  <2>1. PICK g \in [0..(n - 1) -> V] : Goes(g, n - 1)
    BY <1>2
  <2> DEFINE h == [k \in 0..n |-> IF k = n THEN f[n][g[n - 1]] ELSE g[k]]
  <2>2. f[n][g[n - 1]] \in V
    <3>1. g[n - 1] \in V
      BY <2>1
    <3> QED BY <3>1
  <2>3. h \in [0..n -> V]
    BY <2>1, <2>2
  <2>4. h[0] = b
    BY <2>1
  <2>5. ASSUME NEW k \in 1..n PROVE h[k] = f[k][h[k - 1]]
    <3>1. k - 1 \in 0..(n - 1) /\ h[k - 1] = g[k - 1]
      OBVIOUS
    <3>2. CASE k = n
      BY <3>1, <3>2
    <3>3. CASE k # n
      <4>1. k \in 1..(n - 1) /\ h[k] = g[k]
        BY <3>3
      <4>2. g[k] = f[k][g[k - 1]]
        BY <2>1, <4>1
      <4> QED BY <3>1, <4>1, <4>2
    <3> QED BY <3>2, <3>3
  <2>6. Goes(h, n)
    BY <2>4, <2>5
  <2> HIDE DEF h, Goes
  <2> QED BY <2>3, <2>6
<1> HIDE DEF G
<1>3. N \in G
  <2>1. \A n \in 0..N : n \in G
    BY <1>1, <1>2, UpTo
  <2> QED BY <2>1
<1> QED BY <1>3 DEF G, Runs

\* The function that flattens, as far as it has got.
LEMMA FlattenSteps ==
  ASSUME NEW T, NEW ss \in Seq(Seq(T)), Len(ss) > 0
  PROVE  \E F : /\ FlattenSeq(ss) = F[Len(ss)] /\ F[1] = ss[1]
                /\ \A k \in 2..Len(ss) : F[k] = F[k - 1] \o ss[k]
<1> DEFINE N == Len(ss)
           Goes(g) == g = [i \in 1..N |-> IF i = 1 THEN ss[i] ELSE g[i - 1] \o ss[i]]
           f == [k \in 1..(N - 1) |-> [v \in Seq(T) |-> v \o ss[k + 1]]]
<1>1. N \in Nat /\ N - 1 \in Nat /\ ss \in [1..N -> Seq(T)] /\ 1 \in 1..N
  OBVIOUS
<1>2. f \in [1..(N - 1) -> [Seq(T) -> Seq(T)]]
  <2>1. ASSUME NEW k \in 1..(N - 1), NEW v \in Seq(T) PROVE v \o ss[k + 1] \in Seq(T)
    <3>1. k + 1 \in 1..N
      BY <1>1
    <3>2. ss[k + 1] \in Seq(T)
      BY <1>1, <3>1
    <3> QED BY ONLY v \in Seq(T), <3>2
  <2> QED BY <2>1
<1> HIDE DEF N, Goes
<1>3. PICK g : Runs(g, N - 1, Seq(T), ss[1], f)
  <2>1. ss[1] \in Seq(T)
    BY <1>1
  <2> HIDE DEF f
  <2> QED BY <1>1, <1>2, <2>1, Recursion
<1>4. \A k \in 1..(N - 1) : g[k] = g[k - 1] \o ss[k + 1]
  <2> SUFFICES ASSUME NEW k \in 1..(N - 1) PROVE g[k] = g[k - 1] \o ss[k + 1]
    OBVIOUS
  <2>1. g[k - 1] \in Seq(T)
    <3>1. k - 1 \in 0..(N - 1)
      BY <1>1
    <3>2. g \in [0..(N - 1) -> Seq(T)]
      BY <1>3 DEF Runs
    <3> QED BY ONLY <3>1, <3>2
  <2>2. f[k][g[k - 1]] = g[k - 1] \o ss[k + 1]
    BY <2>1
  <2> QED BY <1>3, <2>2 DEF Runs
<1> DEFINE h == [i \in 1..N |-> g[i - 1]]
<1>5. Goes(h)
  <2>1. ASSUME NEW i \in 1..N PROVE h[i] = IF i = 1 THEN ss[i] ELSE h[i - 1] \o ss[i]
    <3>1. CASE i = 1
      BY <1>3, <3>1 DEF Runs
    <3>2. CASE i # 1
      <4>1. i - 1 \in 1..(N - 1) /\ i - 1 \in 1..N /\ (i - 1) + 1 = i
        BY <1>1, <3>2
      <4>2. g[i - 1] = g[(i - 1) - 1] \o ss[i]
        BY <1>4, <4>1
      <4> QED BY <3>2, <4>1, <4>2
    <3> QED BY <3>1, <3>2
  <2>2. h = [i \in 1..N |-> h[i]]
    OBVIOUS
  <2> HIDE DEF h
  <2> QED BY <2>1, <2>2 DEF Goes
<1> DEFINE F == CHOOSE e : Goes(e)
<1>6. FlattenSeq(ss) = F[N]
  BY <1>1 DEF FlattenSeq, N, Goes
<1>7. Goes(F)
  <2> HIDE DEF h
  <2> QED BY <1>5
<1> HIDE DEF F
<1>8. \A i \in 1..N : F[i] = IF i = 1 THEN ss[i] ELSE F[i - 1] \o ss[i]
  BY <1>7 DEF Goes
<1>9. \A k \in 2..N : k \in 1..N /\ k # 1
  BY <1>1
<1>10. F[1] = ss[1] /\ \A k \in 2..N : F[k] = F[k - 1] \o ss[k]
  BY ONLY <1>1, <1>8, <1>9
<1> QED BY <1>6, <1>10 DEF N

\* The members of a sequence to which another is appended.
LEMMA Appended ==
  ASSUME NEW T, NEW s \in Seq(T), NEW t \in Seq(T)
  PROVE  s \o t \in Seq(T) /\ Len(s \o t) = Len(s) + Len(t) /\ ToSet(s \o t) = ToSet(s) \cup ToSet(t)
<1>1. /\ s \o t \in Seq(T) /\ Len(s \o t) = Len(s) + Len(t)
      /\ \A i \in 1..Len(s) : (s \o t)[i] = s[i]
      /\ \A i \in 1..Len(t) : (s \o t)[Len(s) + i] = t[i]
      /\ DOMAIN s = 1..Len(s) /\ DOMAIN t = 1..Len(t) /\ Len(s) \in Nat /\ Len(t) \in Nat
      /\ DOMAIN (s \o t) = 1..(Len(s) + Len(t))
  OBVIOUS
<1> DEFINE u == s \o t
<1> HIDE DEF u
<1>2. /\ u \in Seq(T) /\ \A i \in 1..Len(s) : u[i] = s[i]
      /\ \A i \in 1..Len(t) : u[Len(s) + i] = t[i] /\ DOMAIN u = 1..(Len(s) + Len(t))
      /\ \A i \in 1..Len(t) : Len(s) + i \in 1..(Len(s) + Len(t))
      /\ \A i \in 1..(Len(s) + Len(t)) : i \in 1..Len(s) \/ (i - Len(s) \in 1..Len(t) /\ i = Len(s) + (i - Len(s)))
  BY <1>1 DEF u
<1>3. DOMAIN u = 1..(Len(s) + Len(t)) /\ 1..Len(s) \subseteq DOMAIN u
  BY <1>1 DEF u
<1>4. ASSUME NEW i \in DOMAIN u PROVE u[i] \in ToSet(s) \cup ToSet(t)
  <2>1. CASE i \in 1..Len(s)
    BY <1>1, <1>2, <2>1 DEF ToSet
  <2>2. CASE i - Len(s) \in 1..Len(t) /\ i = Len(s) + (i - Len(s))
    <3>1. u[i] = t[i - Len(s)]
      BY <1>2, <2>2
    <3> QED BY <1>1, <2>2, <3>1 DEF ToSet
  <2> QED BY <1>2, <1>3, <2>1, <2>2
<1>5. ASSUME NEW i \in DOMAIN s PROVE s[i] \in ToSet(u)
  BY <1>1, <1>2, <1>3 DEF ToSet
<1>6. ASSUME NEW i \in DOMAIN t PROVE t[i] \in ToSet(u)
  BY <1>1, <1>2, <1>3 DEF ToSet
<1>7. ToSet(u) = ToSet(s) \cup ToSet(t)
  BY ONLY <1>4, <1>5, <1>6 DEF ToSet
<1> QED BY <1>1, <1>7 DEF u

\* What is flattened has the members of all.
LEMMA FlattenIs ==
  ASSUME NEW T, NEW ss \in Seq(Seq(T))
  PROVE  FlattenSeq(ss) \in Seq(T) /\ ToSet(FlattenSeq(ss)) = UNION {ToSet(ss[i]) : i \in DOMAIN ss}
<1> DEFINE N == Len(ss)
<1>0. N \in Nat /\ ss \in [1..N -> Seq(T)] /\ DOMAIN ss = 1..N
  OBVIOUS
<1>1. CASE N = 0
  <2>1. ss = <<>> /\ DOMAIN ss = {}
    BY <1>0, <1>1
  <2>2. FlattenSeq(ss) = ss
    BY <1>1 DEF FlattenSeq
  <2>3. ToSet(ss) = {} /\ UNION {ToSet(ss[i]) : i \in DOMAIN ss} = {}
    BY ONLY <2>1 DEF ToSet
  <2>4. ss \in Seq(T)
    BY <2>1
  <2> QED BY ONLY <2>2, <2>3, <2>4
<1>2. CASE N # 0
  <2>0. Len(ss) > 0
    BY <1>0, <1>2
  <2>1. PICK F : /\ FlattenSeq(ss) = F[N] /\ F[1] = ss[1]
                 /\ \A k \in 2..N : F[k] = F[k - 1] \o ss[k]
    BY <2>0, FlattenSteps
  <2> DEFINE First(n) == UNION {ToSet(ss[i]) : i \in 1..n}
             G == {n \in 0..(N - 1) : F[n + 1] \in Seq(T) /\ ToSet(F[n + 1]) = First(n + 1)}
  <2>2. 0 \in G
    <3>1. F[0 + 1] = ss[1] /\ ss[1] \in Seq(T) /\ 0 \in 0..(N - 1) /\ 1..(0 + 1) = {1}
      BY <1>0, <1>2, <2>1
    <3> QED BY <3>1
  <2>3. ASSUME NEW n \in 1..(N - 1), n - 1 \in G PROVE n \in G
    <3>1. n + 1 \in 2..N /\ (n - 1) + 1 = n /\ (n + 1) - 1 = n /\ n \in 0..(N - 1)
      BY <1>0
    <3>2. F[n] \in Seq(T) /\ ToSet(F[n]) = First(n)
      BY <2>3, <3>1
    <3>3. F[n + 1] = F[n] \o ss[n + 1] /\ ss[n + 1] \in Seq(T)
      <4>1. F[n + 1] = F[(n + 1) - 1] \o ss[n + 1] /\ n + 1 \in 1..N
        <5>1. n + 1 \in 1..N
          BY <1>0, <3>1
        <5>2. \A k \in 2..N : F[k] = F[k - 1] \o ss[k]
          BY <2>1
        <5> QED BY ONLY <3>1, <5>1, <5>2
      <4>2. ss[n + 1] \in Seq(T)
        BY <1>0, <4>1
      <4> QED BY ONLY <3>1, <4>1, <4>2
    <3>4. F[n + 1] \in Seq(T) /\ ToSet(F[n + 1]) = ToSet(F[n]) \cup ToSet(ss[n + 1])
      BY ONLY <3>2, <3>3, Appended
    <3>5. 1..(n + 1) = (1..n) \cup {n + 1}
      OBVIOUS
    <3>6. First(n + 1) = First(n) \cup ToSet(ss[n + 1])
      BY <3>5, Zenon
    <3> HIDE DEF First
    <3> QED BY <3>1, <3>2, <3>4, <3>6
  <2>4. N - 1 \in G
    <3>1. N - 1 \in Nat /\ N - 1 \in 0..(N - 1)
      BY <1>0, <1>2
    <3> HIDE DEF G, N
    <3>2. \A n \in 0..(N - 1) : n \in G
      BY ONLY <3>1, <2>2, <2>3, UpTo
    <3> QED BY <3>1, <3>2
  <2>5. (N - 1) + 1 = N
    BY <1>0
  <2> QED BY <1>0, <2>1, <2>4, <2>5
<1> QED BY <1>1, <1>2

\* q gives the places in s of what was kept of its first n members.
Sifted(out, s, K, n, q) ==
    /\ q \in [1..Len(out) -> 1..n]
    /\ \A i, j \in 1..Len(out) : i < j => q[i] < q[j]
    /\ \A i \in 1..Len(out) : out[i] = s[q[i]] /\ s[q[i]] \in K
    /\ \A p \in 1..n : s[p] \in K => \E i \in 1..Len(out) : q[i] = p

\* One more member is kept or not.
LEMMA SiftGoesOn ==
  ASSUME NEW T, NEW s \in Seq(T), NEW K, NEW n \in 1..Len(s), NEW out \in Seq(T), NEW q,
         Sifted(out, s, K, n - 1, q)
  PROVE  \E e : Sifted(out \o (IF s[n] \in K THEN <<s[n]>> ELSE <<>>), s, K, n, e)
<1> DEFINE m == Len(out)
<1>0. m \in Nat /\ n \in Nat /\ n - 1 \in Nat /\ n >= 1 /\ s[n] \in T
  OBVIOUS
<1>1. /\ q \in [1..m -> 1..(n - 1)]
      /\ \A i, j \in 1..m : i < j => q[i] < q[j]
      /\ \A i \in 1..m : out[i] = s[q[i]] /\ s[q[i]] \in K
      /\ \A p \in 1..(n - 1) : s[p] \in K => \E i \in 1..m : q[i] = p
  BY DEF Sifted
<1>2. CASE s[n] \in K
  <2> DEFINE new == out \o <<s[n]>>
             e == [i \in 1..(m + 1) |-> IF i = m + 1 THEN n ELSE q[i]]
  <2>1. Len(new) = m + 1 /\ new[m + 1] = s[n] /\ \A i \in 1..m : new[i] = out[i]
    BY <1>0
  <2>2. \A i \in 1..(m + 1) : i \in 1..m \/ i = m + 1
    BY <1>0
  <2>3. /\ \A i \in 1..m : e[i] = q[i] /\ q[i] \in 1..(n - 1) /\ i # m + 1 /\ i \in 1..(m + 1)
        /\ e[m + 1] = n /\ m + 1 \in 1..(m + 1)
    BY <1>0, <1>1
  <2> HIDE DEF new
  <2>4. e \in [1..(m + 1) -> 1..n]
    BY <1>0, <1>1
  <2> HIDE DEF e, m
  <2>5. ASSUME NEW i \in 1..(m + 1), NEW j \in 1..(m + 1), i < j PROVE e[i] < e[j]
    <3>1. i \in 1..m
      BY <1>0, <2>5
    <3>2. CASE j = m + 1
      <4>1. q[i] \in 1..(n - 1) /\ e[i] = q[i] /\ e[j] = n
        BY <2>3, <3>1, <3>2
      <4> QED BY ONLY <1>0, <4>1
    <3>3. CASE j \in 1..m
      <4>1. e[i] = q[i] /\ e[j] = q[j] /\ q[i] < q[j]
        BY <1>1, <2>3, <2>5, <3>1, <3>3
      <4> QED BY <4>1
    <3> QED BY <2>2, <3>2, <3>3
  <2>6. ASSUME NEW i \in 1..(m + 1) PROVE new[i] = s[e[i]] /\ s[e[i]] \in K
    <3>1. CASE i \in 1..m
      BY <1>1, <2>1, <2>3, <3>1
    <3>2. CASE i = m + 1
      BY <1>2, <2>1, <2>3, <3>2
    <3> QED BY <2>2, <3>1, <3>2
  <2>7. ASSUME NEW p \in 1..n, s[p] \in K PROVE \E i \in 1..(m + 1) : e[i] = p
    <3>1. CASE p = n
      BY <2>3, <3>1
    <3>2. CASE p # n
      <4>1. p \in 1..(n - 1)
        BY <1>0, <3>2
      <4>2. PICK i \in 1..m : q[i] = p
        BY <1>1, <2>7, <4>1
      <4> QED BY <2>3, <4>2
    <3> QED BY <3>1, <3>2
  <2>8. Sifted(new, s, K, n, e)
    BY <2>1, <2>4, <2>5, <2>6, <2>7 DEF Sifted
  <2> QED BY <1>2, <2>8 DEF new
<1>3. CASE s[n] \notin K
  <2>1. out \o <<>> = out
    OBVIOUS
  <2>2. \A p \in 1..n : p \in 1..(n - 1) \/ p = n
    BY <1>0
  <2>3. q \in [1..m -> 1..n]
    BY <1>0, <1>1
  <2>4. Sifted(out, s, K, n, q)
    BY <1>1, <1>3, <2>2, <2>3 DEF Sifted
  <2> QED BY <1>3, <2>1, <2>4
<1> QED BY <1>2, <1>3

\* What is kept are the members that are in K, in their order.
LEMMA KeptAre ==
  ASSUME NEW T, NEW s \in Seq(T), NEW K
  PROVE  Kept(s, K) \in Seq(T) /\ \E q : Sifted(Kept(s, K), s, K, Len(s), q)
<1> DEFINE N == Len(s)
           Piece(i) == IF s[i] \in K THEN <<s[i]>> ELSE <<>>
           ss == [i \in DOMAIN s |-> Piece(i)]
<1>0. N \in Nat /\ DOMAIN s = 1..N /\ \A i \in 1..N : s[i] \in T
  OBVIOUS
<1>1. Kept(s, K) = FlattenSeq(ss)
  BY DEF Kept
<1>2. ss \in Seq(Seq(T)) /\ Len(ss) = N /\ DOMAIN ss = 1..N /\ \A i \in 1..N : ss[i] = Piece(i)
  <2>1. \A i \in 1..N : Piece(i) \in Seq(T)
    BY <1>0
  <2> HIDE DEF Piece
  <2>2. ss \in [1..N -> Seq(T)] /\ \A i \in 1..N : ss[i] = Piece(i)
    BY <1>0, <2>1
  <2> HIDE DEF ss, N
  <2> QED BY <1>0, <2>2
<1>3. Kept(s, K) \in Seq(T)
  BY <1>1, <1>2, FlattenIs
<1> DEFINE z == <<>>
           e == [i \in 1..0 |-> i]
<1>4. z \in Seq(T) /\ Len(z) = 0 /\ Sifted(z, s, K, 0, e)
  BY DEF Sifted
<1> HIDE DEF N, Piece, ss
<1>5. CASE N = 0
  <2>1. Kept(s, K) = z
    <3>1. ss = <<>>
      BY <1>2, <1>5
    <3> QED BY <1>1, <1>2, <1>5, <3>1 DEF FlattenSeq
  <2> HIDE DEF z, e
  <2> QED BY <1>3, <1>4, <1>5, <2>1 DEF N
<1>6. CASE N # 0
  <2>0. Len(ss) > 0 /\ N - 1 \in Nat
    BY <1>0, <1>2, <1>6
  <2>1. PICK F : /\ FlattenSeq(ss) = F[N] /\ F[1] = ss[1]
                 /\ \A k \in 2..N : F[k] = F[k - 1] \o ss[k]
    BY <1>2, <2>0, FlattenSteps
  <2> DEFINE G == {n \in 0..(N - 1) : F[n + 1] \in Seq(T) /\ \E q : Sifted(F[n + 1], s, K, n + 1, q)}
  <2>2. 0 \in G
    <3>1. 1 \in 1..N /\ 1 \in 1..Len(s) /\ 1 - 1 = 0 /\ 0 + 1 = 1 /\ 0 \in 0..(N - 1)
      BY <1>0, <1>6 DEF N
    <3>2. \E q : Sifted(z \o Piece(1), s, K, 1, q)
      <4> HIDE DEF z, e
      <4>1. Sifted(z, s, K, 1 - 1, e)
        BY <1>4, <3>1
      <4> QED BY ONLY <1>4, <3>1, <4>1, s \in Seq(T), SiftGoesOn DEF Piece
    <3>3. F[1] = Piece(1) /\ Piece(1) \in Seq(T)
      BY <1>0, <1>2, <2>1, <3>1 DEF Piece
    <3>4. z \o Piece(1) = Piece(1)
      BY ONLY <3>3
    <3> QED BY <3>1, <3>2, <3>3, <3>4
  <2>3. ASSUME NEW n \in 1..(N - 1), n - 1 \in G PROVE n \in G
    <3>1. n + 1 \in 2..N /\ (n - 1) + 1 = n /\ (n + 1) - 1 = n /\ n \in 0..(N - 1) /\ n + 1 \in 1..N
      BY <1>0
    <3>2. F[n] \in Seq(T) /\ \E q : Sifted(F[n], s, K, n, q)
      BY <2>3, <3>1
    <3>3. F[n + 1] = F[n] \o Piece(n + 1)
      <4>1. F[n + 1] = F[(n + 1) - 1] \o ss[n + 1]
        BY ONLY <2>1, <3>1
      <4>2. ss[n + 1] = Piece(n + 1)
        BY ONLY <1>2, <3>1
      <4> QED BY ONLY <3>1, <4>1, <4>2
    <3>4. Piece(n + 1) \in Seq(T)
      BY <1>0, <3>1 DEF Piece
    <3>5. F[n + 1] \in Seq(T)
      BY ONLY <3>2, <3>3, <3>4
    <3>6. n + 1 \in 1..Len(s)
      BY <3>1 DEF N
    <3>7. PICK q : Sifted(F[n], s, K, (n + 1) - 1, q)
      BY <3>1, <3>2
    <3>8. \E d : Sifted(F[n] \o Piece(n + 1), s, K, n + 1, d)
      BY <3>2, <3>6, <3>7, SiftGoesOn DEF Piece
    <3> QED BY <3>1, <3>3, <3>5, <3>8
  <2>4. N - 1 \in G
    <3>1. N - 1 \in 0..(N - 1)
      BY <2>0
    <3> HIDE DEF G
    <3>2. \A n \in 0..(N - 1) : n \in G
      BY ONLY <2>0, <2>2, <2>3, UpTo
    <3> QED BY <3>1, <3>2
  <2>5. (N - 1) + 1 = N
    BY <1>0
  <2>6. \E q : Sifted(F[N], s, K, N, q)
    BY <2>4, <2>5
  <2> QED BY <1>1, <1>3, <2>1, <2>6 DEF N
<1> QED BY <1>5, <1>6

\* What this says of members, repetition and order.
LEMMA KeptIs ==
  ASSUME NEW T, NEW s \in Seq(T), NEW K
  PROVE  /\ Kept(s, K) \in Seq(T) /\ ToSet(Kept(s, K)) = ToSet(s) \cap K
         /\ IsInjective(s) => IsInjective(Kept(s, K))
         /\ \A x, y : Ahead(Kept(s, K), x, y) => Ahead(s, x, y)
         /\ Len(Kept(s, K)) <= Len(s)
<1> DEFINE out == Kept(s, K)
<1>1. out \in Seq(T) /\ DOMAIN out = 1..Len(out) /\ DOMAIN s = 1..Len(s)
  BY KeptAre
<1>2. PICK q : Sifted(out, s, K, Len(s), q)
  BY KeptAre
<1> HIDE DEF out
<1>3. Len(out) \in Nat /\ Len(s) \in Nat
  BY <1>1
<1>4. ToSet(out) = ToSet(s) \cap K
  <2>1. ToSet(out) \subseteq ToSet(s) \cap K
    BY <1>1, <1>2 DEF Sifted, ToSet
  <2>2. ASSUME NEW p \in DOMAIN s, s[p] \in K PROVE s[p] \in ToSet(out)
    <3>1. PICK i \in 1..Len(out) : q[i] = p
      BY <1>1, <1>2, <2>2 DEF Sifted
    <3> QED BY <1>1, <1>2, <3>1 DEF Sifted, ToSet
  <2> QED BY <2>1, <2>2 DEF ToSet
<1>5. \A i, j \in 1..Len(out) : q[i] = q[j] => i = j
  <2> SUFFICES ASSUME NEW i \in 1..Len(out), NEW j \in 1..Len(out), q[i] = q[j], i # j PROVE FALSE
    OBVIOUS
  <2>1. q[i] \in 1..Len(s) /\ q[j] \in 1..Len(s)
    BY <1>2 DEF Sifted
  <2>2. \A k, l \in 1..Len(out) : k < l => q[k] < q[l]
    BY <1>2 DEF Sifted
  <2>3. i < j \/ j < i
    OBVIOUS
  <2>4. q[i] < q[j] \/ q[j] < q[i]
    BY <2>2, <2>3
  <2> QED BY ONLY <2>1, <2>4, q[i] = q[j]
<1>6. IsInjective(s) => IsInjective(out)
  BY <1>1, <1>2, <1>5 DEF Sifted, IsInjective
<1>7. \A x, y : Ahead(out, x, y) => Ahead(s, x, y)
  BY <1>1, <1>2 DEF Sifted, Ahead
<1>8. Len(out) <= Len(s)
  <2>1. q \in Injection(1..Len(out), 1..Len(s))
    BY <1>2, <1>5 DEF Sifted, Injection, IsInjective
  <2>2. \A n \in Nat : IsFiniteSet(1..n) /\ Cardinality(1..n) = n
    BY FS_Interval
  <2>3. /\ IsFiniteSet(1..Len(s)) /\ Cardinality(1..Len(out)) = Len(out)
        /\ Cardinality(1..Len(s)) = Len(s)
    BY ONLY <1>3, <2>2
  <2>4. Cardinality(1..Len(out)) <= Cardinality(1..Len(s))
    BY ONLY <2>1, <2>3, FS_Injection
  <2> QED BY ONLY <2>3, <2>4
<1> QED BY <1>1, <1>4, <1>6, <1>7, <1>8 DEF out
-----------------------------------------------------------------------------
(* The symbol graph: its nodes, and what a name resolves to.               *)

\* The nodes that stand for chunks of the corpus, no two of one name, within the cap.
NodesFit(corpus, cap0, nodes) ==
    /\ nodes \in Seq(DOMAIN corpus)
    /\ \A i \in DOMAIN nodes : corpus[nodes[i]].name # <<>>
    /\ \A i, j \in DOMAIN nodes : corpus[nodes[i]].name = corpus[nodes[j]].name => i = j
    /\ cap0 > 0 => Len(nodes) <= cap0

\* One more chunk keeps them so.
LEMMA RegisterFits ==
  ASSUME NEW corpus \in Seq(RawChunk), NEW n \in Nat, NEW nodes, NodesFit(corpus, n, nodes),
         NEW c \in DOMAIN corpus
  PROVE  NodesFit(corpus, n, register_one_symbol(corpus, n, nodes, c))
<1> DEFINE new == Append(nodes, c)
<1>1. CASE \/ corpus[c].name = <<>> \/ cap_exceeded(n, Len(nodes))
           \/ \E i \in DOMAIN nodes : corpus[nodes[i]].name = corpus[c].name
  BY <1>1 DEF register_one_symbol
<1>2. CASE /\ corpus[c].name # <<>> /\ ~cap_exceeded(n, Len(nodes))
           /\ \A i \in DOMAIN nodes : corpus[nodes[i]].name # corpus[c].name
  <2>1. register_one_symbol(corpus, n, nodes, c) = new
    BY <1>2 DEF register_one_symbol
  <2>2. nodes \in Seq(DOMAIN corpus) /\ Len(nodes) \in Nat /\ DOMAIN nodes = 1..Len(nodes)
    BY DEF NodesFit
  <2>3. /\ new \in Seq(DOMAIN corpus) /\ Len(new) = Len(nodes) + 1
        /\ DOMAIN new = (DOMAIN nodes) \cup {Len(nodes) + 1}
        /\ \A i \in DOMAIN nodes : new[i] = nodes[i]
        /\ new[Len(nodes) + 1] = c
    BY <2>2
  <2> HIDE DEF new
  <2>4. \A i \in DOMAIN new : corpus[new[i]].name # <<>>
    BY <1>2, <2>3 DEF NodesFit
  <2>5. ASSUME NEW i \in DOMAIN new, NEW j \in DOMAIN new, corpus[new[i]].name = corpus[new[j]].name
        PROVE i = j
    <3>1. CASE i \in DOMAIN nodes /\ j \in DOMAIN nodes
      BY <2>3, <2>5, <3>1 DEF NodesFit
    <3>2. CASE i = Len(nodes) + 1 /\ j \in DOMAIN nodes
      BY <1>2, <2>3, <2>5, <3>2
    <3>3. CASE i \in DOMAIN nodes /\ j = Len(nodes) + 1
      BY <1>2, <2>3, <2>5, <3>3
    <3> QED BY <2>3, <3>1, <3>2, <3>3
  <2>6. n > 0 => Len(new) <= n
    BY <1>2, <2>2, <2>3 DEF cap_exceeded
  <2> QED BY <2>1, <2>3, <2>4, <2>5, <2>6 DEF NodesFit
<1> QED BY <1>1, <1>2

\* The nodes of a corpus: its first chunks of each name, as far as the cap goes.
LEMMA NodesAre ==
  ASSUME NEW corpus \in Seq(RawChunk), NEW n \in Nat
  PROVE  NodesFit(corpus, n, register_symbol_nodes(corpus, n))
<1> DEFINE N == Len(corpus)
           V == {nodes \in Seq(DOMAIN corpus) : NodesFit(corpus, n, nodes)}
           Goes(g) == g = [c \in 0..N |-> IF c = 0 THEN <<>>
                                          ELSE register_one_symbol(corpus, n, g[c - 1], c)]
           f == [c \in 1..N |-> [nodes \in V |-> register_one_symbol(corpus, n, nodes, c)]]
<1>1. N \in Nat /\ DOMAIN corpus = 1..N
  OBVIOUS
<1>2. <<>> \in V
  BY DEF NodesFit
<1>3. \A c \in 1..N, nodes \in V : register_one_symbol(corpus, n, nodes, c) \in V
  <2> SUFFICES ASSUME NEW c \in 1..N, NEW nodes \in V
               PROVE  register_one_symbol(corpus, n, nodes, c) \in V
    OBVIOUS
  <2>1. NodesFit(corpus, n, register_one_symbol(corpus, n, nodes, c))
    BY <1>1, RegisterFits
  <2> QED BY <2>1 DEF NodesFit
<1> HIDE DEF V
<1>4. f \in [1..N -> [V -> V]]
  BY <1>3
<1>5. \E g : Goes(g)
  <2> HIDE DEF f, Goes, N
  <2>1. PICK g : Runs(g, N, V, <<>>, f)
    BY <1>1, <1>2, <1>4, Recursion
  <2>2. ASSUME NEW c \in 0..N
        PROVE  g[c] = IF c = 0 THEN <<>> ELSE register_one_symbol(corpus, n, g[c - 1], c)
    <3>1. CASE c = 0
      BY <2>1, <3>1 DEF Runs
    <3>2. CASE c # 0
      <4>1. c \in 1..N /\ c - 1 \in 0..N
        BY <1>1, <3>2
      <4>2. g[c - 1] \in V /\ g[c] = f[c][g[c - 1]]
        BY <2>1, <4>1 DEF Runs
      <4>3. f[c][g[c - 1]] = register_one_symbol(corpus, n, g[c - 1], c)
        BY <4>1, <4>2 DEF f
      <4> QED BY <3>2, <4>2, <4>3
    <3> QED BY <3>1, <3>2
  <2>3. g = [c \in 0..N |-> g[c]]
    BY <2>1 DEF Runs
  <2> QED BY <2>2, <2>3 DEF Goes
<1> DEFINE F == CHOOSE g : Goes(g)
<1>6. register_symbol_nodes(corpus, n) = F[N]
  BY DEF register_symbol_nodes
<1>7. Goes(F)
  <2> HIDE DEF Goes
  <2> QED BY <1>5
<1> HIDE DEF F
<1>8. \A c \in 0..N : F[c] = IF c = 0 THEN <<>> ELSE register_one_symbol(corpus, n, F[c - 1], c)
  BY <1>7
<1> DEFINE G == {c \in 0..N : F[c] \in V}
<1> HIDE DEF N, Goes, f
<1>9. 0 \in G
  <2>1. 0 \in 0..N
    BY <1>1
  <2>2. F[0] = <<>>
    BY ONLY <1>8, <2>1
  <2> QED BY <1>2, <2>1, <2>2
<1>10. ASSUME NEW c \in 1..N, c - 1 \in G PROVE c \in G
  <2>1. c \in 0..N /\ c # 0
    BY <1>1
  <2> QED BY <1>3, <1>8, <1>10, <2>1
<1>11. N \in G
  <2> HIDE DEF G
  <2>1. \A c \in 0..N : c \in G
    BY <1>1, <1>9, <1>10, UpTo
  <2> QED BY <1>1, <2>1
<1> QED BY <1>6, <1>11 DEF V

\* A name leads to its one node.
LEMMA NodeOfIs ==
  ASSUME NEW corpus \in Seq(RawChunk), NEW n, NEW nodes, NodesFit(corpus, n, nodes), NEW name
  PROVE  \/ /\ NodeOf(corpus, nodes, name) = 0
            /\ \A i \in DOMAIN nodes : corpus[nodes[i]].name # name
         \/ /\ NodeOf(corpus, nodes, name) \in DOMAIN nodes
            /\ corpus[nodes[NodeOf(corpus, nodes, name)]].name = name
<1> DEFINE I == {i \in 1..Len(nodes) : name # <<>> /\ corpus[nodes[i]].name = name}
<1>1. DOMAIN nodes = 1..Len(nodes) /\ Len(nodes) \in Nat
  BY DEF NodesFit
<1>2. NodeOf(corpus, nodes, name) = IF I # {} THEN Min(I) ELSE 0
  BY DEF NodeOf, SelectInSeq
<1>3. CASE I = {}
  BY <1>1, <1>2, <1>3 DEF NodesFit
<1>4. CASE I # {}
  <2>1. PICK i \in I : TRUE
    BY <1>4
  <2>2. i \in Int /\ i \in DOMAIN nodes /\ corpus[nodes[i]].name = name
    BY <1>1, <2>1
  <2>3. I = {i}
    BY <1>1, <2>1 DEF NodesFit
  <2>4. Min({i}) = i
    BY <2>2 DEF Min
  <2>5. NodeOf(corpus, nodes, name) = i
    BY <1>2, <1>4, <2>3, <2>4
  <2> QED BY <2>2, <2>5
<1> QED BY <1>3, <1>4

\* What a target may mean, by definition: its exact name or else its last part.
Meanings(corpus, nodes, t) ==
    LET exact == {i \in DOMAIN nodes : corpus[nodes[i]].name = t}
    IN IF exact # {} THEN exact ELSE {i \in DOMAIN nodes : <<Last(corpus[nodes[i]].name)>> = t}

\* It is resolved to one of these, if there is one.
LEMMA ResolvedIs ==
  ASSUME NEW corpus \in Seq(RawChunk), NEW n, NEW nodes, NodesFit(corpus, n, nodes),
         NEW by_suffix \in SuffixLookups(corpus, nodes), NEW t \in Names
  PROVE  /\ Meanings(corpus, nodes, t) = {} => resolve_callee_fast(corpus, nodes, by_suffix, t) = 0
         /\ Meanings(corpus, nodes, t) # {} =>
                resolve_callee_fast(corpus, nodes, by_suffix, t) \in Meanings(corpus, nodes, t)
         /\ Meanings(corpus, nodes, t) \subseteq DOMAIN nodes
         /\ \A i \in Meanings(corpus, nodes, t) : Last(t) = Last(corpus[nodes[i]].name)
<1> DEFINE exact == {i \in DOMAIN nodes : corpus[nodes[i]].name = t}
           last == {Last(corpus[nodes[i]].name) : i \in DOMAIN nodes}
           ends == {i \in DOMAIN nodes : <<Last(corpus[nodes[i]].name)>> = t}
<1>0. t \in Seq(STRING) /\ Len(t) \in Nat
  BY DEF Names
<1>1. /\ by_suffix \in [last -> DOMAIN nodes]
      /\ \A s \in last : Last(corpus[nodes[by_suffix[s]]].name) = s
  BY DEF SuffixLookups, Symbol
<1>2. 0 \notin DOMAIN nodes
  BY DEF NodesFit
<1>3. \A x : <<x>> = t => Len(t) = 1 /\ t[1] = x /\ Last(t) = x
  <2> SUFFICES ASSUME NEW x, <<x>> = t PROVE Len(t) = 1 /\ t[1] = x /\ Last(t) = x
    OBVIOUS
  <2>1. Len(<<x>>) = 1 /\ <<x>>[1] = x
    OBVIOUS
  <2>2. Len(t) = 1 /\ t[1] = x
    BY ONLY <2>1, <<x>> = t
  <2> QED BY ONLY <2>2 DEF Last
<1>4. Len(t) = 1 => t = <<t[1]>>
  BY <1>0
<1>5. CASE exact # {}
  <2>1. NodeOf(corpus, nodes, t) \in exact
    BY <1>5, NodeOfIs
  <2>2. resolve_callee_fast(corpus, nodes, by_suffix, t) = NodeOf(corpus, nodes, t)
    BY <1>2, <2>1 DEF resolve_callee_fast
  <2>3. Meanings(corpus, nodes, t) = exact
    BY <1>5 DEF Meanings
  <2> QED BY <1>5, <2>1, <2>2, <2>3
<1>6. CASE exact = {}
  <2>1. NodeOf(corpus, nodes, t) = 0
    BY <1>6, NodeOfIs
  <2>2. Meanings(corpus, nodes, t) = ends
    BY <1>6 DEF Meanings
  <2>3. CASE Len(t) = 1 /\ t[1] \in last
    <3>1. resolve_callee_fast(corpus, nodes, by_suffix, t) = by_suffix[t[1]]
      BY <1>1, <2>1, <2>3 DEF resolve_callee_fast
    <3>2. by_suffix[t[1]] \in ends
      BY <1>1, <1>4, <2>3
    <3> QED BY <1>3, <2>2, <3>1, <3>2
  <2>4. CASE ~(Len(t) = 1 /\ t[1] \in last)
    <3>1. resolve_callee_fast(corpus, nodes, by_suffix, t) = 0
      BY <1>1, <2>1, <2>4 DEF resolve_callee_fast
    <3>2. ends = {}
      BY <1>3, <2>4
    <3> QED BY <2>2, <3>1, <3>2
  <2> QED BY <2>3, <2>4
<1> QED BY <1>5, <1>6

-----------------------------------------------------------------------------
(* The edges of the graph.                                                 *)

Edge(nodes) == [from : DOMAIN nodes, to : DOMAIN nodes,
                kind : {"CallsFunction", "Implements", "ModuleContains"}]

\* A sequence is one of its members.
LEMMA OfMembers ==
  ASSUME NEW T, NEW s \in Seq(T), NEW S, ToSet(s) \subseteq S
  PROVE  s \in Seq(S)
<1>1. s \in [1..Len(s) -> T] /\ Len(s) \in Nat /\ DOMAIN s = 1..Len(s)
  OBVIOUS
<1>2. \A i \in 1..Len(s) : s[i] \in S
  BY <1>1 DEF ToSet
<1>3. s \in [1..Len(s) -> S]
  BY <1>1, <1>2
<1> QED BY <1>1, <1>3

\* Its members alone.
LEMMA KeptHas ==
  ASSUME NEW T, NEW s \in Seq(T), NEW K, K \subseteq ToSet(s)
  PROVE  Kept(s, K) \in Seq(T) /\ ToSet(Kept(s, K)) = K
<1>1. Kept(s, K) \in Seq(T) /\ ToSet(Kept(s, K)) = ToSet(s) \cap K
  BY KeptIs
<1> QED BY <1>1

\* The edges that the targets of one symbol stand for, by definition.
TargetEdges(corpus, nodes, by_suffix, from, targets, kind) ==
    {e \in Edge(nodes) :
        /\ e.from = from /\ e.kind = kind /\ e.to # from
        /\ \E i \in DOMAIN targets : e.to = resolve_callee_fast(corpus, nodes, by_suffix, targets[i])}

\* The edges the model makes of a symbol's targets are these, duplicates aside.
LEMMA TargetEdgesAre ==
  ASSUME NEW corpus \in Seq(RawChunk), NEW n, NEW nodes, NodesFit(corpus, n, nodes),
         NEW by_suffix \in SuffixLookups(corpus, nodes),
         NEW from \in DOMAIN nodes, NEW targets \in Seq(Names),
         NEW kind \in {"CallsFunction", "Implements"}
  PROVE  /\ add_edges_for_targets(corpus, nodes, by_suffix, from, targets, kind) \in Seq(Edge(nodes))
         /\ ToSet(add_edges_for_targets(corpus, nodes, by_suffix, from, targets, kind))
                = TargetEdges(corpus, nodes, by_suffix, from, targets, kind)
<1> DEFINE To(t) == resolve_callee_fast(corpus, nodes, by_suffix, t)
           Made == [from : DOMAIN nodes, kind : {"CallsFunction", "Implements"},
                    to : (DOMAIN nodes) \cup {0}]
           all0 == [i \in DOMAIN targets |-> [from |-> from, kind |-> kind, to |-> To(targets[i])]]
           K == {e \in ToSet(all0) : e.to \notin {0, from}}
           out == add_edges_for_targets(corpus, nodes, by_suffix, from, targets, kind)
<1>1. out = Kept(all0, K)
  BY DEF add_edges_for_targets
<1>2. DOMAIN targets = 1..Len(targets) /\ Len(targets) \in Nat /\ \A i \in DOMAIN targets : targets[i] \in Names
  OBVIOUS
<1>3. \A t \in Names : To(t) \in (DOMAIN nodes) \cup {0}
  BY ResolvedIs
<1> HIDE DEF To
<1>4. all0 \in Seq(Made) /\ DOMAIN all0 = DOMAIN targets
  <2>1. \A i \in DOMAIN targets : [from |-> from, kind |-> kind, to |-> To(targets[i])] \in Made
    BY <1>2, <1>3
  <2> HIDE DEF Made
  <2>2. all0 \in [1..Len(targets) -> Made]
    BY <1>2, <2>1
  <2> HIDE DEF all0
  <2> QED BY <1>2, <2>2
<1>5. out \in Seq(Made) /\ ToSet(out) = K
  <2>1. K \subseteq ToSet(all0)
    OBVIOUS
  <2> HIDE DEF K, all0, Made, out
  <2>2. Kept(all0, K) \in Seq(Made) /\ ToSet(Kept(all0, K)) = K
    BY ONLY <1>4, <2>1, KeptHas
  <2> QED BY ONLY <1>1, <2>2
<1>6. ToSet(all0) = {all0[i] : i \in DOMAIN targets}
  BY <1>4 DEF ToSet
<1>7. K = TargetEdges(corpus, nodes, by_suffix, from, targets, kind)
  <2>1. ASSUME NEW e \in K PROVE e \in TargetEdges(corpus, nodes, by_suffix, from, targets, kind)
    <3>1. PICK i \in DOMAIN targets : e = [from |-> from, kind |-> kind, to |-> To(targets[i])]
      BY <1>6
    <3>2. e.to = To(targets[i]) /\ e.from = from /\ e.kind = kind /\ e.to \notin {0, from}
      BY <3>1
    <3>3. e.to \in DOMAIN nodes
      BY <1>2, <1>3, <3>2
    <3>4. e \in Edge(nodes)
      BY <3>1, <3>2, <3>3 DEF Edge
    <3> QED BY <3>2, <3>4 DEF TargetEdges, To
  <2>2. ASSUME NEW e \in TargetEdges(corpus, nodes, by_suffix, from, targets, kind) PROVE e \in K
    <3>1. PICK i \in DOMAIN targets : e.to = To(targets[i])
      BY DEF TargetEdges, To
    <3>2. e \in Edge(nodes) /\ e.from = from /\ e.kind = kind /\ e.to # from
      BY DEF TargetEdges
    <3>3. e = [from |-> from, kind |-> kind, to |-> To(targets[i])] /\ e.to \in DOMAIN nodes
      BY <3>1, <3>2 DEF Edge
    <3>4. 0 \notin DOMAIN nodes
      BY DEF NodesFit
    <3>5. e \in ToSet(all0)
      BY <1>6, <3>3
    <3> QED BY <3>2, <3>3, <3>4, <3>5
  <2> QED BY <2>1, <2>2
<1>8. TargetEdges(corpus, nodes, by_suffix, from, targets, kind) \subseteq Edge(nodes)
  BY DEF TargetEdges
<1>9. out \in Seq(Edge(nodes))
  <2> HIDE DEF K, all0, Made, out
  <2> QED BY <1>5, <1>7, <1>8, OfMembers
<1> QED BY <1>5, <1>7, <1>9

\* The edges one chunk stands for by what it calls and inherits.
ChunkEdges(corpus, nodes, by_suffix, c) ==
    LET from == NodeOf(corpus, nodes, corpus[c].name)
    IN IF from = 0 THEN {}
       ELSE TargetEdges(corpus, nodes, by_suffix, from, corpus[c].calls, "CallsFunction")
                \cup TargetEdges(corpus, nodes, by_suffix, from, corpus[c].inherits, "Implements")

\* The edges one chunk stands for as a container.
ContainerEdges(corpus, nodes, c) ==
    {e \in Edge(nodes) :
        /\ corpus[c].container /\ e.kind = "ModuleContains"
        /\ e.from = NodeOf(corpus, nodes, corpus[c].name) /\ e.to # e.from
        /\ \E d \in DOMAIN corpus : /\ corpus[d].file = corpus[c].file
                                    /\ e.to = NodeOf(corpus, nodes, corpus[d].name)}

\* The call and inheritance edges of a corpus are those of its chunks.
LEMMA CallEdgesAre ==
  ASSUME NEW corpus \in Seq(RawChunk), NEW n, NEW nodes, NodesFit(corpus, n, nodes),
         NEW by_suffix \in SuffixLookups(corpus, nodes)
  PROVE  /\ add_call_and_inherit_edges(corpus, nodes, by_suffix) \in Seq(Edge(nodes))
         /\ ToSet(add_call_and_inherit_edges(corpus, nodes, by_suffix))
                = (UNION {ChunkEdges(corpus, nodes, by_suffix, c) : c \in DOMAIN corpus})
<1> DEFINE From(c) == NodeOf(corpus, nodes, corpus[c].name)
           Along(c) == add_edges_for_targets(corpus, nodes, by_suffix, From(c), corpus[c].calls,
                                             "CallsFunction")
           Parents(c) == add_edges_for_targets(corpus, nodes, by_suffix, From(c),
                                               corpus[c].inherits, "Implements")
           EdgesOf(c) == IF From(c) = 0 THEN <<>> ELSE Along(c) \o Parents(c)
           ss == [c \in DOMAIN corpus |-> EdgesOf(c)]
<1>1. add_call_and_inherit_edges(corpus, nodes, by_suffix) = FlattenSeq(ss)
  BY DEF add_call_and_inherit_edges
<1>2. ASSUME NEW c \in DOMAIN corpus
      PROVE  EdgesOf(c) \in Seq(Edge(nodes)) /\ ToSet(EdgesOf(c)) = ChunkEdges(corpus, nodes, by_suffix, c)
  <2>1. corpus[c] \in RawChunk
    OBVIOUS
  <2>2. corpus[c].calls \in Seq(Names) /\ corpus[c].inherits \in Seq(Names)
    BY <2>1 DEF RawChunk
  <2>3. CASE From(c) = 0
    <3>1. EdgesOf(c) = <<>> /\ ChunkEdges(corpus, nodes, by_suffix, c) = {}
      BY <2>3 DEF ChunkEdges
    <3>2. <<>> \in Seq(Edge(nodes)) /\ ToSet(<<>>) = {}
      BY DEF ToSet
    <3> QED BY ONLY <3>1, <3>2
  <2>4. CASE From(c) # 0
    <3>1. From(c) \in DOMAIN nodes
      BY <2>4, NodeOfIs
    <3>2. /\ Along(c) \in Seq(Edge(nodes))
          /\ ToSet(Along(c)) = TargetEdges(corpus, nodes, by_suffix, From(c), corpus[c].calls, "CallsFunction")
      BY <2>2, <3>1, TargetEdgesAre
    <3>3. /\ Parents(c) \in Seq(Edge(nodes))
          /\ ToSet(Parents(c)) = TargetEdges(corpus, nodes, by_suffix, From(c), corpus[c].inherits, "Implements")
      BY <2>2, <3>1, TargetEdgesAre
    <3>4. EdgesOf(c) = Along(c) \o Parents(c)
      BY <2>4
    <3>5. ChunkEdges(corpus, nodes, by_suffix, c) = ToSet(Along(c)) \cup ToSet(Parents(c))
      BY <2>4, <3>2, <3>3 DEF ChunkEdges
    <3> HIDE DEF Along, Parents, EdgesOf
    <3>6. EdgesOf(c) \in Seq(Edge(nodes)) /\ ToSet(EdgesOf(c)) = ToSet(Along(c)) \cup ToSet(Parents(c))
      BY <3>2, <3>3, <3>4, Appended
    <3> QED BY <3>5, <3>6
  <2> QED BY <2>3, <2>4
<1> HIDE DEF EdgesOf
<1>3. ss \in Seq(Seq(Edge(nodes))) /\ DOMAIN ss = DOMAIN corpus
  <2>1. ss \in [1..Len(corpus) -> Seq(Edge(nodes))] /\ Len(corpus) \in Nat /\ DOMAIN corpus = 1..Len(corpus)
    BY <1>2
  <2> HIDE DEF ss
  <2> QED BY <2>1
<1>4. \A c \in DOMAIN corpus : ToSet(ss[c]) = ChunkEdges(corpus, nodes, by_suffix, c)
  BY <1>2
<1> HIDE DEF ss
<1>5. {ToSet(ss[c]) : c \in DOMAIN ss} = {ChunkEdges(corpus, nodes, by_suffix, c) : c \in DOMAIN corpus}
  BY <1>3, <1>4
<1> QED BY <1>1, <1>3, <1>5, FlattenIs

\* The containment edges of a corpus are those of its containers.
LEMMA ContainsAre ==
  ASSUME NEW corpus \in Seq(RawChunk), NEW n, NEW nodes, NodesFit(corpus, n, nodes)
  PROVE  /\ add_module_contains_edges(corpus, nodes) \in Seq(Edge(nodes))
         /\ ToSet(add_module_contains_edges(corpus, nodes))
                = (UNION {ContainerEdges(corpus, nodes, c) : c \in DOMAIN corpus})
<1> DEFINE Node(c) == NodeOf(corpus, nodes, corpus[c].name)
           K(c) == {d \in DOMAIN corpus : /\ corpus[d].file = corpus[c].file
                                          /\ Node(d) \notin {0, Node(c)}}
           places == [d \in DOMAIN corpus |-> d]
           Siblings(c) == Kept(places, K(c))
           EdgesOf(c) ==
               IF ~corpus[c].container \/ Node(c) = 0 THEN <<>>
               ELSE [i \in DOMAIN Siblings(c) |->
                       [from |-> Node(c), to |-> Node(Siblings(c)[i]), kind |-> "ModuleContains"]]
           ss == [c \in DOMAIN corpus |-> EdgesOf(c)]
<1>1. add_module_contains_edges(corpus, nodes) = FlattenSeq(ss)
  BY DEF add_module_contains_edges
<1>2. \A c \in DOMAIN corpus : Node(c) \in (DOMAIN nodes) \cup {0}
  BY NodeOfIs
<1>3. 0 \notin DOMAIN nodes
  BY DEF NodesFit
<1>4. places \in Seq(DOMAIN corpus) /\ ToSet(places) = DOMAIN corpus
  <2>1. Len(corpus) \in Nat /\ DOMAIN corpus = 1..Len(corpus)
    OBVIOUS
  <2>2. places \in [1..Len(corpus) -> DOMAIN corpus] /\ \A d \in DOMAIN corpus : places[d] = d
    BY <2>1
  <2> HIDE DEF places
  <2>3. places \in Seq(DOMAIN corpus) /\ DOMAIN places = DOMAIN corpus
    BY <2>1, <2>2
  <2>4. {places[d] : d \in DOMAIN corpus} = DOMAIN corpus
    BY ONLY <2>2
  <2> QED BY <2>3, <2>4 DEF ToSet
<1> HIDE DEF places
<1>5. ASSUME NEW c \in DOMAIN corpus
      PROVE  EdgesOf(c) \in Seq(Edge(nodes)) /\ ToSet(EdgesOf(c)) = ContainerEdges(corpus, nodes, c)
  <2>1. CASE ~corpus[c].container \/ Node(c) = 0
    <3>1. EdgesOf(c) = <<>>
      BY <2>1
    <3>2. ContainerEdges(corpus, nodes, c) = {}
      BY <1>3, <2>1 DEF ContainerEdges, Edge
    <3>3. <<>> \in Seq(Edge(nodes)) /\ ToSet(<<>>) = {}
      BY DEF ToSet
    <3> QED BY ONLY <3>1, <3>2, <3>3
  <2>2. CASE corpus[c].container /\ Node(c) # 0
    <3> DEFINE sib == Siblings(c)
    <3>1. K(c) \subseteq ToSet(places)
      BY <1>4
    <3>2. sib \in Seq(DOMAIN corpus) /\ ToSet(sib) = K(c)
      <4> HIDE DEF K
      <4>1. Kept(places, K(c)) \in Seq(DOMAIN corpus) /\ ToSet(Kept(places, K(c))) = K(c)
        BY ONLY <1>4, <3>1, KeptHas
      <4> QED BY <4>1
    <3>3. EdgesOf(c) = [i \in DOMAIN sib |-> [from |-> Node(c), to |-> Node(sib[i]), kind |-> "ModuleContains"]]
      BY <2>2
    <3>4. Node(c) \in DOMAIN nodes
      BY <1>2, <2>2
    <3> HIDE DEF sib, EdgesOf
    <3>5. DOMAIN sib = 1..Len(sib) /\ Len(sib) \in Nat
      BY <3>2
    <3>6. \A i \in DOMAIN sib : sib[i] \in K(c)
      BY <3>2 DEF ToSet
    <3>7. \A d \in K(c) : [from |-> Node(c), to |-> Node(d), kind |-> "ModuleContains"] \in Edge(nodes)
      BY <1>2, <3>4 DEF Edge
    <3>8. EdgesOf(c) \in Seq(Edge(nodes)) /\ DOMAIN EdgesOf(c) = DOMAIN sib
      <4> HIDE DEF K, Node
      <4>1. EdgesOf(c) \in [1..Len(sib) -> Edge(nodes)]
        BY <3>3, <3>5, <3>6, <3>7
      <4> QED BY <3>5, <4>1
    <3>9. ToSet(EdgesOf(c)) = {[from |-> Node(c), to |-> Node(d), kind |-> "ModuleContains"] : d \in K(c)}
      <4> HIDE DEF K, Node
      <4>1. ToSet(EdgesOf(c)) = {EdgesOf(c)[i] : i \in DOMAIN sib}
        BY <3>8 DEF ToSet
      <4>2. K(c) = {sib[i] : i \in DOMAIN sib}
        BY <3>2 DEF ToSet
      <4> QED BY <3>3, <4>1, <4>2
    <3>10. ASSUME NEW d \in K(c)
           PROVE  [from |-> Node(c), to |-> Node(d), kind |-> "ModuleContains"] \in ContainerEdges(corpus, nodes, c)
      <4>1. d \in DOMAIN corpus /\ corpus[d].file = corpus[c].file /\ Node(d) # Node(c)
        OBVIOUS
      <4>2. [from |-> Node(c), to |-> Node(d), kind |-> "ModuleContains"] \in Edge(nodes)
        BY <3>7
      <4> QED BY <2>2, <4>1, <4>2 DEF ContainerEdges
    <3>11. ASSUME NEW e \in ContainerEdges(corpus, nodes, c)
           PROVE  \E d \in K(c) : e = [from |-> Node(c), to |-> Node(d), kind |-> "ModuleContains"]
      <4>1. PICK d \in DOMAIN corpus : corpus[d].file = corpus[c].file /\ e.to = Node(d)
        BY DEF ContainerEdges
      <4>2. e \in Edge(nodes) /\ e.kind = "ModuleContains" /\ e.from = Node(c) /\ e.to # e.from
        BY DEF ContainerEdges
      <4>3. d \in K(c)
        BY <1>3, <4>1, <4>2 DEF Edge
      <4>4. e = [from |-> Node(c), to |-> Node(d), kind |-> "ModuleContains"]
        BY <4>1, <4>2 DEF Edge
      <4> QED BY <4>3, <4>4
    <3> HIDE DEF K, Node
    <3> QED BY <3>8, <3>9, <3>10, <3>11
  <2> QED BY <2>1, <2>2
<1> HIDE DEF EdgesOf
<1>6. ss \in Seq(Seq(Edge(nodes))) /\ DOMAIN ss = DOMAIN corpus
  <2>1. ss \in [1..Len(corpus) -> Seq(Edge(nodes))] /\ Len(corpus) \in Nat /\ DOMAIN corpus = 1..Len(corpus)
    BY <1>5
  <2> HIDE DEF ss
  <2> QED BY <2>1
<1>7. \A c \in DOMAIN corpus : ToSet(ss[c]) = ContainerEdges(corpus, nodes, c)
  BY <1>5
<1> HIDE DEF ss
<1>8. {ToSet(ss[c]) : c \in DOMAIN ss} = {ContainerEdges(corpus, nodes, c) : c \in DOMAIN corpus}
  BY <1>6, <1>7
<1> QED BY <1>1, <1>6, <1>8, FlattenIs

\* What a build of a corpus makes, with the table it looks last parts up in.
Built(g, corpus, n, by_suffix) ==
    /\ g.corpus = corpus /\ g.nodes = register_symbol_nodes(corpus, n)
    /\ NodesFit(corpus, n, g.nodes) /\ by_suffix \in SuffixLookups(corpus, g.nodes)
    /\ g.edges \in Seq(Edge(g.nodes))
    /\ ToSet(g.edges) = (UNION {ChunkEdges(corpus, g.nodes, by_suffix, c) : c \in DOMAIN corpus})
                            \cup (UNION {ContainerEdges(corpus, g.nodes, c) : c \in DOMAIN corpus})

\* Every graph that a build of a corpus can make is one the chunks account for.
LEMMA GraphsAreBuilt ==
  ASSUME NEW corpus \in Seq(RawChunk), NEW n \in Nat, NEW g \in Graphs_of(corpus, n)
  PROVE  \E by_suffix : Built(g, corpus, n, by_suffix)
<1> DEFINE nodes == register_symbol_nodes(corpus, n)
           Along(b) == add_call_and_inherit_edges(corpus, nodes, b)
           contains == add_module_contains_edges(corpus, nodes)
<1>1. PICK b \in SuffixLookups(corpus, nodes) :
          g = [corpus |-> corpus, nodes |-> nodes, edges |-> Along(b) \o contains]
  BY DEF Graphs_of
<1>2. NodesFit(corpus, n, nodes)
  BY NodesAre
<1> HIDE DEF nodes
<1>3. /\ Along(b) \in Seq(Edge(nodes))
      /\ ToSet(Along(b)) = (UNION {ChunkEdges(corpus, nodes, b, c) : c \in DOMAIN corpus})
  BY <1>2, CallEdgesAre
<1>4. /\ contains \in Seq(Edge(nodes))
      /\ ToSet(contains) = (UNION {ContainerEdges(corpus, nodes, c) : c \in DOMAIN corpus})
  BY <1>2, ContainsAre
<1> HIDE DEF Along, contains
<1>5. Along(b) \o contains \in Seq(Edge(nodes)) /\ ToSet(Along(b) \o contains) = ToSet(Along(b)) \cup ToSet(contains)
  BY <1>3, <1>4, Appended
<1>6. g.corpus = corpus /\ g.nodes = nodes /\ g.edges = Along(b) \o contains
  BY <1>1
<1>7. ToSet(Along(b) \o contains) = (UNION {ChunkEdges(corpus, nodes, b, c) : c \in DOMAIN corpus})
                                        \cup (UNION {ContainerEdges(corpus, nodes, c) : c \in DOMAIN corpus})
  BY ONLY <1>3, <1>4, <1>5
<1>8. nodes = register_symbol_nodes(corpus, n)
  BY DEF nodes
<1>9. Built(g, corpus, n, b)
  <2>1. ToSet(g.edges) = (UNION {ChunkEdges(corpus, g.nodes, b, c) : c \in DOMAIN corpus})
                             \cup (UNION {ContainerEdges(corpus, g.nodes, c) : c \in DOMAIN corpus})
    BY ONLY <1>6, <1>7
  <2>2. /\ NodesFit(corpus, n, g.nodes) /\ b \in SuffixLookups(corpus, g.nodes)
        /\ g.edges \in Seq(Edge(g.nodes)) /\ g.nodes = register_symbol_nodes(corpus, n)
    BY ONLY <1>2, <1>5, <1>6, <1>8, b \in SuffixLookups(corpus, nodes), Zenon
  <2> QED BY ONLY <1>6, <2>1, <2>2 DEF Built
<1> QED BY <1>9

\* Each edge of a graph that was built is witnessed, and the graph within its cap.
LEMMA BuiltWitnessed ==
  ASSUME NEW corpus \in Seq(RawChunk), NEW n, NEW b, Built(graph, corpus, n, b), cap = n
  PROVE  EdgesWitnessed
<1> DEFINE nodes == graph.nodes
           Name(i) == Symbol(graph.corpus, graph.nodes, i)
           Named(x) == {c \in DOMAIN graph.corpus : graph.corpus[c].name = x}
           Says(targets, x) == \E i \in DOMAIN targets : Last(targets[i]) = Last(x)
           Witness(e) == \E c \in Named(Name(e.from)) :
                  CASE e.kind = "CallsFunction" -> Says(graph.corpus[c].calls, Name(e.to))
                    [] e.kind = "Implements" -> Says(graph.corpus[c].inherits, Name(e.to))
                    [] OTHER -> /\ graph.corpus[c].container
                                /\ \E d \in Named(Name(e.to)) :
                                      graph.corpus[d].file = graph.corpus[c].file
<1>1. /\ graph.corpus = corpus /\ NodesFit(corpus, n, nodes) /\ b \in SuffixLookups(corpus, nodes)
      /\ ToSet(graph.edges) = (UNION {ChunkEdges(corpus, nodes, b, c) : c \in DOMAIN corpus})
                                  \cup (UNION {ContainerEdges(corpus, nodes, c) : c \in DOMAIN corpus})
  BY DEF Built
<1>2. \A i : Name(i) = corpus[nodes[i]].name
  BY <1>1 DEF Symbol
<1>3. cap > 0 => Len(graph.nodes) <= cap
  BY <1>1 DEF NodesFit
<1> HIDE DEF nodes, Name
<1>4. ASSUME NEW c \in DOMAIN corpus, NEW kind \in {"CallsFunction", "Implements"},
             NEW targets \in Seq(Names),
             NEW e \in TargetEdges(corpus, nodes, b, NodeOf(corpus, nodes, corpus[c].name), targets, kind)
      PROVE  /\ e.kind = kind /\ e.from # e.to /\ c \in Named(Name(e.from)) /\ Says(targets, Name(e.to))
  <2>1. PICK i \in DOMAIN targets : e.to = resolve_callee_fast(corpus, nodes, b, targets[i])
    BY DEF TargetEdges
  <2>2. /\ e.from \in DOMAIN nodes /\ e.to \in DOMAIN nodes /\ e.kind = kind /\ e.to # e.from
        /\ e.from = NodeOf(corpus, nodes, corpus[c].name)
    BY DEF TargetEdges, Edge
  <2>3. targets[i] \in Names
    BY <2>1
  <2>4. 0 \notin DOMAIN nodes
    BY <1>1 DEF NodesFit
  <2>5. e.to \in Meanings(corpus, nodes, targets[i])
    <3>1. Meanings(corpus, nodes, targets[i]) # {}
      BY <1>1, <2>1, <2>2, <2>3, <2>4, ResolvedIs
    <3> QED BY <1>1, <2>1, <2>3, <3>1, ResolvedIs
  <2>6. Last(targets[i]) = Last(corpus[nodes[e.to]].name)
    BY <1>1, <2>3, <2>5, ResolvedIs
  <2>7. corpus[nodes[e.from]].name = corpus[c].name
    BY <1>1, <2>2, <2>4, NodeOfIs
  <2>8. c \in Named(Name(e.from))
    BY <1>1, <1>2, <2>7
  <2>9. Says(targets, Name(e.to))
    BY <1>2, <2>1, <2>6
  <2> QED BY <2>2, <2>8, <2>9
<1>5. ASSUME NEW c \in DOMAIN corpus, NEW e \in ChunkEdges(corpus, nodes, b, c)
      PROVE  e.from # e.to /\ Witness(e)
  <2>1. corpus[c] \in RawChunk
    OBVIOUS
  <2>2. corpus[c].calls \in Seq(Names) /\ corpus[c].inherits \in Seq(Names)
    BY <2>1 DEF RawChunk
  <2> DEFINE from == NodeOf(corpus, nodes, corpus[c].name)
  <2>3. CASE e \in TargetEdges(corpus, nodes, b, from, corpus[c].calls, "CallsFunction")
    <3>1. /\ e.kind = "CallsFunction" /\ e.from # e.to /\ c \in Named(Name(e.from))
          /\ Says(corpus[c].calls, Name(e.to))
      BY <1>4, <2>2, <2>3
    <3> HIDE DEF Named, Says
    <3> QED BY <1>1, <3>1
  <2>4. CASE e \in TargetEdges(corpus, nodes, b, from, corpus[c].inherits, "Implements")
    <3>1. /\ e.kind = "Implements" /\ e.from # e.to /\ c \in Named(Name(e.from))
          /\ Says(corpus[c].inherits, Name(e.to))
      BY <1>4, <2>2, <2>4
    <3> HIDE DEF Named, Says
    <3> QED BY <1>1, <3>1
  <2> QED BY <2>3, <2>4 DEF ChunkEdges
<1>6. ASSUME NEW c \in DOMAIN corpus, NEW e \in ContainerEdges(corpus, nodes, c)
      PROVE  e.from # e.to /\ Witness(e)
  <2>1. PICK d \in DOMAIN corpus : /\ corpus[d].file = corpus[c].file
                                   /\ e.to = NodeOf(corpus, nodes, corpus[d].name)
    BY DEF ContainerEdges
  <2>2. /\ e.from \in DOMAIN nodes /\ e.to \in DOMAIN nodes /\ e.kind = "ModuleContains"
        /\ e.to # e.from /\ e.from = NodeOf(corpus, nodes, corpus[c].name) /\ corpus[c].container
    BY DEF ContainerEdges, Edge
  <2>3. 0 \notin DOMAIN nodes
    BY <1>1 DEF NodesFit
  <2>4. /\ corpus[nodes[e.from]].name = corpus[c].name
        /\ corpus[nodes[e.to]].name = corpus[d].name
    BY <1>1, <2>1, <2>2, <2>3, NodeOfIs
  <2>5. c \in Named(Name(e.from)) /\ d \in Named(Name(e.to))
    BY <1>1, <1>2, <2>4
  <2> HIDE DEF Named, Says
  <2> QED BY <1>1, <2>1, <2>2, <2>5
<1>7. \A e \in ToSet(graph.edges) : e.from # e.to /\ Witness(e)
  BY <1>1, <1>5, <1>6
<1> QED BY <1>3, <1>7 DEF EdgesWitnessed, Name

\* Each call that can be resolved is an edge.
LEMMA BuiltResolves ==
  ASSUME NEW corpus \in Seq(RawChunk), NEW n, NEW b, Built(graph, corpus, n, b)
  PROVE  CallsResolve
<1> DEFINE nodes == graph.nodes
<1>1. /\ graph.corpus = corpus /\ NodesFit(corpus, n, nodes) /\ b \in SuffixLookups(corpus, nodes)
      /\ ToSet(graph.edges) = (UNION {ChunkEdges(corpus, nodes, b, c) : c \in DOMAIN corpus})
                                  \cup (UNION {ContainerEdges(corpus, nodes, c) : c \in DOMAIN corpus})
  BY DEF Built
<1>2. ASSUME NEW c \in DOMAIN corpus, NEW i \in DOMAIN nodes, corpus[c].name = corpus[nodes[i]].name,
             NEW t \in ToSet(corpus[c].calls), Meanings(corpus, nodes, t) # {},
             i \notin Meanings(corpus, nodes, t)
      PROVE  \E e \in ToSet(graph.edges) :
                 e.kind = "CallsFunction" /\ e.from = i /\ e.to \in Meanings(corpus, nodes, t)
  <2> HIDE DEF nodes
  <2>1. corpus[c] \in RawChunk
    OBVIOUS
  <2>2. corpus[c].calls \in Seq(Names)
    BY <2>1 DEF RawChunk
  <2>3. PICK k \in DOMAIN corpus[c].calls : corpus[c].calls[k] = t
    BY DEF ToSet
  <2>4. t \in Names
    BY <2>2, <2>3
  <2> DEFINE to == resolve_callee_fast(corpus, nodes, b, t)
             e == [from |-> i, to |-> to, kind |-> "CallsFunction"]
  <2>5. to \in Meanings(corpus, nodes, t) /\ to \in DOMAIN nodes
    BY <1>1, <1>2, <2>4, ResolvedIs
  <2>6. NodeOf(corpus, nodes, corpus[c].name) = i
    <3>1. \/ NodeOf(corpus, nodes, corpus[c].name) = 0 /\ corpus[nodes[i]].name # corpus[c].name
          \/ /\ NodeOf(corpus, nodes, corpus[c].name) \in DOMAIN nodes
             /\ corpus[nodes[NodeOf(corpus, nodes, corpus[c].name)]].name = corpus[c].name
      BY <1>1, NodeOfIs
    <3> QED BY <1>1, <1>2, <3>1 DEF NodesFit
  <2>7. i # 0
    BY <1>1 DEF NodesFit
  <2>8. e \in Edge(nodes)
    BY <2>5 DEF Edge
  <2>9. e.from = i /\ e.kind = "CallsFunction" /\ e.to = to /\ e.to # i
    BY <1>2, <2>5
  <2> HIDE DEF e, to
  <2>10. e \in TargetEdges(corpus, nodes, b, i, corpus[c].calls, "CallsFunction")
    BY <2>3, <2>8, <2>9 DEF TargetEdges, to
  <2>11. e \in ChunkEdges(corpus, nodes, b, c)
    BY <2>6, <2>7, <2>10 DEF ChunkEdges
  <2>12. e \in ToSet(graph.edges)
    BY <1>1, <2>11
  <2> QED BY <2>5, <2>9, <2>12
<1> DEFINE Name(i) == Symbol(graph.corpus, graph.nodes, i)
           Meant(t) == LET exact == {i \in DOMAIN graph.nodes : Name(i) = t}
                       IN IF exact # {} THEN exact
                          ELSE {i \in DOMAIN graph.nodes : <<Last(Name(i))>> = t}
<1>3. /\ \A i : Name(i) = corpus[nodes[i]].name
      /\ \A t : Meant(t) = Meanings(corpus, nodes, t)
  BY <1>1 DEF Symbol, Meanings
<1> HIDE DEF Name, Meant, nodes
<1>4. \A c \in DOMAIN graph.corpus, i \in DOMAIN nodes :
          graph.corpus[c].name = Name(i) =>
              \A t \in ToSet(graph.corpus[c].calls) :
                  Meant(t) # {} /\ i \notin Meant(t) =>
                      \E e \in ToSet(graph.edges) :
                          e.kind = "CallsFunction" /\ e.from = i /\ e.to \in Meant(t)
  <2> SUFFICES ASSUME NEW c \in DOMAIN corpus, NEW i \in DOMAIN nodes,
                      corpus[c].name = corpus[nodes[i]].name,
                      NEW t \in ToSet(corpus[c].calls),
                      Meanings(corpus, nodes, t) # {} /\ i \notin Meanings(corpus, nodes, t)
               PROVE  \E e \in ToSet(graph.edges) : /\ e.kind = "CallsFunction" /\ e.from = i
                                                    /\ e.to \in Meanings(corpus, nodes, t)
    BY <1>1, <1>3
  <2> QED BY <1>2
<1> QED BY <1>4 DEF CallsResolve, Name, Meant, nodes

-----------------------------------------------------------------------------
(* Walks over the graph.                                                   *)

Step(N) == [node : N, kind : {"CallsFunction", "Implements", "ModuleContains"}]

\* The steps from a node, by definition.
LedTo(g, node, dirs, kinds) ==
    {s \in Step(DOMAIN g.nodes) :
        \E e \in ToSet(g.edges), dir \in ToSet(dirs) :
            /\ e.kind \in kinds /\ node = neighbor_in_direction(e, IF dir = "out" THEN "in" ELSE "out")
            /\ s.node = neighbor_in_direction(e, dir) /\ s.kind = e.kind}

\* Turning a sequence round keeps its members.
LEMMA ReverseIs ==
  ASSUME NEW T, NEW s \in Seq(T)
  PROVE  Reverse(s) \in Seq(T) /\ ToSet(Reverse(s)) = ToSet(s)
<1> DEFINE N == Len(s)
           r == [i \in 1..N |-> s[(N - i) + 1]]
<1>1. s \in [1..N -> T] /\ N \in Nat /\ DOMAIN s = 1..N
  OBVIOUS
<1>2. Reverse(s) = r
  BY DEF Reverse
<1> HIDE DEF N
<1>3. \A i \in 1..N : (N - i) + 1 \in 1..N /\ (N - ((N - i) + 1)) + 1 = i
  BY <1>1
<1>4. r \in [1..N -> T]
  BY <1>1, <1>3
<1>5. \A i \in 1..N : r[i] = s[(N - i) + 1]
  OBVIOUS
<1> HIDE DEF r
<1>6. r \in Seq(T) /\ DOMAIN r = 1..N
  BY <1>1, <1>4
<1>7. ASSUME NEW i \in 1..N PROVE r[i] \in ToSet(s) /\ s[i] \in ToSet(r)
  <2>1. r[i] = s[(N - i) + 1] /\ (N - i) + 1 \in DOMAIN s
    BY <1>1, <1>3, <1>5
  <2>2. r[(N - i) + 1] = s[i]
    BY <1>3, <1>5
  <2> QED BY <1>1, <1>3, <1>6, <2>1, <2>2 DEF ToSet
<1> QED BY <1>1, <1>2, <1>6, <1>7 DEF ToSet

\* The steps from a node are exactly where its edges of these kinds lead.
LEMMA StepsAre ==
  ASSUME NEW g, g.edges \in Seq(Edge(g.nodes)), NEW node, NEW kinds, NEW dirs \in Seq({"out", "in"})
  PROVE  /\ Steps(g, node, dirs, kinds) \in Seq(Step(DOMAIN g.nodes))
         /\ ToSet(Steps(g, node, dirs, kinds)) = LedTo(g, node, dirs, kinds)
<1> DEFINE N == DOMAIN g.nodes
           At(dir) == {e \in ToSet(g.edges) : node = IF dir = "out" THEN e.from ELSE e.to}
           K == {e \in ToSet(g.edges) : e.kind \in kinds}
           There(dir) == Kept(edges_directed(g, node, dir), K)
           Made(e, dir) == [node |-> neighbor_in_direction(e, dir), kind |-> e.kind]
           Along(dir) == [i \in DOMAIN There(dir) |-> Made(There(dir)[i], dir)]
           ss == [i \in DOMAIN dirs |-> Along(dirs[i])]
           Seen(dir) == {Made(e, dir) : e \in At(dir) \cap K}
<1>1. Steps(g, node, dirs, kinds) = FlattenSeq(ss)
  BY DEF Steps, FarEnds
<1>2. ToSet(g.edges) \subseteq Edge(g.nodes)
  BY DEF ToSet
<1>3. ASSUME NEW dir \in {"out", "in"}
      PROVE  Along(dir) \in Seq(Step(N)) /\ ToSet(Along(dir)) = Seen(dir)
  <2> DEFINE back == Kept(g.edges, At(dir))
             out == There(dir)
  <2>1. back \in Seq(Edge(g.nodes)) /\ ToSet(back) = At(dir)
    <3>1. At(dir) \subseteq ToSet(g.edges)
      OBVIOUS
    <3> HIDE DEF At
    <3> QED BY <3>1, KeptHas
  <2>2. edges_directed(g, node, dir) = Reverse(back)
    BY DEF edges_directed
  <2> HIDE DEF back, At, K
  <2>3. Reverse(back) \in Seq(Edge(g.nodes)) /\ ToSet(Reverse(back)) = At(dir)
    BY <2>1, ReverseIs
  <2>4. out \in Seq(Edge(g.nodes)) /\ ToSet(out) = At(dir) \cap K
    <3>1. out = Kept(Reverse(back), K)
      BY <2>2
    <3>2. /\ Kept(Reverse(back), K) \in Seq(Edge(g.nodes))
          /\ ToSet(Kept(Reverse(back), K)) = ToSet(Reverse(back)) \cap K
      BY ONLY <2>3, KeptIs
    <3> QED BY ONLY <2>3, <3>1, <3>2
  <2>5. Along(dir) = [i \in DOMAIN out |-> Made(out[i], dir)]
    OBVIOUS
  <2> HIDE DEF out, Along
  <2>6. DOMAIN out = 1..Len(out) /\ Len(out) \in Nat /\ \A i \in DOMAIN out : out[i] \in Edge(g.nodes)
    BY <2>4
  <2>7. \A e \in Edge(g.nodes) : Made(e, dir) \in Step(N)
    BY DEF Edge, Step, neighbor_in_direction
  <2> HIDE DEF Made
  <2>8. Along(dir) \in [1..Len(out) -> Step(N)]
    BY <2>5, <2>6, <2>7
  <2>9. Along(dir) \in Seq(Step(N)) /\ DOMAIN Along(dir) = DOMAIN out
    BY <2>6, <2>8
  <2>10. ToSet(Along(dir)) = {Made(e, dir) : e \in ToSet(out)}
    BY <2>5, <2>9 DEF ToSet
  <2> QED BY <2>4, <2>9, <2>10
<1> HIDE DEF Along
<1>4. DOMAIN dirs = 1..Len(dirs) /\ Len(dirs) \in Nat /\ \A i \in DOMAIN dirs : dirs[i] \in {"out", "in"}
  OBVIOUS
<1>5. ss \in Seq(Seq(Step(N))) /\ DOMAIN ss = DOMAIN dirs
  <2>1. ss \in [1..Len(dirs) -> Seq(Step(N))]
    BY <1>3, <1>4
  <2> HIDE DEF ss
  <2> QED BY <1>4, <2>1
<1>6. \A i \in DOMAIN dirs : ToSet(ss[i]) = Seen(dirs[i])
  BY <1>3, <1>4
<1> HIDE DEF ss
<1>7. /\ FlattenSeq(ss) \in Seq(Step(N))
      /\ ToSet(FlattenSeq(ss)) = UNION {ToSet(ss[i]) : i \in DOMAIN ss}
  BY <1>5, FlattenIs
<1>8. UNION {ToSet(ss[i]) : i \in DOMAIN ss} = UNION {Seen(dir) : dir \in ToSet(dirs)}
  <2> HIDE DEF Seen
  <2>1. {ToSet(ss[i]) : i \in DOMAIN ss} = {Seen(dirs[i]) : i \in DOMAIN dirs}
    BY <1>5, <1>6
  <2>2. {Seen(dirs[i]) : i \in DOMAIN dirs} = {Seen(dir) : dir \in ToSet(dirs)}
    BY DEF ToSet
  <2> QED BY <2>1, <2>2
<1>9. ToSet(dirs) \subseteq {"out", "in"}
  BY <1>4 DEF ToSet
<1>10. UNION {Seen(dir) : dir \in ToSet(dirs)} = LedTo(g, node, dirs, kinds)
  <2>1. ASSUME NEW dir \in ToSet(dirs), NEW s \in Seen(dir) PROVE s \in LedTo(g, node, dirs, kinds)
    <3>1. PICK e \in At(dir) \cap K : s = Made(e, dir)
      OBVIOUS
    <3>2. /\ e \in ToSet(g.edges) /\ e.kind \in kinds /\ s.node = neighbor_in_direction(e, dir) /\ s.kind = e.kind
          /\ node = IF dir = "out" THEN e.from ELSE e.to
      BY <3>1
    <3>3. s \in Step(N)
      BY <1>2, <3>1 DEF Edge, Step, neighbor_in_direction
    <3>4. node = neighbor_in_direction(e, IF dir = "out" THEN "in" ELSE "out")
      BY <1>9, <3>2 DEF neighbor_in_direction
    <3> QED BY <3>2, <3>3, <3>4 DEF LedTo
  <2>2. ASSUME NEW s \in LedTo(g, node, dirs, kinds) PROVE \E dir \in ToSet(dirs) : s \in Seen(dir)
    <3>1. PICK e \in ToSet(g.edges), dir \in ToSet(dirs) :
              /\ e.kind \in kinds /\ node = neighbor_in_direction(e, IF dir = "out" THEN "in" ELSE "out")
              /\ s.node = neighbor_in_direction(e, dir) /\ s.kind = e.kind
      BY DEF LedTo
    <3>2. s = Made(e, dir)
      BY <3>1 DEF LedTo, Step
    <3>3. e \in At(dir) \cap K
      BY <1>9, <3>1 DEF neighbor_in_direction
    <3> QED BY <3>2, <3>3
  <2> HIDE DEF Seen
  <2> QED BY <2>1, <2>2
<1> QED BY <1>1, <1>7, <1>8, <1>10

\* A walk from a node has recorded every other node it has met, once.
WalkFits(w, N, start) ==
    /\ w \in [visited : SUBSET N, next : Seq(N), out : Seq(Step(N))]
    /\ ToSet(w.next) \subseteq w.visited
    /\ w.visited = {start} \cup {w.out[i].node : i \in DOMAIN w.out}
    /\ \A i \in DOMAIN w.out : w.out[i].node # start
    /\ \A i, j \in DOMAIN w.out : w.out[i].node = w.out[j].node => i = j

\* It has become another one by meeting what some steps lead to.
Grown(w, x, N, start, met) ==
    /\ WalkFits(x, N, start)
    /\ x.visited = w.visited \cup {s.node : s \in met}
    /\ ToSet(x.next) = ToSet(w.next) \cup ({s.node : s \in met} \ w.visited)
    /\ ToSet(x.out) \subseteq ToSet(w.out) \cup met

\* What appending one member does to a sequence and its set.
LEMMA AppendedOne ==
  ASSUME NEW T, NEW s \in Seq(T), NEW x \in T
  PROVE  /\ Append(s, x) \in Seq(T) /\ Len(Append(s, x)) = Len(s) + 1
         /\ ToSet(Append(s, x)) = ToSet(s) \cup {x}
         /\ DOMAIN Append(s, x) = (DOMAIN s) \cup {Len(s) + 1} /\ Len(s) + 1 \notin DOMAIN s
         /\ Append(s, x)[Len(s) + 1] = x /\ \A i \in DOMAIN s : Append(s, x)[i] = s[i]
<1>1. /\ Append(s, x) \in Seq(T) /\ Len(Append(s, x)) = Len(s) + 1
      /\ DOMAIN Append(s, x) = (DOMAIN s) \cup {Len(s) + 1} /\ Len(s) + 1 \notin DOMAIN s
      /\ Append(s, x)[Len(s) + 1] = x /\ \A i \in DOMAIN s : Append(s, x)[i] = s[i]
  OBVIOUS
<1> DEFINE u == Append(s, x)
<1> HIDE DEF u
<1>2. ToSet(u) = ToSet(s) \cup {x}
  BY <1>1 DEF ToSet, u
<1> QED BY <1>1, <1>2 DEF u

\* Recording a neighbour grows the walk by that neighbour alone.
LEMMA RecordGrows ==
  ASSUME NEW N, NEW start, NEW w, WalkFits(w, N, start), NEW s \in Step(N)
  PROVE  Grown(w, record_neighbor(w, s.node, s.kind), N, start, {s})
<1> DEFINE x == record_neighbor(w, s.node, s.kind)
<1>0. /\ w.visited \subseteq N /\ w.next \in Seq(N) /\ w.out \in Seq(Step(N))
      /\ s.node \in N /\ s = [node |-> s.node, kind |-> s.kind]
  BY DEF WalkFits, Step
<1>1. CASE s.node \in w.visited
  <2>1. x = w
    BY <1>1 DEF record_neighbor
  <2>2. {t.node : t \in {s}} = {s.node}
    OBVIOUS
  <2> HIDE DEF x
  <2> QED BY <1>1, <2>1, <2>2 DEF Grown, x
<1>2. CASE s.node \notin w.visited
  <2> DEFINE next == Append(w.next, s.node)
             out == Append(w.out, s)
  <2>1. x = [visited |-> w.visited \cup {s.node}, next |-> next, out |-> out]
    BY <1>0, <1>2 DEF record_neighbor
  <2>2. /\ next \in Seq(N) /\ ToSet(next) = ToSet(w.next) \cup {s.node}
    BY <1>0, AppendedOne
  <2>3. /\ out \in Seq(Step(N)) /\ ToSet(out) = ToSet(w.out) \cup {s}
        /\ DOMAIN out = (DOMAIN w.out) \cup {Len(w.out) + 1} /\ Len(w.out) + 1 \notin DOMAIN w.out
        /\ out[Len(w.out) + 1] = s /\ \A i \in DOMAIN w.out : out[i] = w.out[i]
    BY <1>0, AppendedOne
  <2> HIDE DEF next, out, x
  <2>4. x.visited = w.visited \cup {s.node} /\ x.next = next /\ x.out = out
    BY <2>1
  <2>5. x \in [visited : SUBSET N, next : Seq(N), out : Seq(Step(N))]
    BY <1>0, <2>1, <2>2, <2>3
  <2>6. {t.node : t \in {s}} = {s.node}
    OBVIOUS
  <2>7. ToSet(x.next) = ToSet(w.next) \cup ({s.node} \ w.visited) /\ ToSet(x.next) \subseteq x.visited
    BY <1>2, <2>2, <2>4 DEF WalkFits
  <2>8. x.visited = {start} \cup {x.out[i].node : i \in DOMAIN x.out}
    <3>1. w.visited = {start} \cup {w.out[i].node : i \in DOMAIN w.out}
      BY DEF WalkFits
    <3>2. {out[i].node : i \in DOMAIN out} = {w.out[i].node : i \in DOMAIN w.out} \cup {s.node}
      BY <2>3
    <3> QED BY <2>4, <3>1, <3>2
  <2>9. \A i \in DOMAIN x.out : x.out[i].node # start
    BY <1>2, <2>3, <2>4 DEF WalkFits
  <2>10. ASSUME NEW i \in DOMAIN out, NEW j \in DOMAIN out, out[i].node = out[j].node PROVE i = j
    <3>0. \A k \in DOMAIN w.out : w.out[k].node # s.node
      BY <1>2 DEF WalkFits
    <3>1. CASE i \in DOMAIN w.out /\ j \in DOMAIN w.out
      BY <2>3, <2>10, <3>1 DEF WalkFits
    <3>2. CASE i = Len(w.out) + 1 /\ j \in DOMAIN w.out
      BY <2>3, <2>10, <3>0, <3>2
    <3>3. CASE i \in DOMAIN w.out /\ j = Len(w.out) + 1
      BY <2>3, <2>10, <3>0, <3>3
    <3> QED BY <2>3, <3>1, <3>2, <3>3
  <2>11. WalkFits(x, N, start)
    BY <2>4, <2>5, <2>7, <2>8, <2>9, <2>10 DEF WalkFits
  <2> QED BY <2>3, <2>4, <2>6, <2>7, <2>11 DEF Grown, x
<1> QED BY <1>1, <1>2

\* Meeting more, one after the other.
LEMMA GrownTwice ==
  ASSUME NEW N, NEW start, NEW w, NEW x, NEW y, NEW met, NEW more,
         Grown(w, x, N, start, met), Grown(x, y, N, start, more)
  PROVE  Grown(w, y, N, start, met \cup more)
<1>1. {s.node : s \in met \cup more} = {s.node : s \in met} \cup {s.node : s \in more}
  OBVIOUS
<1> QED BY <1>1 DEF Grown

\* Expanding a node meets what its steps lead to.
LEMMA ExpandNodeGrows ==
  ASSUME NEW g, g.edges \in Seq(Edge(g.nodes)), NEW node, NEW kinds, NEW dirs \in Seq({"out", "in"}),
         NEW start, NEW w, WalkFits(w, DOMAIN g.nodes, start)
  PROVE  Grown(w, expand_node(g, w, node, dirs, kinds), DOMAIN g.nodes, start, LedTo(g, node, dirs, kinds))
<1> DEFINE N == DOMAIN g.nodes
           steps == Steps(g, node, dirs, kinds)
           M == Len(steps)
           Met(i) == {steps[k] : k \in 1..i}
           V == {x \in [visited : SUBSET N, next : Seq(N), out : Seq(Step(N))] : WalkFits(x, N, start)}
           Goes(h) == h = [i \in 0..Len(steps) |-> IF i = 0 THEN w
                               ELSE record_neighbor(h[i - 1], steps[i].node, steps[i].kind)]
           f == [i \in 1..M |-> [x \in V |-> record_neighbor(x, steps[i].node, steps[i].kind)]]
<1>1. steps \in Seq(Step(N)) /\ ToSet(steps) = LedTo(g, node, dirs, kinds)
  BY StepsAre
<1>2. expand_node(g, w, node, dirs, kinds) = (CHOOSE h : Goes(h))[Len(steps)]
  BY DEF expand_node, record_all
<1> HIDE DEF steps
<1>3. M \in Nat /\ \A i \in 1..M : steps[i] \in Step(N)
  BY <1>1
<1>4. \A i \in 1..M, x \in V : record_neighbor(x, steps[i].node, steps[i].kind) \in V
  <2> SUFFICES ASSUME NEW i \in 1..M, NEW x \in V
               PROVE  record_neighbor(x, steps[i].node, steps[i].kind) \in V
    OBVIOUS
  <2>1. Grown(x, record_neighbor(x, steps[i].node, steps[i].kind), N, start, {steps[i]})
    BY <1>3, RecordGrows
  <2> QED BY <2>1 DEF Grown, WalkFits
<1>5. w \in V
  BY DEF WalkFits
<1> HIDE DEF V
<1>6. f \in [1..M -> [V -> V]]
  BY <1>4
<1>7. \E h : Goes(h)
  <2> HIDE DEF f, Goes, M
  <2>1. PICK h : Runs(h, M, V, w, f)
    BY <1>3, <1>5, <1>6, Recursion
  <2>2. ASSUME NEW i \in 0..M
        PROVE  h[i] = IF i = 0 THEN w ELSE record_neighbor(h[i - 1], steps[i].node, steps[i].kind)
    <3>1. CASE i = 0
      BY <2>1, <3>1 DEF Runs
    <3>2. CASE i # 0
      <4>1. i \in 1..M /\ i - 1 \in 0..M
        BY <1>3, <3>2
      <4>2. h[i - 1] \in V /\ h[i] = f[i][h[i - 1]]
        BY <2>1, <4>1 DEF Runs
      <4>3. f[i][h[i - 1]] = record_neighbor(h[i - 1], steps[i].node, steps[i].kind)
        BY <4>1, <4>2 DEF f
      <4> QED BY <3>2, <4>2, <4>3
    <3> QED BY <3>1, <3>2
  <2>3. h = [i \in 0..M |-> h[i]]
    BY <2>1 DEF Runs
  <2> QED BY <2>2, <2>3 DEF Goes, M
<1> DEFINE H == CHOOSE h : Goes(h)
<1>8. Goes(H)
  <2> HIDE DEF Goes
  <2> QED BY <1>7
<1> HIDE DEF H
<1>9. \A i \in 0..M : H[i] = IF i = 0 THEN w ELSE record_neighbor(H[i - 1], steps[i].node, steps[i].kind)
  BY <1>8
<1> DEFINE G == {i \in 0..M : Grown(w, H[i], N, start, Met(i))}
<1> HIDE DEF M, Goes, f
<1>10. 0 \in G
  <2>1. 0 \in 0..M /\ Met(0) = {}
    BY <1>3
  <2>2. H[0] = w
    BY ONLY <1>9, <2>1
  <2>3. Grown(w, w, N, start, {})
    BY DEF Grown
  <2> HIDE DEF Met
  <2> QED BY <2>1, <2>2, <2>3
<1>11. ASSUME NEW i \in 1..M, i - 1 \in G PROVE i \in G
  <2>1. i \in 0..M /\ i # 0 /\ i - 1 \in 0..M
    BY <1>3
  <2>2. H[i] = record_neighbor(H[i - 1], steps[i].node, steps[i].kind)
    BY <1>9, <2>1
  <2>3. Met(i) = Met(i - 1) \cup {steps[i]}
    <3>1. 1..i = (1..(i - 1)) \cup {i}
      BY <1>3
    <3> QED BY <3>1
  <2> HIDE DEF Met
  <2>4. Grown(w, H[i - 1], N, start, Met(i - 1))
    BY <1>11
  <2>5. Grown(H[i - 1], H[i], N, start, {steps[i]})
    <3>1. WalkFits(H[i - 1], N, start)
      BY <2>4 DEF Grown
    <3>2. steps[i] \in Step(N)
      BY <1>3
    <3>3. Grown(H[i - 1], record_neighbor(H[i - 1], steps[i].node, steps[i].kind), N, start, {steps[i]})
      BY ONLY <3>1, <3>2, RecordGrows
    <3> QED BY ONLY <2>2, <3>3
  <2> QED BY <2>1, <2>3, <2>4, <2>5, GrownTwice
<1>12. M \in G
  <2> HIDE DEF G
  <2>1. \A i \in 0..M : i \in G
    BY <1>3, <1>10, <1>11, UpTo
  <2> QED BY <1>3, <2>1
<1>13. Met(M) = ToSet(steps)
  BY <1>1 DEF ToSet, M
<1> QED BY <1>1, <1>2, <1>12, <1>13 DEF H, M

\* The steps from the nodes of a set.
Led(g, S, dirs, kinds) == UNION {LedTo(g, node, dirs, kinds) : node \in S}

\* A walk has gone on to another queue: of what it met, that which it had not visited.
Passed(w, x, N, start, met) ==
    /\ WalkFits(x, N, start)
    /\ x.visited = w.visited \cup {s.node : s \in met}
    /\ ToSet(x.next) = {s.node : s \in met} \ w.visited
    /\ ToSet(x.out) \subseteq ToSet(w.out) \cup met

\* Expanding a queue meets what the steps from its nodes lead to.
LEMMA ExpandQueueGrows ==
  ASSUME NEW g, g.edges \in Seq(Edge(g.nodes)), NEW kinds, NEW dirs \in Seq({"out", "in"}),
         NEW start, NEW w, WalkFits(w, DOMAIN g.nodes, start)
  PROVE  Passed(w, expand_queue(g, w, dirs, kinds), DOMAIN g.nodes, start,
                Led(g, ToSet(w.next), dirs, kinds))
<1> DEFINE N == DOMAIN g.nodes
           q == w.next
           M == Len(q)
           z == [w EXCEPT !.next = <<>>]
           Met(i) == UNION {LedTo(g, q[k], dirs, kinds) : k \in 1..i}
           V == {x \in [visited : SUBSET N, next : Seq(N), out : Seq(Step(N))] : WalkFits(x, N, start)}
           Goes(h) == h = [i \in 0..Len(w.next) |-> IF i = 0 THEN [w EXCEPT !.next = <<>>]
                               ELSE expand_node(g, h[i - 1], w.next[i], dirs, kinds)]
           f == [i \in 1..M |-> [x \in V |-> expand_node(g, x, q[i], dirs, kinds)]]
<1>1. q \in Seq(N) /\ M \in Nat /\ DOMAIN q = 1..M
  BY DEF WalkFits
<1>2. expand_queue(g, w, dirs, kinds) = (CHOOSE h : Goes(h))[Len(w.next)]
  BY DEF expand_queue
<1>3. /\ z.visited = w.visited /\ z.out = w.out /\ z.next = <<>> /\ ToSet(<<>>) = {}
      /\ WalkFits(z, N, start)
  <2>1. w \in [visited : SUBSET N, next : Seq(N), out : Seq(Step(N))] /\ <<>> \in Seq(N)
    BY DEF WalkFits
  <2>2. /\ z \in [visited : SUBSET N, next : Seq(N), out : Seq(Step(N))]
        /\ z.visited = w.visited /\ z.out = w.out /\ z.next = <<>>
    BY ONLY <2>1
  <2>3. ToSet(<<>>) = {}
    BY DEF ToSet
  <2> HIDE DEF z
  <2> QED BY <2>2, <2>3 DEF WalkFits
<1>4. \A i \in 1..M, x \in V : expand_node(g, x, q[i], dirs, kinds) \in V
  <2> SUFFICES ASSUME NEW i \in 1..M, NEW x \in V
               PROVE  expand_node(g, x, q[i], dirs, kinds) \in V
    OBVIOUS
  <2>1. Grown(x, expand_node(g, x, q[i], dirs, kinds), N, start, LedTo(g, q[i], dirs, kinds))
    BY ExpandNodeGrows
  <2> QED BY <2>1 DEF Grown, WalkFits
<1>5. z \in V
  BY <1>3 DEF WalkFits
<1> HIDE DEF V
<1>6. f \in [1..M -> [V -> V]]
  BY <1>4
<1>7. \E h : Goes(h)
  <2> HIDE DEF f, Goes, M, q
  <2>1. PICK h : Runs(h, M, V, z, f)
    BY <1>1, <1>5, <1>6, Recursion
  <2>2. ASSUME NEW i \in 0..M
        PROVE  h[i] = IF i = 0 THEN z ELSE expand_node(g, h[i - 1], q[i], dirs, kinds)
    <3>1. CASE i = 0
      BY <2>1, <3>1 DEF Runs
    <3>2. CASE i # 0
      <4>1. i \in 1..M /\ i - 1 \in 0..M
        BY <1>1, <3>2
      <4>2. h[i - 1] \in V /\ h[i] = f[i][h[i - 1]]
        BY <2>1, <4>1 DEF Runs
      <4>3. f[i][h[i - 1]] = expand_node(g, h[i - 1], q[i], dirs, kinds)
        BY <4>1, <4>2 DEF f
      <4> QED BY <3>2, <4>2, <4>3
    <3> QED BY <3>1, <3>2
  <2>3. h = [i \in 0..M |-> h[i]]
    BY <2>1 DEF Runs
  <2> HIDE DEF z
  <2>4. h = [i \in 0..M |-> IF i = 0 THEN z ELSE expand_node(g, h[i - 1], q[i], dirs, kinds)]
    BY ONLY <2>2, <2>3
  <2> QED BY ONLY <2>4, Zenon DEF Goes, M, q, z
<1> DEFINE H == CHOOSE h : Goes(h)
<1>8. Goes(H)
  <2> HIDE DEF Goes
  <2> QED BY <1>7
<1> HIDE DEF H
<1>9. \A i \in 0..M : H[i] = IF i = 0 THEN z ELSE expand_node(g, H[i - 1], q[i], dirs, kinds)
  BY <1>8
<1> DEFINE G == {i \in 0..M : Grown(z, H[i], N, start, Met(i))}
<1> HIDE DEF M, Goes, f, q, z
<1>10. 0 \in G
  <2>1. 0 \in 0..M /\ Met(0) = {}
    BY <1>1
  <2>2. H[0] = z
    BY ONLY <1>9, <2>1
  <2>3. Grown(z, z, N, start, {})
    BY <1>3 DEF Grown
  <2> HIDE DEF Met
  <2> QED BY <2>1, <2>2, <2>3
<1>11. ASSUME NEW i \in 1..M, i - 1 \in G PROVE i \in G
  <2>1. i \in 0..M /\ i # 0 /\ i - 1 \in 0..M
    BY <1>1
  <2>2. H[i] = expand_node(g, H[i - 1], q[i], dirs, kinds)
    BY <1>9, <2>1
  <2>3. Met(i) = Met(i - 1) \cup LedTo(g, q[i], dirs, kinds)
    <3>1. 1..i = (1..(i - 1)) \cup {i}
      BY <1>1
    <3> QED BY <3>1
  <2> HIDE DEF Met
  <2>4. Grown(z, H[i - 1], N, start, Met(i - 1))
    BY <1>11
  <2>5. Grown(H[i - 1], H[i], N, start, LedTo(g, q[i], dirs, kinds))
    <3>1. WalkFits(H[i - 1], N, start)
      BY <2>4 DEF Grown
    <3>2. Grown(H[i - 1], expand_node(g, H[i - 1], q[i], dirs, kinds), N, start, LedTo(g, q[i], dirs, kinds))
      BY <3>1, ExpandNodeGrows
    <3> QED BY ONLY <2>2, <3>2
  <2> QED BY <2>1, <2>3, <2>4, <2>5, GrownTwice
<1>12. M \in G
  <2> HIDE DEF G
  <2>1. \A i \in 0..M : i \in G
    BY <1>1, <1>10, <1>11, UpTo
  <2> QED BY <1>1, <2>1
<1>13. Met(M) = Led(g, ToSet(w.next), dirs, kinds)
  <2>1. ToSet(w.next) = {q[k] : k \in 1..M}
    BY <1>1 DEF ToSet, q
  <2> QED BY <2>1 DEF Led
<1>14. expand_queue(g, w, dirs, kinds) = H[M]
  BY <1>2 DEF H, M, q
<1> HIDE DEF Met
<1>15. Grown(z, H[M], N, start, Met(M))
  BY <1>12
<1>16. Passed(w, H[M], N, start, Met(M))
  BY <1>3, <1>15 DEF Grown, Passed
<1> QED BY <1>13, <1>14, <1>16

\* What the nodes of a set lead to.
Beside(g, S, dirs, kinds) == {s.node : s \in Led(g, S, dirs, kinds)}

\* The walk level by level: what was visited grows by what it leads to, and what is noted
\* of a node is a step that led to it.
Levels(L, g, start, hops, dirs, kinds) ==
    /\ L[0].visited = {start} /\ L[0].out = <<>>
    /\ \A d \in 0..hops : WalkFits(L[d], DOMAIN g.nodes, start)
    /\ \A d \in 1..hops :
          /\ L[d].visited = L[d - 1].visited \cup Beside(g, L[d - 1].visited, dirs, kinds)
          /\ ToSet(L[d].out) \subseteq ToSet(L[d - 1].out)
                \cup Led(g, L[d - 1].visited, dirs, kinds)

\* A walk is what its last level has noted.
LEMMA BfsLevels ==
  ASSUME NEW g, g.edges \in Seq(Edge(g.nodes)), NEW kinds, NEW dirs \in Seq({"out", "in"}),
         NEW start \in DOMAIN g.nodes, NEW hops \in Nat
  PROVE  \E L : bfs_walk(g, start, hops, dirs, kinds) = L[hops].out /\ Levels(L, g, start, hops, dirs, kinds)
<1> DEFINE N == DOMAIN g.nodes
           b == [visited |-> {start}, next |-> <<start>>, out |-> <<>>]
           V == {x \in [visited : SUBSET N, next : Seq(N), out : Seq(Step(N))] : WalkFits(x, N, start)}
           Goes(h) == h = [d \in 0..hops |->
                              IF d = 0 THEN [visited |-> {start}, next |-> <<start>>, out |-> <<>>]
                              ELSE expand_queue(g, h[d - 1], dirs, kinds)]
           f == [d \in 1..hops |-> [x \in V |-> expand_queue(g, x, dirs, kinds)]]
<1>1. bfs_walk(g, start, hops, dirs, kinds) = (CHOOSE h : Goes(h))[hops].out
  BY DEF bfs_walk
<1>2. b.visited = {start} /\ b.next = <<start>> /\ b.out = <<>> /\ ToSet(<<start>>) = {start}
  BY DEF ToSet
<1>3. WalkFits(b, N, start)
  <2>1. b \in [visited : SUBSET N, next : Seq(N), out : Seq(Step(N))]
    <3>1. start \in N
      OBVIOUS
    <3> HIDE DEF N
    <3>2. {start} \in SUBSET N /\ <<start>> \in Seq(N) /\ <<>> \in Seq(Step(N))
      BY ONLY <3>1
    <3> QED BY ONLY <3>2
  <2>2. DOMAIN b.out = {}
    BY <1>2
  <2> HIDE DEF b
  <2> QED BY <1>2, <2>1, <2>2 DEF WalkFits
<1>4. \A d \in 1..hops, x \in V : expand_queue(g, x, dirs, kinds) \in V
  <2> SUFFICES ASSUME NEW x \in V PROVE expand_queue(g, x, dirs, kinds) \in V
    OBVIOUS
  <2>1. Passed(x, expand_queue(g, x, dirs, kinds), N, start, Led(g, ToSet(x.next), dirs, kinds))
    BY ExpandQueueGrows
  <2> QED BY <2>1 DEF Passed, WalkFits
<1>5. b \in V
  BY <1>3 DEF WalkFits
<1> HIDE DEF V
<1>6. f \in [1..hops -> [V -> V]]
  BY <1>4
<1>7. \E h : Goes(h)
  <2> HIDE DEF f, Goes, b
  <2>1. PICK h : Runs(h, hops, V, b, f)
    BY <1>5, <1>6, Recursion
  <2>2. ASSUME NEW d \in 0..hops
        PROVE  h[d] = IF d = 0 THEN b ELSE expand_queue(g, h[d - 1], dirs, kinds)
    <3>1. CASE d = 0
      BY <2>1, <3>1 DEF Runs
    <3>2. CASE d # 0
      <4>1. d \in 1..hops /\ d - 1 \in 0..hops
        BY <3>2
      <4>2. h[d - 1] \in V /\ h[d] = f[d][h[d - 1]]
        BY <2>1, <4>1 DEF Runs
      <4>3. f[d][h[d - 1]] = expand_queue(g, h[d - 1], dirs, kinds)
        BY <4>1, <4>2 DEF f
      <4> QED BY <3>2, <4>2, <4>3
    <3> QED BY <3>1, <3>2
  <2>3. h = [d \in 0..hops |-> h[d]]
    BY <2>1 DEF Runs
  <2> QED BY <2>2, <2>3 DEF Goes, b
<1> DEFINE L == CHOOSE h : Goes(h)
<1>8. Goes(L)
  <2> HIDE DEF Goes
  <2> QED BY <1>7
<1> HIDE DEF L
<1>9. \A d \in 0..hops : L[d] = IF d = 0 THEN b ELSE expand_queue(g, L[d - 1], dirs, kinds)
  BY <1>8
<1> DEFINE Closed(w) == {s.node : s \in Led(g, w.visited \ ToSet(w.next), dirs, kinds)} \subseteq w.visited
           Goal(d) == d = 0 \/
              /\ L[d].visited = L[d - 1].visited \cup Beside(g, L[d - 1].visited, dirs, kinds)
              /\ ToSet(L[d].out) \subseteq ToSet(L[d - 1].out) \cup Led(g, L[d - 1].visited, dirs, kinds)
           G == {d \in 0..hops : WalkFits(L[d], N, start) /\ Closed(L[d]) /\ Goal(d)}
<1> HIDE DEF Goes, f, b
<1>10. L[0] = b /\ 0 \in 0..hops
  <2>1. 0 \in 0..hops
    OBVIOUS
  <2> QED BY ONLY <1>9, <2>1
<1>11. 0 \in G
  <2>1. b.visited \ ToSet(b.next) = {}
    BY <1>2
  <2>2. Closed(b)
    <3>1. Led(g, {}, dirs, kinds) = {}
      BY DEF Led
    <3> QED BY ONLY <2>1, <3>1
  <2> HIDE DEF Closed
  <2> QED BY <1>3, <1>10, <2>2
<1>12. ASSUME NEW d \in 1..hops, d - 1 \in G PROVE d \in G
  <2> DEFINE w == L[d - 1]
             x == L[d]
             met == Led(g, ToSet(w.next), dirs, kinds)
  <2>1. d \in 0..hops /\ d # 0
    OBVIOUS
  <2>2. x = expand_queue(g, w, dirs, kinds)
    BY <1>9, <2>1
  <2>3. WalkFits(w, N, start) /\ Closed(w)
    BY <1>12
  <2> HIDE DEF w, x
  <2>4. Passed(w, expand_queue(g, w, dirs, kinds), N, start, met)
    BY <2>3, ExpandQueueGrows
  <2>6. /\ WalkFits(x, N, start) /\ x.visited = w.visited \cup {s.node : s \in met}
        /\ ToSet(x.next) = {s.node : s \in met} \ w.visited
        /\ ToSet(x.out) \subseteq ToSet(w.out) \cup met
    BY <2>2, <2>4 DEF Passed
  <2>7. ToSet(w.next) \subseteq w.visited
    BY <2>3 DEF WalkFits
  <2>8. Led(g, w.visited, dirs, kinds) = met \cup Led(g, w.visited \ ToSet(w.next), dirs, kinds)
    BY <2>7 DEF Led
  <2>9. x.visited = w.visited \cup {s.node : s \in Led(g, w.visited, dirs, kinds)}
    BY <2>3, <2>6, <2>8
  <2>10. x.visited = w.visited \cup Beside(g, w.visited, dirs, kinds)
    BY <2>9 DEF Beside
  <2>11. x.visited \ ToSet(x.next) \subseteq w.visited
    BY <2>6
  <2>12. Closed(x)
    <3>1. Led(g, x.visited \ ToSet(x.next), dirs, kinds) \subseteq Led(g, w.visited, dirs, kinds)
      BY <2>11 DEF Led
    <3> QED BY <2>9, <3>1
  <2>13. ToSet(x.out) \subseteq ToSet(w.out) \cup Led(g, w.visited, dirs, kinds)
    BY <2>6, <2>8
  <2> HIDE DEF Closed, met
  <2> QED BY <2>1, <2>6, <2>10, <2>12, <2>13 DEF w, x
<1>13. \A d \in 0..hops : d \in G
  <2> HIDE DEF G
  <2> QED BY <1>11, <1>12, UpTo
<1>14. Levels(L, g, start, hops, dirs, kinds)
  <2>1. \A d \in 1..hops : d \in 0..hops /\ d # 0
    OBVIOUS
  <2> HIDE DEF Closed
  <2> QED BY <1>2, <1>10, <1>13, <2>1 DEF Levels
<1> QED BY <1>1, <1>14 DEF L

\* R[n][i] is what n steps along E reach from i.
Succ(N, E, S) == {k \in N : \E j \in S : <<j, k>> \in E}
Reach(R, N, E, h) ==
    /\ R \in [0..h -> [N -> SUBSET N]]
    /\ \A i \in N : R[0][i] = {i}
    /\ \A n \in 1..h, i \in N : R[n][i] = R[n - 1][i] \cup Succ(N, E, R[n - 1][i])

\* What is reached in at most h steps is a function of the steps.
LEMMA ReachExists ==
  ASSUME NEW N, NEW E, NEW h \in Nat
  PROVE  \E R : Reach(R, N, E, h)
<1> DEFINE V == [N -> SUBSET N]
           b == [i \in N |-> {i}]
           On(r) == [i \in N |-> r[i] \cup Succ(N, E, r[i])]
           f == [n \in 1..h |-> [r \in V |-> On(r)]]
<1>1. b \in V /\ \A i \in N : b[i] = {i}
  OBVIOUS
<1>2. \A r \in V : On(r) \in V
  BY DEF Succ
<1> HIDE DEF b
<1>3. f \in [1..h -> [V -> V]]
  <2> HIDE DEF On, V
  <2> QED BY <1>2
<1>4. PICK R : Runs(R, h, V, b, f)
  <2> HIDE DEF f, V
  <2> QED BY <1>1, <1>3, Recursion
<1>5. R \in [0..h -> V] /\ R[0] = b
  BY <1>4 DEF Runs
<1>6. ASSUME NEW n \in 1..h, NEW i \in N PROVE R[n][i] = R[n - 1][i] \cup Succ(N, E, R[n - 1][i])
  <2>1. n - 1 \in 0..h
    OBVIOUS
  <2>2. R[n - 1] \in V
    <3> HIDE DEF V
    <3> QED BY <1>5, <2>1
  <2>3. R[n] = f[n][R[n - 1]]
    BY <1>4 DEF Runs
  <2>4. f[n][R[n - 1]] = On(R[n - 1])
    <3> HIDE DEF V, On
    <3> QED BY <2>2
  <2> QED BY <2>3, <2>4
<1> QED BY <1>1, <1>5, <1>6 DEF Reach

\* It is the only function that starts so and goes on so.
LEMMA ReachOne ==
  ASSUME NEW N, NEW E, NEW h \in Nat, NEW R, Reach(R, N, E, h), NEW i \in N, NEW L,
         L[0] = {i}, \A n \in 1..h : L[n] = L[n - 1] \cup Succ(N, E, L[n - 1])
  PROVE  \A n \in 0..h : L[n] = R[n][i]
<1> DEFINE G == {n \in 0..h : L[n] = R[n][i]}
<1>0. /\ R[0][i] = {i} /\ 0 \in 0..h
      /\ \A n \in 1..h : n \in 0..h /\ R[n][i] = R[n - 1][i] \cup Succ(N, E, R[n - 1][i])
  BY DEF Reach
<1>1. 0 \in G
  BY <1>0
<1>2. ASSUME NEW n \in 1..h, n - 1 \in G PROVE n \in G
  <2>1. L[n - 1] = R[n - 1][i] /\ L[n] = L[n - 1] \cup Succ(N, E, L[n - 1])
    BY <1>2
  <2>2. L[n] = R[n][i]
    BY ONLY <1>0, <2>1, n \in 1..h
  <2> QED BY <1>0, <2>2
<1>3. \A n \in 0..h : n \in G
  <2> HIDE DEF G
  <2> QED BY <1>1, <1>2, UpTo
<1> QED BY <1>3

\* One reaches oneself.
LEMMA ReachSelf ==
  ASSUME NEW N, NEW E, NEW h \in Nat, NEW R, Reach(R, N, E, h)
  PROVE  \A n \in 0..h : \A i \in N : i \in R[n][i]
<1> DEFINE G == {n \in 0..h : \A i \in N : i \in R[n][i]}
<1>1. 0 \in G
  BY DEF Reach
<1>2. ASSUME NEW n \in 1..h, n - 1 \in G PROVE n \in G
  BY <1>2 DEF Reach
<1>3. \A n \in 0..h : n \in G
  <2> HIDE DEF G
  <2> QED BY <1>1, <1>2, UpTo
<1> QED BY <1>3

\* The first step may be split off as well as the last.
Beyond(N, E, r, i) == {i} \cup {k \in N : \E m \in N : <<i, m>> \in E /\ k \in r[m]}

\* So each count of steps is one first step and the rest.
LEMMA ReachFirst ==
  ASSUME NEW N, NEW E, NEW h \in Nat, NEW R, Reach(R, N, E, h)
  PROVE  \A n \in 1..h : \A i \in N : R[n][i] = Beyond(N, E, R[n - 1], i)
<1> DEFINE First(n, i) == {i} \cup {k \in N : \E m \in N : <<i, m>> \in E /\ k \in R[n - 1][m]}
           G == {n \in 0..h : n # 0 => \A i \in N : R[n][i] = First(n, i)}
<1>1. 0 \in G
  OBVIOUS
<1>2. ASSUME NEW n \in 1..h, n - 1 \in G PROVE n \in G
  <2>0. n \in 0..h /\ n - 1 \in 0..h
    OBVIOUS
  <2>1. ASSUME NEW i \in N PROVE R[n][i] = First(n, i)
    <3>1. R[n][i] = R[n - 1][i] \cup Succ(N, E, R[n - 1][i])
      BY DEF Reach
    <3>2. CASE n = 1
      <4>1. R[n - 1][i] = {i} /\ \A m \in N : R[n - 1][m] = {m}
        BY <3>2 DEF Reach
      <4>2. First(n, i) = {i} \cup {k \in N : <<i, k>> \in E}
        BY <4>1
      <4> QED BY <3>1, <4>1, <4>2 DEF Succ
    <3>3. CASE n # 1
      <4>1. n - 1 # 0 /\ n - 1 \in 1..h
        BY <3>3
      <4>2. R[n - 1][i] = First(n - 1, i)
        BY <1>2, <4>1
      <4>3. \A m \in N : R[n - 1][m] = R[(n - 1) - 1][m] \cup Succ(N, E, R[(n - 1) - 1][m])
        BY <4>1 DEF Reach
      <4>4. \A m \in N : m \in R[n - 1][m]
        BY <2>0, ReachSelf
      <4>5. R[n][i] \subseteq First(n, i)
        <5>1. ASSUME NEW k \in R[n - 1][i] PROVE k \in First(n, i)
          <6>1. CASE k # i
            <7>1. PICK m \in N : k \in N /\ <<i, m>> \in E /\ k \in R[(n - 1) - 1][m]
              BY <4>2, <6>1
            <7>2. k \in R[n - 1][m]
              BY <4>3, <7>1
            <7> QED BY <7>1, <7>2
          <6> QED BY <6>1
        <5>2. ASSUME NEW k \in Succ(N, E, R[n - 1][i]) PROVE k \in First(n, i)
          <6>1. PICK j \in R[n - 1][i] : k \in N /\ <<j, k>> \in E
            BY DEF Succ
          <6>2. CASE j = i
            BY <4>4, <6>1, <6>2
          <6>3. CASE j # i
            <7>1. PICK m \in N : <<i, m>> \in E /\ j \in R[(n - 1) - 1][m]
              BY <4>2, <6>1, <6>3
            <7>2. k \in R[n - 1][m]
              BY <4>3, <6>1, <7>1 DEF Succ
            <7> QED BY <6>1, <7>1, <7>2
          <6> QED BY <6>2, <6>3
        <5> HIDE DEF First
        <5> QED BY <3>1, <5>1, <5>2
      <4>6. First(n, i) \subseteq R[n][i]
        <5>1. i \in R[n][i]
          BY <2>0, ReachSelf
        <5>2. ASSUME NEW k \in N, NEW m \in N, <<i, m>> \in E, k \in R[n - 1][m] PROVE k \in R[n][i]
          <6>1. CASE k \in R[(n - 1) - 1][m]
            BY <3>1, <4>2, <5>2, <6>1
          <6>2. CASE k \in Succ(N, E, R[(n - 1) - 1][m])
            <7>1. PICK j \in R[(n - 1) - 1][m] : <<j, k>> \in E
              BY <6>2 DEF Succ
            <7>2. j \in N
              <8>1. R \in [0..h -> [N -> SUBSET N]] /\ (n - 1) - 1 \in 0..h
                BY <4>1 DEF Reach
              <8> QED BY <7>1, <8>1
            <7>3. j \in R[n - 1][i]
              BY <4>2, <5>2, <7>1, <7>2
            <7> QED BY <3>1, <7>1, <7>3 DEF Succ
          <6> QED BY <4>3, <5>2, <6>1, <6>2
        <5> QED BY <5>1, <5>2
      <4> HIDE DEF First
      <4> QED BY <4>5, <4>6
    <3> QED BY <3>2, <3>3
  <2> HIDE DEF First
  <2> QED BY <2>0, <2>1
<1>3. \A n \in 0..h : n \in G
  <2> HIDE DEF G
  <2> QED BY <1>1, <1>2, UpTo
<1>4. \A n \in 1..h : n \in 0..h /\ n # 0
  OBVIOUS
<1> HIDE DEF First
<1>5. \A n \in 1..h : \A i \in N : R[n][i] = First(n, i)
  BY <1>3, <1>4
<1> QED BY <1>5 DEF First, Beyond

\* Against the steps one reaches those that reach one along them.
LEMMA ReachTurned ==
  ASSUME NEW N, NEW E, NEW F, NEW h \in Nat, NEW R, Reach(R, N, E, h), NEW Q, Reach(Q, N, F, h),
         \A j, k \in N : <<j, k>> \in F <=> <<k, j>> \in E
  PROVE  \A n \in 0..h : \A i, k \in N : k \in R[n][i] <=> i \in Q[n][k]
<1> DEFINE G == {n \in 0..h : \A i, k \in N : k \in R[n][i] <=> i \in Q[n][k]}
<1>1. 0 \in G
  BY DEF Reach
<1>2. ASSUME NEW n \in 1..h, n - 1 \in G PROVE n \in G
  <2>0. n \in 0..h /\ n - 1 \in 0..h
    OBVIOUS
  <2>1. ASSUME NEW i \in N, NEW k \in N PROVE k \in R[n][i] <=> i \in Q[n][k]
    <3>0. R[n][i] = Beyond(N, E, R[n - 1], i)
      BY ReachFirst
    <3>1. R[n][i] = {i} \cup {x \in N : \E m \in N : <<i, m>> \in E /\ x \in R[n - 1][m]}
      BY <3>0 DEF Beyond
    <3>2. Q[n][k] = Q[n - 1][k] \cup Succ(N, F, Q[n - 1][k])
      BY DEF Reach
    <3>3. R[n][i] = R[n - 1][i] \cup Succ(N, E, R[n - 1][i])
      BY DEF Reach
    <3>4. \A x, y \in N : y \in R[n - 1][x] <=> x \in Q[n - 1][y]
      BY <1>2
    <3>5. k \in Q[n - 1][k] /\ Q[n - 1][k] \subseteq N
      <4>1. Q \in [0..h -> [N -> SUBSET N]]
        BY DEF Reach
      <4>2. Q[n - 1][k] \subseteq N
        BY <2>0, <4>1
      <4>3. k \in Q[n - 1][k]
        BY <2>0, ReachSelf
      <4> QED BY <4>2, <4>3
    <3>6. ASSUME k \in R[n][i] PROVE i \in Q[n][k]
      <4>1. CASE k = i
        BY <3>2, <3>5, <4>1
      <4>2. CASE k # i
        <5>1. PICK m \in N : <<i, m>> \in E /\ k \in R[n - 1][m]
          BY <3>1, <3>6, <4>2
        <5>2. m \in Q[n - 1][k] /\ <<m, i>> \in F
          BY <3>4, <5>1
        <5> QED BY <3>2, <5>2 DEF Succ
      <4> QED BY <4>1, <4>2
    <3>7. ASSUME i \in Q[n][k] PROVE k \in R[n][i]
      <4>1. CASE i \in Q[n - 1][k]
        BY <3>3, <3>4, <4>1
      <4>2. CASE i \in Succ(N, F, Q[n - 1][k])
        <5>1. PICK m \in Q[n - 1][k] : <<m, i>> \in F
          BY <4>2 DEF Succ
        <5>2. m \in N
          BY <3>5
        <5>3. <<i, m>> \in E /\ k \in R[n - 1][m]
          BY <3>4, <5>1, <5>2
        <5> QED BY <3>1, <5>2, <5>3
      <4> QED BY <3>2, <3>7, <4>1, <4>2
    <3> QED BY <3>6, <3>7
  <2> QED BY <2>0, <2>1
<1>3. \A n \in 0..h : n \in G
  <2> HIDE DEF G
  <2> QED BY <1>1, <1>2, UpTo
<1> QED BY <1>3

\* What a walk along calls visits is what it reaches.
LEMMA BesideCalls ==
  ASSUME graph.edges \in Seq(Edge(graph.nodes)), NEW dir \in {"out", "in"},
         NEW S \in SUBSET (DOMAIN graph.nodes), NEW E,
         \A j, k \in DOMAIN graph.nodes :
             <<j, k>> \in E <=> IF dir = "out" THEN CallsTo(j, k) ELSE CallsTo(k, j)
  PROVE  Beside(graph, S, <<dir>>, {"CallsFunction"}) = Succ(DOMAIN graph.nodes, E, S)
<1> DEFINE N == DOMAIN graph.nodes
           kinds == {"CallsFunction"}
<1>1. ToSet(graph.edges) \subseteq Edge(graph.nodes)
  BY DEF ToSet
<1>2. ToSet(<<dir>>) = {dir}
  BY DEF ToSet
<1>3. ASSUME NEW k \in Beside(graph, S, <<dir>>, kinds) PROVE k \in Succ(N, E, S)
  <2>1. PICK j \in S : \E s \in LedTo(graph, j, <<dir>>, kinds) : k = s.node
    BY DEF Beside, Led
  <2>0. PICK s \in LedTo(graph, j, <<dir>>, kinds) : k = s.node
    BY <2>1
  <2>2. PICK e \in ToSet(graph.edges) :
            /\ e.kind = "CallsFunction" /\ s.node = neighbor_in_direction(e, dir)
            /\ j = neighbor_in_direction(e, IF dir = "out" THEN "in" ELSE "out")
    BY <1>2 DEF LedTo
  <2>3. k \in N /\ j \in N
    BY <2>0 DEF LedTo, Step
  <2>4. IF dir = "out" THEN CallsTo(j, k) ELSE CallsTo(k, j)
    BY <2>0, <2>2 DEF CallsTo, neighbor_in_direction
  <2>5. <<j, k>> \in E
    BY <2>3, <2>4
  <2> QED BY <2>3, <2>5 DEF Succ
<1>4. ASSUME NEW k \in Succ(N, E, S) PROVE k \in Beside(graph, S, <<dir>>, kinds)
  <2>1. PICK j \in S : k \in N /\ <<j, k>> \in E
    BY DEF Succ
  <2>2. j \in N /\ IF dir = "out" THEN CallsTo(j, k) ELSE CallsTo(k, j)
    BY <2>1
  <2>3. PICK e \in ToSet(graph.edges) :
            /\ e.kind = "CallsFunction"
            /\ IF dir = "out" THEN e.from = j /\ e.to = k ELSE e.from = k /\ e.to = j
    BY <2>2 DEF CallsTo
  <2> DEFINE s == [node |-> k, kind |-> "CallsFunction"]
  <2>4. s \in Step(N) /\ s.node = k /\ s.kind = e.kind
    BY <2>1, <2>3 DEF Step
  <2> HIDE DEF s
  <2>5. /\ j = neighbor_in_direction(e, IF dir = "out" THEN "in" ELSE "out")
        /\ s.node = neighbor_in_direction(e, dir)
    BY <2>3, <2>4 DEF neighbor_in_direction
  <2>6. s \in LedTo(graph, j, <<dir>>, kinds)
    BY <1>2, <2>3, <2>4, <2>5 DEF LedTo
  <2> QED BY <2>4, <2>6 DEF Beside, Led
<1> QED BY <1>3, <1>4

\* Each node of a set is noted once.
Noted(out, N, S) ==
    /\ out \in Seq(Step(N)) /\ {out[k].node : k \in DOMAIN out} = S
    /\ \A k, l \in DOMAIN out : out[k].node = out[l].node => k = l

\* A walk along calls notes each node reached in at most hops steps once, but its start.
LEMMA WalkReaches ==
  ASSUME graph.edges \in Seq(Edge(graph.nodes)), NEW dir \in {"out", "in"},
         NEW i \in DOMAIN graph.nodes, NEW hops \in Nat, NEW E,
         \A j, k \in DOMAIN graph.nodes :
             <<j, k>> \in E <=> IF dir = "out" THEN CallsTo(j, k) ELSE CallsTo(k, j),
         NEW R, Reach(R, DOMAIN graph.nodes, E, hops)
  PROVE  Noted(bfs_walk(graph, i, hops, <<dir>>, {"CallsFunction"}), DOMAIN graph.nodes,
               R[hops][i] \ {i})
<1> DEFINE N == DOMAIN graph.nodes
           kinds == {"CallsFunction"}
<1>1. PICK L : /\ bfs_walk(graph, i, hops, <<dir>>, kinds) = L[hops].out
               /\ Levels(L, graph, i, hops, <<dir>>, kinds)
  <2>1. <<dir>> \in Seq({"out", "in"})
    OBVIOUS
  <2> QED BY <2>1, BfsLevels
<1> DEFINE v == [d \in 0..hops |-> L[d].visited]
<1>2. \A d \in 0..hops : WalkFits(L[d], N, i) /\ v[d] = L[d].visited /\ v[d] \in SUBSET N
  BY <1>1 DEF Levels, WalkFits
<1>3. v[0] = {i}
  BY <1>1 DEF Levels
<1> HIDE DEF v
<1>4. ASSUME NEW d \in 1..hops PROVE v[d] = v[d - 1] \cup Succ(N, E, v[d - 1])
  <2>1. d \in 0..hops /\ d - 1 \in 0..hops
    OBVIOUS
  <2>2. v[d] = v[d - 1] \cup Beside(graph, v[d - 1], <<dir>>, kinds)
    BY <1>1, <1>2, <2>1 DEF Levels
  <2>3. v[d - 1] \in SUBSET N
    BY <1>2, <2>1
  <2>4. Beside(graph, v[d - 1], <<dir>>, kinds) = Succ(N, E, v[d - 1])
    BY <2>3, BesideCalls
  <2> QED BY <2>2, <2>4
<1>5. hops \in 0..hops
  OBVIOUS
<1>6. v[hops] = R[hops][i]
  <2>1. \A d \in 0..hops : v[d] = R[d][i]
    BY <1>3, <1>4, ReachOne
  <2> QED BY <1>5, <2>1
<1> DEFINE out == L[hops].out
<1>7. /\ out \in Seq(Step(N)) /\ v[hops] = {i} \cup {out[k].node : k \in DOMAIN out}
      /\ \A k \in DOMAIN out : out[k].node # i
      /\ \A k, l \in DOMAIN out : out[k].node = out[l].node => k = l
  BY <1>2, <1>5 DEF WalkFits
<1> HIDE DEF out
<1>8. {out[k].node : k \in DOMAIN out} = R[hops][i] \ {i}
  BY <1>6, <1>7
<1> QED BY <1>1, <1>7, <1>8 DEF out, Noted

\* Reached, by its definition, is what is reached.
LEMMA ReachedIs ==
  ASSUME NEW i \in DOMAIN graph.nodes, NEW hops \in Nat, NEW E,
         \A j, k \in DOMAIN graph.nodes : <<j, k>> \in E <=> CallsTo(j, k),
         NEW R, Reach(R, DOMAIN graph.nodes, E, hops)
  PROVE  Reached(i, hops) = R[hops][i]
<1> DEFINE N == DOMAIN graph.nodes
           On(S) == S \cup {k \in N : \E j \in S : CallsTo(j, k)}
           Goes(g) == g = [n \in 0..hops |-> IF n = 0 THEN {i}
                              ELSE g[n - 1] \cup {k \in N : \E j \in g[n - 1] : CallsTo(j, k)}]
<1>1. Reached(i, hops) = (CHOOSE g : Goes(g))[hops]
  BY DEF Reached
<1>2. \A n \in 0..hops : R[n][i] \subseteq N
  BY DEF Reach
<1>3. \A n \in 1..hops : n - 1 \in 0..hops /\ n \in 0..hops /\ n # 0
  OBVIOUS
<1>4. \A S \in SUBSET N : {k \in N : \E j \in S : CallsTo(j, k)} = Succ(N, E, S)
  BY DEF Succ
<1> DEFINE r == [n \in 0..hops |-> R[n][i]]
<1>5. Goes(r)
  <2>1. ASSUME NEW n \in 0..hops
        PROVE  r[n] = IF n = 0 THEN {i} ELSE r[n - 1] \cup {k \in N : \E j \in r[n - 1] : CallsTo(j, k)}
    <3>1. CASE n = 0
      BY <3>1 DEF Reach
    <3>2. CASE n # 0
      <4>1. n \in 1..hops /\ n - 1 \in 0..hops
        BY <3>2
      <4>2. R[n][i] = R[n - 1][i] \cup Succ(N, E, R[n - 1][i])
        BY <4>1 DEF Reach
      <4>3. r[n] = R[n][i] /\ r[n - 1] = R[n - 1][i]
        BY <4>1
      <4>4. R[n - 1][i] \in SUBSET N
        BY <1>2, <4>1
      <4> HIDE DEF r
      <4>5. {k \in N : \E j \in r[n - 1] : CallsTo(j, k)} = Succ(N, E, r[n - 1])
        BY <1>4, <4>3, <4>4
      <4> QED BY <3>2, <4>2, <4>3, <4>5
    <3> QED BY <3>1, <3>2
  <2>2. r = [n \in 0..hops |-> r[n]]
    OBVIOUS
  <2> HIDE DEF r
  <2> QED BY <2>1, <2>2
<1> DEFINE F == CHOOSE g : Goes(g)
<1>6. Goes(F)
  <2> HIDE DEF Goes, r
  <2> QED BY <1>5
<1> HIDE DEF F
<1>7. \A n \in 0..hops : F[n] = IF n = 0 THEN {i}
                                ELSE F[n - 1] \cup {k \in N : \E j \in F[n - 1] : CallsTo(j, k)}
  BY <1>6
<1> HIDE DEF Goes
<1> DEFINE G == {n \in 0..hops : F[n] = R[n][i]}
<1>8. 0 \in G
  <2>1. 0 \in 0..hops
    OBVIOUS
  <2>2. F[0] = {i} /\ R[0][i] = {i}
    BY <1>7, <2>1 DEF Reach
  <2> QED BY <2>1, <2>2
<1>9. ASSUME NEW n \in 1..hops, n - 1 \in G PROVE n \in G
  <2>1. F[n] = F[n - 1] \cup {k \in N : \E j \in F[n - 1] : CallsTo(j, k)}
    BY <1>3, <1>7
  <2>2. F[n - 1] = R[n - 1][i] /\ F[n - 1] \in SUBSET N
    BY <1>2, <1>3, <1>9
  <2>3. {k \in N : \E j \in F[n - 1] : CallsTo(j, k)} = Succ(N, E, F[n - 1])
    BY <1>4, <2>2
  <2>4. R[n][i] = R[n - 1][i] \cup Succ(N, E, R[n - 1][i])
    BY DEF Reach
  <2> QED BY <1>3, <2>1, <2>2, <2>3, <2>4
<1>10. hops \in G
  <2> HIDE DEF G
  <2>1. \A n \in 0..hops : n \in G
    BY <1>8, <1>9, UpTo
  <2> QED BY <2>1
<1> QED BY <1>1, <1>10 DEF F

\* Walks are exact.
LEMMA BuiltWalks ==
  ASSUME NEW corpus \in Seq(RawChunk), NEW n, NEW b, Built(graph, corpus, n, b)
  PROVE  WalksExact
<1> DEFINE N == DOMAIN graph.nodes
           Name(k) == Symbol(graph.corpus, graph.nodes, k)
<1>1. /\ graph.corpus = corpus /\ NodesFit(corpus, n, graph.nodes)
      /\ graph.edges \in Seq(Edge(graph.nodes))
  BY DEF Built
<1>2. \A k, l \in N : Name(k) = Name(l) => k = l
  BY <1>1 DEF NodesFit, Symbol
<1>3. ASSUME NEW i \in N, NEW hops \in Nat
      PROVE  /\ IsInjective(callees_of(graph, Name(i), hops))
             /\ IsInjective(callers_of(graph, Name(i), hops))
             /\ ToSet(callees_of(graph, Name(i), hops)) = {Name(k) : k \in Reached(i, hops) \ {i}}
             /\ ToSet(callers_of(graph, Name(i), hops))
                    = {Name(k) : k \in {k \in N \ {i} : i \in Reached(k, hops)}}
  <2> DEFINE E == {jk \in N \X N : CallsTo(jk[1], jk[2])}
             F == {jk \in N \X N : CallsTo(jk[2], jk[1])}
             Found(dir) == IF hops = 0 THEN <<>> ELSE bfs_walk(graph, i, hops, <<dir>>, {"CallsFunction"})
             Names0(dir) == [k \in DOMAIN Found(dir) |-> Name(Found(dir)[k].node)]
  <2>1. /\ \A j, k \in N : <<j, k>> \in E <=> CallsTo(j, k)
        /\ \A j, k \in N : <<j, k>> \in F <=> CallsTo(k, j)
    OBVIOUS
  <2> HIDE DEF E, F
  <2>2. PICK R : Reach(R, N, E, hops)
    BY ReachExists
  <2>3. PICK Q : Reach(Q, N, F, hops)
    BY ReachExists
  <2>4. \A k \in N : Reached(k, hops) = R[hops][k]
    BY <2>1, <2>2, ReachedIs
  <2>5. hops \in 0..hops /\ R[hops][i] \in SUBSET N /\ Q[hops][i] \in SUBSET N
    BY <2>2, <2>3 DEF Reach
  <2>6. \A k \in N : i \in R[hops][k] <=> k \in Q[hops][i]
    <3>1. \A j, k \in N : <<j, k>> \in F <=> <<k, j>> \in E
      BY <2>1
    <3>2. \A d \in 0..hops : \A j, k \in N : k \in R[d][j] <=> j \in Q[d][k]
      <4> HIDE DEF N
      <4> QED BY ONLY <2>2, <2>3, <3>1, hops \in Nat, ReachTurned
    <3>3. \A j, k \in N : k \in R[hops][j] <=> j \in Q[hops][k]
      BY ONLY <2>5, <3>2
    <3> QED BY ONLY <3>3, i \in N
  <2>7. bfs_neighbors(graph, Name(i), hops, "out") = Names0("out")
        /\ bfs_neighbors(graph, Name(i), hops, "in") = Names0("in")
    <3>1. NodeOf(graph.corpus, graph.nodes, Name(i)) = i
      <4>1. \/ NodeOf(corpus, graph.nodes, Name(i)) = 0 /\ corpus[graph.nodes[i]].name # Name(i)
            \/ /\ NodeOf(corpus, graph.nodes, Name(i)) \in N
               /\ corpus[graph.nodes[NodeOf(corpus, graph.nodes, Name(i))]].name = Name(i)
        BY <1>1, NodeOfIs
      <4> QED BY <1>1, <1>2, <4>1 DEF Symbol
    <3>2. i # 0
      BY <1>1 DEF NodesFit
    <3>3. start_index(graph, Name(i), hops) = IF hops = 0 THEN 0 ELSE i
      BY <3>1 DEF start_index
    <3>4. ASSUME NEW dir PROVE bfs_neighbors(graph, Name(i), hops, dir) = Names0(dir)
      <4>1. (IF start_index(graph, Name(i), hops) = 0 THEN <<>>
             ELSE bfs_walk(graph, start_index(graph, Name(i), hops), hops, <<dir>>, {"CallsFunction"})) = Found(dir)
        BY <3>2, <3>3
      <4> QED BY <1>1, <4>1 DEF bfs_neighbors
    <3> QED BY <3>4
  <2>8. ASSUME NEW dir \in {"out", "in"}, NEW H, NEW D, Reach(H, N, D, hops),
               \A j, k \in N : <<j, k>> \in D <=> IF dir = "out" THEN CallsTo(j, k) ELSE CallsTo(k, j)
        PROVE  IsInjective(Names0(dir)) /\ ToSet(Names0(dir)) = {Name(k) : k \in H[hops][i] \ {i}}
    <3> DEFINE seen == Found(dir)
    <3>1. /\ \A k \in DOMAIN seen : seen[k].node \in N
          /\ \A k, l \in DOMAIN seen : seen[k].node = seen[l].node => k = l
          /\ {seen[k].node : k \in DOMAIN seen} = H[hops][i] \ {i}
      <4>1. CASE hops = 0
        <5>1. seen = <<>> /\ H[hops][i] = {i}
          BY <2>8, <4>1 DEF Reach
        <5> HIDE DEF seen
        <5> QED BY <5>1
      <4>2. CASE hops # 0
        <5>1. Noted(bfs_walk(graph, i, hops, <<dir>>, {"CallsFunction"}), N, H[hops][i] \ {i})
          BY <1>1, <2>8, WalkReaches
        <5>2. seen = bfs_walk(graph, i, hops, <<dir>>, {"CallsFunction"})
          BY <4>2
        <5> HIDE DEF seen, N
        <5>3. \A k \in DOMAIN seen : seen[k] \in Step(N)
          BY <5>1, <5>2 DEF Noted
        <5>4. \A k \in DOMAIN seen : seen[k].node \in N
          BY <5>3 DEF Step
        <5> QED BY <5>1, <5>2, <5>4 DEF Noted
      <4> QED BY <4>1, <4>2
    <3> DEFINE names == Names0(dir)
    <3>2. names = [k \in DOMAIN seen |-> Name(seen[k].node)]
      OBVIOUS
    <3> HIDE DEF seen, Name, Found
    <3>3. IsInjective(names)
      BY <1>2, <3>1, <3>2 DEF IsInjective
    <3>4. ToSet(names) = {Name(k) : k \in {seen[l].node : l \in DOMAIN seen}}
      BY <3>2 DEF ToSet
    <3> QED BY <3>1, <3>3, <3>4
  <2> HIDE DEF Names0, Name
  <2>9. /\ IsInjective(Names0("out")) /\ ToSet(Names0("out")) = {Name(k) : k \in R[hops][i] \ {i}}
    BY <2>1, <2>2, <2>8
  <2>10. /\ IsInjective(Names0("in")) /\ ToSet(Names0("in")) = {Name(k) : k \in Q[hops][i] \ {i}}
    BY <2>1, <2>3, <2>8
  <2>11. R[hops][i] = Reached(i, hops)
    BY <2>4
  <2>12. Q[hops][i] \ {i} = {k \in N \ {i} : i \in Reached(k, hops)}
    BY <2>4, <2>5, <2>6
  <2> QED BY <2>7, <2>9, <2>10, <2>11, <2>12 DEF callees_of, callers_of
<1>4. \A hops \in 0..MaxHops : hops \in Nat
  BY SearchAssumption
<1> HIDE DEF Name
<1>5. \A i \in N, hops \in 0..MaxHops :
             /\ IsInjective(callees_of(graph, Name(i), hops))
             /\ IsInjective(callers_of(graph, Name(i), hops))
             /\ ToSet(callees_of(graph, Name(i), hops)) = {Name(k) : k \in Reached(i, hops) \ {i}}
             /\ ToSet(callers_of(graph, Name(i), hops))
                    = {Name(k) : k \in {k \in N \ {i} : i \in Reached(k, hops)}}
  BY <1>3, <1>4
<1> QED BY <1>5 DEF WalksExact, Name

\* The graph is one that a build of a corpus under the cap makes.
GraphInv == stage # "build" => \E corpus \in Corpora : cap \in Caps /\ graph \in Graphs_of(corpus, cap)

\* A search keeps the graph it has built.
LEMMA GraphInvHolds == SearchSpec => []GraphInv
<1>1. SearchInit => GraphInv
  BY DEF SearchInit, GraphInv
<1>2. GraphInv /\ [SearchNext]_vars => GraphInv'
  <2> SUFFICES ASSUME GraphInv, [SearchNext]_vars PROVE GraphInv'
    OBVIOUS
  <2>1. CASE Build
    <3>1. PICK corpus \in Corpora, n \in Caps : graph' \in Graphs_of(corpus, n) /\ cap' = n
      BY <2>1 DEF Build
    <3> QED BY <3>1 DEF GraphInv
  <2>2. CASE Lanes \/ InjectExact \/ Fuse \/ Expand \/ Adjust \/ Materialize
    <3>1. stage # "build" /\ graph' = graph /\ cap' = cap
      BY <2>2 DEF Lanes, InjectExact, Fuse, Expand, Adjust, Materialize
    <3>2. PICK corpus \in Corpora : cap \in Caps /\ graph \in Graphs_of(corpus, cap)
      BY <3>1 DEF GraphInv
    <3> QED BY <3>1, <3>2 DEF GraphInv
  <2>3. CASE UNCHANGED vars
    <3>1. stage' = stage /\ graph' = graph /\ cap' = cap
      BY <2>3 DEF vars
    <3> QED BY <3>1 DEF GraphInv
  <2> QED BY <2>1, <2>2, <2>3 DEF SearchNext
<1> QED BY <1>1, <1>2, PTL DEF SearchSpec

\* Such a graph is sound.
LEMMA GraphInvSound ==
  ASSUME GraphInv
  PROVE  GraphSound
<1>1. CASE stage # "idle"
  BY <1>1 DEF GraphSound, EdgesWitnessed, CallsResolve, WalksExact
<1>2. CASE stage = "idle"
  <2>1. PICK corpus \in Corpora : cap \in Caps /\ graph \in Graphs_of(corpus, cap)
    BY <1>2 DEF GraphInv
  <2>2. corpus \in Seq(RawChunk) /\ cap \in Nat
    BY <2>1, SearchAssumption
  <2>3. PICK b : Built(graph, corpus, cap, b)
    BY <2>1, <2>2, GraphsAreBuilt
  <2>4. EdgesWitnessed
    BY <2>2, <2>3, BuiltWitnessed
  <2>5. CallsResolve
    BY <2>2, <2>3, BuiltResolves
  <2>6. WalksExact
    BY <2>2, <2>3, BuiltWalks
  <2> QED BY <2>4, <2>5, <2>6 DEF GraphSound
<1> QED BY <1>1, <1>2

\* The graph is what its corpus says: each edge stands for a call, a parent or a container
\* that some chunk names, each call that can be resolved is an edge, and a walk finds what
\* is within its hops, once, in either direction (symbol_graph.rs).
THEOREM GraphIsSound == SearchSpec => []GraphSound
<1>1. GraphInv => GraphSound
  BY GraphInvSound
<1> QED BY <1>1, GraphInvHolds, PTL

-----------------------------------------------------------------------------
(* A search of one index.                                                  *)

\* Hits: no id comes twice, and each scores at least m.
HitsFit(s, I, m) ==
    /\ s \in Seq([id : I, score : Nat])
    /\ \A i \in DOMAIN s : s[i].score >= m
    /\ \A i, j \in DOMAIN s : s[i].id = s[j].id => i = j

\* Each comes before those behind it.
InTurn(s) == \A i, j \in DOMAIN s : i < j => Before(s[i], s[j])

\* What a function makes of a finite set is finite.
LEMMA ImageFinite ==
  ASSUME NEW f, IsFiniteSet(DOMAIN f)
  PROVE  IsFiniteSet({f[x] : x \in DOMAIN f})
<1> DEFINE T == {f[x] : x \in DOMAIN f}
           g == [x \in DOMAIN f |-> f[x]]
<1>1. g \in Surjection(DOMAIN f, T)
  BY DEF Surjection
<1> QED BY <1>1, FS_Surjection

\* So are the members of a sequence.
LEMMA MembersFinite ==
  ASSUME NEW T, NEW s \in Seq(T)
  PROVE  IsFiniteSet(ToSet(s)) /\ ToSet(s) \subseteq T
<1>1. DOMAIN s = 1..Len(s) /\ Len(s) \in Nat /\ \A i \in DOMAIN s : s[i] \in T
  OBVIOUS
<1>2. IsFiniteSet(DOMAIN s)
  BY <1>1, FS_Interval
<1> QED BY <1>1, <1>2, ImageFinite DEF ToSet

\* Sorting hits puts them in order and keeps them as they are.
LEMMA SortedHits ==
  ASSUME NEW I \in SUBSET Nat, NEW C, IsFiniteSet(C), C \subseteq [id : I, score : Nat],
         NEW m \in Nat, \A x \in C : x.score >= m, \A x, y \in C : x.id = y.id => x = y
  PROVE  HitsFit(Sorted(C), I, m) /\ ToSet(Sorted(C)) = C /\ InTurn(Sorted(C))
<1> DEFINE R == {ab \in C \X C : Before(ab[1], ab[2])}
           s == Arranged(C, R)
<1>1. \A x, y \in C : <<x, y>> \in R <=> Before(x, y)
  OBVIOUS
<1>2. \A x \in C : x.score \in Nat /\ x.id \in Nat
  OBVIOUS
<1> HIDE DEF R
<1>3. \A x, y \in C : <<x, y>> \in R => <<y, x>> \notin R
  BY <1>1, <1>2 DEF Before
<1>4. \A x, y, z \in C : <<x, y>> \in R /\ <<y, z>> \in R => <<x, z>> \in R
  BY <1>1, <1>2 DEF Before
<1>5. \A x, y \in C : x = y \/ <<x, y>> \in R \/ <<y, x>> \in R
  <2> SUFFICES ASSUME NEW x \in C, NEW y \in C, x # y PROVE Before(x, y) \/ Before(y, x)
    BY <1>1
  <2>1. x.id # y.id
    OBVIOUS
  <2> QED BY <1>2, <2>1 DEF Before
<1>6. /\ s \in Seq(C) /\ ToSet(s) = C /\ IsInjective(s)
      /\ \A p, r \in DOMAIN s : p < r => <<s[p], s[r]>> \in R
  BY <1>3, <1>4, <1>5, ArrangedIs
<1>7. Sorted(C) = s
  BY DEF Sorted, R
<1> HIDE DEF s
<1>8. \A i \in DOMAIN s : s[i] \in C
  BY <1>6
<1>9. s \in Seq([id : I, score : Nat])
  BY <1>6, OfMembers
<1>10. InTurn(s)
  BY <1>1, <1>6, <1>8 DEF InTurn
<1>11. \A i, j \in DOMAIN s : s[i].id = s[j].id => i = j
  BY <1>6, <1>8 DEF IsInjective
<1> QED BY <1>6, <1>7, <1>8, <1>9, <1>10, <1>11 DEF HitsFit

\* What a place in a lane scores.
LEMMA LaneScores ==
  ASSUME NEW T, NEW lane \in Seq(T), IsInjective(lane), Len(lane) <= MaxLane + 1, NEW w \in 1..9
  PROVE  \A x : /\ LaneScore(lane, x, w) \in Nat
                /\ x \in ToSet(lane) => LaneScore(lane, x, w) >= 10
<1> SUFFICES ASSUME NEW x
             PROVE  /\ LaneScore(lane, x, w) \in Nat
                    /\ x \in ToSet(lane) => LaneScore(lane, x, w) >= 10
  OBVIOUS
<1>1. /\ x \notin ToSet(lane) => RankOf(lane, x) = 0
      /\ x \in ToSet(lane) => RankOf(lane, x) \in DOMAIN lane
  BY RankOfIs
<1>2. CASE x \notin ToSet(lane)
  BY <1>1, <1>2 DEF LaneScore
<1>3. CASE x \in ToSet(lane)
  <2> DEFINE d == RRF_K + RankOf(lane, x)
             u == 10 * RankUnit
             v == u \div d
  <2>1. RankOf(lane, x) \in 1..Len(lane) /\ Len(lane) \in Nat
    BY <1>1, <1>3
  <2>2. MaxLane \in Nat /\ RRF_K + MaxLane + 1 <= RankUnit /\ RankUnit \in Nat
    BY SearchAssumption, FusionAssumption
  <2>3. d \in Nat /\ d > 0 /\ d <= RankUnit /\ u \in Nat /\ u >= 10 * d
    BY <2>1, <2>2 DEF RRF_K
  <2>4. v = u \div d
    OBVIOUS
  <2>5. LaneScore(lane, x, w) = w * v
    BY <2>1 DEF LaneScore
  <2> HIDE DEF d, u, v
  <2>6. v \in Nat /\ v >= 10
    <3>1. v \in Int /\ d * v <= u /\ u < d * v + d
      BY <2>3, <2>4
    <3>2. ASSUME v <= 9 PROVE FALSE
      <4>1. d * v <= d * 9
        BY ONLY <2>3, <3>1, <3>2
      <4>2. d * v \in Int
        BY ONLY <2>3, <3>1
      <4> QED BY ONLY <2>3, <3>1, <4>1, <4>2
    <3> QED BY <3>1, <3>2
  <2>7. w * v \in Nat /\ w * v >= 10
    BY ONLY <2>6, w \in 1..9
  <2> QED BY <2>5, <2>7
<1> QED BY <1>2, <1>3

\* What two lanes have found is fused to hits.
LEMMA FusedHits ==
  ASSUME NEW I \in SUBSET Nat, NEW lane1 \in Seq(I), NEW lane2 \in Seq(I),
         IsInjective(lane1), IsInjective(lane2),
         Len(lane1) <= MaxLane + 1, Len(lane2) <= MaxLane + 1,
         NEW a \in 1..9, NEW b \in 1..9, NEW k \in Nat
  PROVE  /\ HitsFit(rrf_fuse(lane1, lane2, a, b, k), I, 10)
         /\ Ids(rrf_fuse(lane1, lane2, a, b, k)) \subseteq ToSet(lane1) \cup ToSet(lane2)
<1> DEFINE L == ToSet(lane1) \cup ToSet(lane2)
           Score(x) == LaneScore(lane1, x, a) + LaneScore(lane2, x, b)
           C == {[id |-> x, score |-> Score(x)] : x \in L}
           s == Sorted(C)
<1>1. /\ \A x : LaneScore(lane1, x, a) \in Nat /\ (x \in ToSet(lane1) => LaneScore(lane1, x, a) >= 10)
      /\ \A x : LaneScore(lane2, x, b) \in Nat /\ (x \in ToSet(lane2) => LaneScore(lane2, x, b) >= 10)
  BY LaneScores
<1>2. \A x \in L : Score(x) \in Nat /\ Score(x) >= 10
  BY <1>1
<1>3. IsFiniteSet(L) /\ L \subseteq I
  <2>1. /\ IsFiniteSet(ToSet(lane1)) /\ ToSet(lane1) \subseteq I
        /\ IsFiniteSet(ToSet(lane2)) /\ ToSet(lane2) \subseteq I
    BY MembersFinite
  <2> QED BY <2>1, FS_Union
<1> HIDE DEF L, Score
<1>4. IsFiniteSet(C)
  <2> DEFINE f == [x \in L |-> [id |-> x, score |-> Score(x)]]
  <2>1. C = {f[x] : x \in DOMAIN f} /\ DOMAIN f = L
    OBVIOUS
  <2> HIDE DEF f, C
  <2> QED BY <1>3, <2>1, ImageFinite
<1>5. /\ C \subseteq [id : I, score : Nat] /\ \A x \in C : x.score >= 10
      /\ \A x, y \in C : x.id = y.id => x = y
  BY <1>2, <1>3
<1>6. \A x \in C : x.id \in L
  OBVIOUS
<1>7. rrf_fuse(lane1, lane2, a, b, k) = Take(k, s)
  BY DEF rrf_fuse, L, Score
<1> HIDE DEF C
<1>8. HitsFit(s, I, 10) /\ ToSet(s) = C
  BY <1>4, <1>5, SortedHits
<1> HIDE DEF s
<1>9. HitsFit(Take(k, s), I, 10) /\ \A i \in DOMAIN Take(k, s) : Take(k, s)[i].id \in L
  <2>1. /\ Take(k, s) \in Seq([id : I, score : Nat]) /\ DOMAIN Take(k, s) \subseteq DOMAIN s
        /\ \A p \in DOMAIN Take(k, s) : Take(k, s)[p] = s[p]
    BY <1>8, TakeIs DEF HitsFit
  <2>2. \A p \in DOMAIN s : s[p].id \in L
    BY <1>6, <1>8 DEF ToSet
  <2> QED BY <1>8, <2>1, <2>2 DEF HitsFit
<1> QED BY <1>7, <1>9 DEF Ids, L

\* What the diversity pass takes next is one of those that are left.
LEMMA NextIs ==
  ASSUME NEW I \in SUBSET Nat, NEW m \in Nat, NEW c, HitsFit(c, I, m), NEW g, NEW q, NEW s,
         ToSet(c) \ ToSet(s) # {}
  PROVE  NextBest(g, q, c, s) \in ToSet(c) \ ToSet(s)
<1> DEFINE rest == ToSet(c) \ ToSet(s)
           Score(x) == compute_mmr_score(g, q, x, s)
           R == {xy \in rest \X rest : \/ Score(xy[1]) > Score(xy[2])
                                       \/ Score(xy[1]) = Score(xy[2]) /\ Ahead(c, xy[2], xy[1])}
<1>1. c \in Seq([id : I, score : Nat]) /\ IsInjective(c)
  BY DEF HitsFit, IsInjective
<1>2. IsFiniteSet(rest) /\ rest \subseteq ToSet(c) /\ \A x \in ToSet(c) : x.score \in Nat
  <2>1. IsFiniteSet(ToSet(c)) /\ ToSet(c) \subseteq [id : I, score : Nat]
    BY <1>1, MembersFinite
  <2> QED BY <2>1, FS_Subset
<1>3. \A x \in rest : Score(x) \in Int
  BY <1>2, FusionAssumption DEF compute_mmr_score
<1>4. NextBest(g, q, c, s) = Arranged(rest, R)[1]
  BY DEF NextBest
<1> HIDE DEF Score
<1>5. \A x, y \in rest :
          (<<x, y>> \in R) <=> (Score(x) > Score(y) \/ (Score(x) = Score(y) /\ Ahead(c, y, x)))
  OBVIOUS
<1> HIDE DEF R
<1>6. /\ \A x, y \in rest : Ahead(c, x, y) => ~Ahead(c, y, x)
      /\ \A x, y, z \in rest : Ahead(c, x, y) /\ Ahead(c, y, z) => Ahead(c, x, z)
      /\ \A x, y \in rest : x = y \/ Ahead(c, x, y) \/ Ahead(c, y, x)
  BY <1>1, <1>2, AheadOrders
<1> HIDE DEF rest
<1>7. \A x, y \in rest : <<x, y>> \in R => <<y, x>> \notin R
  BY ONLY <1>3, <1>5, <1>6
<1>8. \A x, y, z \in rest : <<x, y>> \in R /\ <<y, z>> \in R => <<x, z>> \in R
  BY ONLY <1>3, <1>5, <1>6
<1>9. \A x, y \in rest : x = y \/ <<x, y>> \in R \/ <<y, x>> \in R
  <2> SUFFICES ASSUME NEW x \in rest, NEW y \in rest, x # y PROVE <<x, y>> \in R \/ <<y, x>> \in R
    OBVIOUS
  <2>1. Score(x) \in Int /\ Score(y) \in Int
    BY <1>3
  <2>2. Ahead(c, x, y) \/ Ahead(c, y, x)
    BY <1>6
  <2>3. Score(x) > Score(y) => <<x, y>> \in R
    BY <1>5
  <2>4. Score(y) > Score(x) => <<y, x>> \in R
    BY <1>5
  <2>5. Score(x) = Score(y) => <<x, y>> \in R \/ <<y, x>> \in R
    BY <1>5, <2>2
  <2> QED BY ONLY <2>1, <2>3, <2>4, <2>5
<1>10. Arranged(rest, R) \in Seq(rest) /\ Len(Arranged(rest, R)) = Cardinality(rest)
  <2>1. IsFiniteSet(rest)
    BY <1>2
  <2> QED BY ONLY <1>7, <1>8, <1>9, <2>1, ArrangedIs
<1>11. Cardinality(rest) \in Nat /\ Cardinality(rest) # 0
  BY <1>2, FS_CardinalityType, FS_EmptySet DEF rest
<1> QED BY <1>4, <1>10, <1>11 DEF rest

\* A sequence of some members of another, shorter and without repetition, leaves one out.
LEMMA OneIsLeft ==
  ASSUME NEW T, NEW c \in Seq(T), IsInjective(c), NEW s \in Seq(ToSet(c)), Len(s) < Len(c)
  PROVE  ToSet(c) \ ToSet(s) # {}
<1> SUFFICES ASSUME ToSet(c) \subseteq ToSet(s) PROVE FALSE
  OBVIOUS
<1> DEFINE N == Len(c)
           M == Len(s)
           f == [i \in 1..N |-> CHOOSE j \in 1..M : s[j] = c[i]]
<1>1. N \in Nat /\ M \in Nat /\ DOMAIN c = 1..N /\ DOMAIN s = 1..M /\ M < N
  OBVIOUS
<1>2. \A i \in 1..N : \E j \in 1..M : s[j] = c[i]
  BY <1>1 DEF ToSet
<1>3. f \in [1..N -> 1..M] /\ \A i \in 1..N : s[f[i]] = c[i]
  BY <1>2
<1> HIDE DEF f, N, M
<1>4. /\ IsFiniteSet(1..N) /\ IsFiniteSet(1..M) /\ Cardinality(1..N) = N /\ Cardinality(1..M) = M
  <2>1. 1 \in Int /\ N \in Int /\ M \in Int
    BY <1>1
  <2>2. /\ IsFiniteSet(1..N) /\ Cardinality(1..N) = IF 1 > N THEN 0 ELSE N - 1 + 1
        /\ IsFiniteSet(1..M) /\ Cardinality(1..M) = IF 1 > M THEN 0 ELSE M - 1 + 1
    BY ONLY <2>1, FS_Interval
  <2> QED BY <1>1, <2>2
<1>5. f \in Injection(1..N, 1..M)
  BY <1>1, <1>3 DEF IsInjective, Injection
<1> QED BY <1>1, <1>4, <1>5, FS_Injection

\* The diversity pass keeps hits as they are, in another order.
LEMMA RerankIs ==
  ASSUME NEW I \in SUBSET Nat, NEW m \in Nat, NEW c, HitsFit(c, I, m), NEW g, NEW q
  PROVE  HitsFit(mmr_rerank(g, q, c), I, m) /\ Ids(mmr_rerank(g, q, c)) \subseteq Ids(c)
<1> DEFINE N == Len(c)
           S == ToSet(c)
           V == {s \in Seq(S) : IsInjective(s)}
           More(s) == Append(s, NextBest(g, q, c, s))
           Goes(h) == h = [n \in 0..Len(c) |-> IF n = 0 THEN <<>>
                                               ELSE Append(h[n - 1], NextBest(g, q, c, h[n - 1]))]
           f == [n \in 1..N |-> [s \in V |-> IF S \ ToSet(s) # {} THEN More(s) ELSE s]]
<1>1. c \in Seq([id : I, score : Nat]) /\ IsInjective(c) /\ N \in Nat /\ DOMAIN c = 1..N
  BY DEF HitsFit, IsInjective
<1>2. mmr_rerank(g, q, c) = (CHOOSE h : Goes(h))[Len(c)]
  BY DEF mmr_rerank
<1>3. \A s \in V : S \ ToSet(s) # {} => /\ More(s) \in V /\ Len(More(s)) = Len(s) + 1
  <2> SUFFICES ASSUME NEW s \in V, S \ ToSet(s) # {}
               PROVE  More(s) \in V /\ Len(More(s)) = Len(s) + 1
    OBVIOUS
  <2> DEFINE x == NextBest(g, q, c, s)
  <2>1. x \in S \ ToSet(s)
    BY NextIs
  <2> HIDE DEF x, S
  <2>2. /\ Append(s, x) \in Seq(S) /\ Len(Append(s, x)) = Len(s) + 1
        /\ DOMAIN Append(s, x) = (DOMAIN s) \cup {Len(s) + 1} /\ Len(s) + 1 \notin DOMAIN s
        /\ Append(s, x)[Len(s) + 1] = x /\ \A i \in DOMAIN s : Append(s, x)[i] = s[i]
    BY <2>1, AppendedOne
  <2>3. \A i \in DOMAIN s : s[i] # x
    BY <2>1 DEF ToSet
  <2>4. \A i, j \in DOMAIN s : s[i] = s[j] => i = j
    BY DEF IsInjective
  <2> DEFINE t == Append(s, x)
  <2> HIDE DEF t
  <2>5. DOMAIN t = (DOMAIN s) \cup {Len(s) + 1} /\ t[Len(s) + 1] = x /\ \A i \in DOMAIN s : t[i] = s[i]
    BY <2>2 DEF t
  <2>6. \A i, j \in DOMAIN t : t[i] = t[j] => i = j
    BY ONLY <2>3, <2>4, <2>5
  <2>7. IsInjective(t)
    BY ONLY <2>6 DEF IsInjective
  <2> QED BY <2>2, <2>7 DEF t, x
<1>4. <<>> \in V /\ Len(<<>>) = 0
  BY DEF IsInjective
<1>5. f \in [1..N -> [V -> V]]
  <2> HIDE DEF V, S, More
  <2> QED BY <1>3
<1>6. \A s \in V : Len(s) < N => S \ ToSet(s) # {}
  BY <1>1, OneIsLeft
<1> HIDE DEF V, S
<1>7. \E h : Goes(h)
  <2>1. PICK h : Runs(h, N, V, <<>>, f)
    <3> HIDE DEF f, N
    <3> QED BY <1>1, <1>4, <1>5, Recursion
  <2> DEFINE H == {n \in 0..N : h[n] \in V /\ Len(h[n]) = n}
  <2>2. /\ h = [n \in 0..N |-> h[n]] /\ h[0] = <<>>
        /\ \A n \in 1..N : h[n - 1] \in V /\ h[n] = f[n][h[n - 1]]
    <3> HIDE DEF f, N
    <3> QED BY <1>1, <2>1 DEF Runs
  <2>3. \A n \in 1..N : h[n] = IF S \ ToSet(h[n - 1]) # {} THEN More(h[n - 1]) ELSE h[n - 1]
    BY <2>2
  <2> HIDE DEF f, More
  <2>4. 0 \in H
    BY <1>1, <1>4, <2>2
  <2>5. ASSUME NEW n \in 1..N, n - 1 \in H PROVE n \in H
    <3>1. h[n - 1] \in V /\ Len(h[n - 1]) = n - 1 /\ n - 1 < N /\ n \in 0..N
      BY <1>1, <2>5
    <3>2. h[n] = More(h[n - 1])
      BY <1>6, <2>3, <3>1
    <3>3. h[n] \in V /\ Len(h[n]) = n
      BY <1>3, <1>6, <3>1, <3>2
    <3> QED BY <3>1, <3>3
  <2>6. \A n \in 0..N : n \in H
    <3> HIDE DEF H, N
    <3> QED BY <1>1, <2>4, <2>5, UpTo
  <2>7. \A n \in 0..N : h[n] = IF n = 0 THEN <<>> ELSE More(h[n - 1])
    <3> SUFFICES ASSUME NEW n \in 0..N PROVE h[n] = IF n = 0 THEN <<>> ELSE More(h[n - 1])
      OBVIOUS
    <3>1. CASE n = 0
      BY <2>2, <3>1
    <3>2. CASE n # 0
      <4>1. n \in 1..N /\ n - 1 \in 0..N /\ n - 1 < N
        BY <1>1, <3>2
      <4>2. h[n - 1] \in V /\ Len(h[n - 1]) < N
        BY <2>6, <4>1
      <4> QED BY <1>6, <2>3, <3>2, <4>1, <4>2
    <3> QED BY <3>1, <3>2
  <2> QED BY <2>2, <2>7 DEF More
<1> DEFINE F == CHOOSE h : Goes(h)
<1>8. Goes(F)
  <2> HIDE DEF Goes
  <2> QED BY <1>7
<1> HIDE DEF F
<1>9. \A n \in 0..N : F[n] = IF n = 0 THEN <<>> ELSE More(F[n - 1])
  BY <1>8
<1> HIDE DEF More, Goes, f, N
<1> DEFINE G == {n \in 0..N : F[n] \in V /\ Len(F[n]) = n}
<1>10. 0 \in G
  <2>1. 0 \in 0..N
    BY <1>1
  <2>2. F[0] = <<>>
    BY ONLY <1>9, <2>1
  <2> QED BY <1>4, <2>1, <2>2
<1>11. ASSUME NEW n \in 1..N, n - 1 \in G PROVE n \in G
  <2>1. F[n - 1] \in V /\ Len(F[n - 1]) = n - 1 /\ n - 1 < N /\ n \in 0..N /\ n # 0
    BY <1>1, <1>11
  <2>2. F[n] = More(F[n - 1])
    BY <1>9, <2>1
  <2>3. F[n] \in V /\ Len(F[n]) = n
    BY <1>3, <1>6, <2>1, <2>2
  <2> QED BY <2>1, <2>3
<1>12. F[N] \in V
  <2> HIDE DEF G
  <2>1. \A n \in 0..N : n \in G
    BY <1>1, <1>10, <1>11, UpTo
  <2> QED BY <1>1, <2>1 DEF G
<1>13. mmr_rerank(g, q, c) = F[N]
  BY <1>2 DEF F, Goes, N
<1> DEFINE r == F[N]
<1>14. r \in Seq(S) /\ IsInjective(r)
  BY <1>12 DEF V
<1>15. S \subseteq [id : I, score : Nat] /\ \A x \in S : x.score >= m
  <2>1. S \subseteq [id : I, score : Nat]
    BY <1>1, MembersFinite DEF S
  <2> QED BY <2>1 DEF S, ToSet, HitsFit
<1>16. \A x, y \in S : x.id = y.id => x = y
  BY DEF S, ToSet, HitsFit
<1>17. \A x \in S : x.id \in Ids(c)
  BY DEF S, ToSet, Ids
<1> HIDE DEF r, S
<1>18. /\ r \in Seq([id : I, score : Nat]) /\ \A i \in DOMAIN r : r[i] \in S
  <2>1. \A i \in DOMAIN r : r[i] \in S
    BY <1>14
  <2>2. ToSet(r) \subseteq S
    BY <2>1 DEF ToSet
  <2> QED BY <1>14, <1>15, <2>1, <2>2, OfMembers
<1>19. HitsFit(r, I, m) /\ Ids(r) \subseteq Ids(c)
  <2>1. \A i \in DOMAIN r : r[i].score >= m
    BY ONLY <1>15, <1>18
  <2>2. \A i, j \in DOMAIN r : r[i].id = r[j].id => i = j
    <3> SUFFICES ASSUME NEW i \in DOMAIN r, NEW j \in DOMAIN r, r[i].id = r[j].id PROVE i = j
      OBVIOUS
    <3>1. r[i] = r[j]
      BY <1>16, <1>18
    <3> QED BY <1>14, <3>1 DEF IsInjective
  <2>3. \A i \in DOMAIN r : r[i].id \in Ids(c)
    BY ONLY <1>17, <1>18
  <2>4. Ids(r) \subseteq Ids(c)
    BY ONLY <2>3 DEF Ids
  <2> QED BY <1>18, <2>1, <2>2, <2>4 DEF HitsFit
<1> QED BY <1>13, <1>19 DEF r

-----------------------------------------------------------------------------
(* What the graph adds.                                                    *)

\* The graph of a search: its nodes are chunks with names of their own, and an edge joins
\* two of them.
GraphFits ==
    /\ graph.corpus \in Corpora /\ graph.corpus \in Seq(RawChunk)
    /\ \E n : NodesFit(graph.corpus, n, graph.nodes)
    /\ graph.edges \in Seq(Edge(graph.nodes))
    /\ \A e \in ToSet(graph.edges) : e.from # e.to

\* Such is every graph a build makes.
LEMMA GraphInvFits ==
  ASSUME GraphInv, stage # "build"
  PROVE  GraphFits
<1>1. PICK corpus \in Corpora : cap \in Caps /\ graph \in Graphs_of(corpus, cap)
  BY DEF GraphInv
<1>2. corpus \in Seq(RawChunk) /\ cap \in Nat
  BY <1>1, SearchAssumption
<1>3. PICK b : Built(graph, corpus, cap, b)
  BY <1>1, <1>2, GraphsAreBuilt
<1>4. ASSUME NEW e \in ToSet(graph.edges) PROVE e.from # e.to
  <2>1. \/ \E c \in DOMAIN corpus : e \in ChunkEdges(corpus, graph.nodes, b, c)
        \/ \E c \in DOMAIN corpus : e \in ContainerEdges(corpus, graph.nodes, c)
    BY <1>3 DEF Built
  <2> QED BY <2>1 DEF ChunkEdges, ContainerEdges, TargetEdges
<1> QED BY <1>1, <1>2, <1>3, <1>4 DEF Built, GraphFits

\* The nodes that a call joins with one, whichever calls.
CalledWith(i) == {k \in DOMAIN graph.nodes : CallsTo(i, k) \/ CallsTo(k, i)}

\* A walk of one hop along calls notes these.
LEMMA NearIs ==
  ASSUME GraphFits, NEW i \in DOMAIN graph.nodes, NEW kinds,
         kinds \cap {"CallsFunction", "Implements", "ModuleContains"} = {"CallsFunction"},
         NEW out, out = bfs_walk(graph, i, 1, <<"out", "in">>, kinds)
  PROVE  /\ {out[k].node : k \in DOMAIN out} = CalledWith(i)
         /\ \A k \in DOMAIN out : out[k].kind = "CallsFunction"
<1> DEFINE N == DOMAIN graph.nodes
           dirs == <<"out", "in">>
<1>1. graph.edges \in Seq(Edge(graph.nodes)) /\ ToSet(graph.edges) \subseteq Edge(graph.nodes)
      /\ \A e \in ToSet(graph.edges) : e.from # e.to
  BY DEF GraphFits, ToSet
<1>2. dirs \in Seq({"out", "in"}) /\ ToSet(dirs) = {"out", "in"}
  BY DEF ToSet
<1>3. PICK L : out = L[1].out /\ Levels(L, graph, i, 1, dirs, kinds)
  <2> HIDE DEF dirs
  <2>1. \E L : bfs_walk(graph, i, 1, dirs, kinds) = L[1].out /\ Levels(L, graph, i, 1, dirs, kinds)
    BY <1>1, <1>2, BfsLevels
  <2> QED BY <2>1 DEF dirs
<1> HIDE DEF dirs
<1>4. /\ L[0].visited = {i} /\ L[0].out = <<>> /\ WalkFits(L[1], N, i)
      /\ L[1].visited = {i} \cup Beside(graph, {i}, dirs, kinds)
      /\ ToSet(L[1].out) \subseteq ToSet(L[0].out) \cup Led(graph, {i}, dirs, kinds)
  <2>1. 1 \in 1..1 /\ 1 \in 0..1 /\ 1 - 1 = 0
    OBVIOUS
  <2> QED BY <1>3, <2>1 DEF Levels
<1>5. /\ L[1].visited = {i} \cup {out[k].node : k \in DOMAIN out}
      /\ \A k \in DOMAIN out : out[k].node # i
  BY <1>3, <1>4 DEF WalkFits
<1>6. Led(graph, {i}, dirs, kinds) = LedTo(graph, i, dirs, kinds)
  BY DEF Led
<1>7. ASSUME NEW s \in LedTo(graph, i, dirs, kinds)
      PROVE  s.kind = "CallsFunction" /\ s.node \in CalledWith(i)
  <2>1. PICK e \in ToSet(graph.edges), dir \in ToSet(dirs) :
            /\ e.kind \in kinds /\ i = neighbor_in_direction(e, IF dir = "out" THEN "in" ELSE "out")
            /\ s.node = neighbor_in_direction(e, dir) /\ s.kind = e.kind
    BY DEF LedTo
  <2>2. e.kind = "CallsFunction" /\ e.from \in N /\ e.to \in N
    BY <1>1, <2>1 DEF Edge
  <2>3. \/ e.from = i /\ e.to = s.node
        \/ e.from = s.node /\ e.to = i
    BY <1>2, <2>1 DEF neighbor_in_direction
  <2> QED BY <2>1, <2>2, <2>3 DEF CalledWith, CallsTo
<1>8. ASSUME NEW k \in CalledWith(i) PROVE k \in Beside(graph, {i}, dirs, kinds) /\ k # i
  <2>1. k \in N /\ (CallsTo(i, k) \/ CallsTo(k, i))
    BY DEF CalledWith
  <2>2. PICK e \in ToSet(graph.edges) :
            /\ e.kind = "CallsFunction"
            /\ (e.from = i /\ e.to = k) \/ (e.from = k /\ e.to = i)
    BY <2>1 DEF CallsTo
  <2> DEFINE s == [node |-> k, kind |-> "CallsFunction"]
             dir == IF e.from = i THEN "out" ELSE "in"
  <2>3. s \in Step(N) /\ s.node = k /\ s.kind = e.kind /\ e.kind \in kinds
    BY <2>1, <2>2 DEF Step
  <2> HIDE DEF s
  <2>4. /\ dir \in ToSet(dirs) /\ k # i
        /\ i = neighbor_in_direction(e, IF dir = "out" THEN "in" ELSE "out")
        /\ s.node = neighbor_in_direction(e, dir)
    BY <1>1, <1>2, <2>2, <2>3 DEF neighbor_in_direction
  <2> HIDE DEF dir
  <2>5. s \in LedTo(graph, i, dirs, kinds)
    BY <2>2, <2>3, <2>4 DEF LedTo
  <2> QED BY <1>6, <2>3, <2>4, <2>5 DEF Beside
<1>9. Beside(graph, {i}, dirs, kinds) = CalledWith(i)
  BY <1>6, <1>7, <1>8 DEF Beside
<1>10. {out[k].node : k \in DOMAIN out} = CalledWith(i)
  <2>1. i \notin CalledWith(i)
    BY <1>8
  <2> DEFINE S == {out[k].node : k \in DOMAIN out}
  <2>2. i \notin S
    BY <1>5
  <2> HIDE DEF S
  <2>3. {i} \cup S = {i} \cup CalledWith(i)
    BY <1>4, <1>5, <1>9 DEF S
  <2> QED BY <2>1, <2>2, <2>3 DEF S
<1>11. ASSUME NEW k \in DOMAIN out PROVE out[k].kind = "CallsFunction"
  <2>1. out[k] \in ToSet(L[1].out)
    BY <1>3 DEF ToSet
  <2>2. ToSet(L[0].out) = {}
    BY <1>4 DEF ToSet
  <2> QED BY <1>4, <1>6, <1>7, <2>1, <2>2
<1> QED BY <1>10, <1>11

\* What a hit hands on to a neighbour.
Given(x) == (x.score \div 10) * Multiplier["CallsFunction"]

\* A hit gives to a chunk whose symbol is joined with its own by a call.
Gives(x, id) ==
    LET Node(c) == NodeOf(graph.corpus, graph.nodes, graph.corpus[c].name)
    IN x.id \in DOMAIN graph.corpus /\ (CallsTo(Node(x.id), Node(id)) \/ CallsTo(Node(id), Node(x.id)))

\* The expansion of a hit, for the one intent that expands.
LEMMA ExpandedIs ==
  ASSUME GraphFits, NEW x
  PROVE  Expanded(graph, x, "Usage")
             = {[id |-> graph.nodes[k], score |-> Given(x)] :
                   k \in {k \in DOMAIN graph.nodes : Gives(x, graph.nodes[k])}}
<1> DEFINE corpus == graph.corpus
           nodes == graph.nodes
           N == DOMAIN nodes
           Node(c) == NodeOf(corpus, nodes, corpus[c].name)
           kinds == edge_kinds_for_intent("Usage")
           name == symbol_for_chunk(graph, x.id)
           near == neighbors_by_edge(graph, name, kinds, KG_EXPAND_HOPS)
<1>1. corpus \in Seq(RawChunk) /\ graph.edges \in Seq(Edge(nodes)) /\ ToSet(graph.edges) \subseteq Edge(nodes)
  BY DEF GraphFits, ToSet
<1>2. PICK n : NodesFit(corpus, n, nodes)
  BY DEF GraphFits
<1>3. /\ kinds \cap {"CallsFunction", "Implements", "ModuleContains"} = {"CallsFunction"}
      /\ kinds # {}
  BY DEF edge_kinds_for_intent
<1>4. \A k \in N : Node(nodes[k]) = k
  <2> SUFFICES ASSUME NEW k \in N PROVE Node(nodes[k]) = k
    OBVIOUS
  <2>1. \/ /\ Node(nodes[k]) = 0
           /\ \A i \in N : corpus[nodes[i]].name # corpus[nodes[k]].name
        \/ /\ Node(nodes[k]) \in N
           /\ corpus[nodes[Node(nodes[k])]].name = corpus[nodes[k]].name
    BY <1>1, <1>2, NodeOfIs
  <2> QED BY <1>2, <2>1 DEF NodesFit
<1>5. 0 \notin N
  BY <1>2 DEF NodesFit
<1>6. CASE x.id \notin DOMAIN corpus
  BY <1>6 DEF Expanded, Gives
<1>7. CASE x.id \in DOMAIN corpus
  <2> DEFINE i == Node(x.id)
  <2>1. Expanded(graph, x, "Usage")
            = {[id |-> near[j].chunk, score |-> (x.score \div 10) * Multiplier[near[j].kind]] :
                  j \in DOMAIN near}
    BY <1>7 DEF Expanded
  <2>2. \A k \in N : Gives(x, nodes[k]) <=> k \in CalledWith(i)
    BY <1>4, <1>7 DEF Gives, CalledWith
  <2>3. {k \in N : Gives(x, nodes[k])} = CalledWith(i)
    BY <2>2 DEF CalledWith
  <2>4. i = 0 \/ i \in N
    BY <1>1, <1>2, NodeOfIs
  <2>5. CASE i = 0
    <3>1. name = <<>>
      BY <2>5 DEF symbol_for_chunk
    <3>2. NodeOf(corpus, nodes, <<>>) = 0
      <4>1. \/ NodeOf(corpus, nodes, <<>>) = 0
            \/ /\ NodeOf(corpus, nodes, <<>>) \in DOMAIN nodes
               /\ corpus[nodes[NodeOf(corpus, nodes, <<>>)]].name = <<>>
        BY <1>1, <1>2, NodeOfIs
      <4> QED BY <1>2, <4>1 DEF NodesFit
    <3>3. near = <<>>
      BY <3>1, <3>2 DEF neighbors_by_edge, start_index
    <3>4. CalledWith(i) = {}
      BY <1>1, <1>5, <2>5 DEF CalledWith, CallsTo, Edge
    <3> QED BY <2>1, <2>3, <3>3, <3>4
  <2>6. CASE i \in N
    <3> DEFINE out == bfs_walk(graph, i, 1, <<"out", "in">>, kinds)
    <3>1. i # 0
      BY <1>5, <2>6
    <3>2. start_index(graph, name, KG_EXPAND_HOPS) = i
      BY <3>1 DEF symbol_for_chunk, start_index, KG_EXPAND_HOPS
    <3>3. near = [j \in DOMAIN out |-> [symbol |-> Symbol(corpus, nodes, out[j].node),
                                        chunk |-> nodes[out[j].node], kind |-> out[j].kind]]
      BY <1>3, <3>1, <3>2 DEF neighbors_by_edge, KG_EXPAND_HOPS
    <3>4. /\ {out[k].node : k \in DOMAIN out} = CalledWith(i)
          /\ \A k \in DOMAIN out : out[k].kind = "CallsFunction"
      BY <1>3, <2>6, NearIs
    <3> HIDE DEF out, near, i, nodes, Node
    <3>5. /\ DOMAIN near = DOMAIN out
          /\ \A j \in DOMAIN out : /\ near[j].chunk = nodes[out[j].node]
                                   /\ Multiplier[near[j].kind] = Multiplier["CallsFunction"]
      BY <3>3, <3>4
    <3>6. Expanded(graph, x, "Usage") = {[id |-> nodes[out[j].node], score |-> Given(x)] : j \in DOMAIN out}
      BY <2>1, <3>5 DEF Given
    <3>7. {[id |-> nodes[out[j].node], score |-> Given(x)] : j \in DOMAIN out}
              = {[id |-> nodes[k], score |-> Given(x)] : k \in CalledWith(i)}
      BY <3>4
    <3> QED BY <2>3, <3>6, <3>7 DEF nodes
  <2> QED BY <2>4, <2>5, <2>6
<1> QED BY <1>6, <1>7

\* A finite set of numbers has a greatest one.
LEMMA GreatestMember ==
  ASSUME NEW P \in SUBSET Nat, IsFiniteSet(P), P # {}
  PROVE  \E n \in P : \A m \in P : m <= n
<1> DEFINE R == {nm \in P \X P : nm[1] > nm[2]}
           s == Arranged(P, R)
<1>1. \A n, m \in P : <<n, m>> \in R <=> n > m
  OBVIOUS
<1> HIDE DEF R
<1>2. /\ \A n, m \in P : <<n, m>> \in R => <<m, n>> \notin R
      /\ \A n, m, k \in P : <<n, m>> \in R /\ <<m, k>> \in R => <<n, k>> \in R
      /\ \A n, m \in P : n = m \/ <<n, m>> \in R \/ <<m, n>> \in R
  BY <1>1
<1>3. /\ s \in Seq(P) /\ Len(s) = Cardinality(P) /\ ToSet(s) = P
      /\ \A p, r \in DOMAIN s : p < r => <<s[p], s[r]>> \in R
  BY ONLY <1>2, IsFiniteSet(P), ArrangedIs
<1>4. Cardinality(P) \in Nat /\ Cardinality(P) # 0
  BY FS_CardinalityType, FS_EmptySet
<1> HIDE DEF s
<1>5. DOMAIN s = 1..Len(s) /\ 1 \in DOMAIN s /\ \A r \in DOMAIN s : s[r] \in P
  BY <1>3, <1>4
<1>6. \A m \in P : m <= s[1]
  <2> SUFFICES ASSUME NEW m \in P PROVE m <= s[1]
    OBVIOUS
  <2>1. PICK r \in DOMAIN s : s[r] = m
    BY <1>3 DEF ToSet
  <2>2. CASE r = 1
    BY <2>1, <2>2
  <2>3. CASE 1 < r
    <3>1. s[1] > s[r]
      BY <1>1, <1>3, <1>5, <2>3
    <3>2. s[1] \in Nat /\ s[r] \in Nat
      BY <1>5
    <3> QED BY ONLY <2>1, <3>1, <3>2
  <2>4. r = 1 \/ 1 < r
    BY <1>3, <1>5, <2>1
  <2> QED BY ONLY <2>2, <2>3, <2>4
<1> QED BY <1>5, <1>6

\* What is found for all hits, and whom it was given by.
Offered(s) ==
    {y \in [id : DOMAIN graph.corpus, score : Nat] :
        \E x \in ToSet(s) : y.score = Given(x) /\ Gives(x, y.id) /\ y.id \in ToSet(graph.nodes)}

\* What the graph adds to some hits.
Added(r, s) ==
    /\ HitsFit(r, DOMAIN graph.corpus, 1)
    /\ Ids(r) = {graph.nodes[k] : k \in {k \in DOMAIN graph.nodes :
                    \E x \in ToSet(s) : Gives(x, graph.nodes[k])}} \ Ids(s)
    /\ \A y \in ToSet(r) : /\ \E x \in ToSet(s) : Gives(x, y.id) /\ y.score = Given(x)
                           /\ \A x \in ToSet(s) : Gives(x, y.id) => y.score >= Given(x)

\* The expansion adds each neighbour that is no hit, at the best score it was given.
LEMMA KgExpandIs ==
  ASSUME GraphFits, NEW I \in SUBSET Nat, NEW s, HitsFit(s, I, 10)
  PROVE  Added(kg_expand(graph, s, "Usage"), s)
<1> DEFINE nodes == graph.nodes
           S == ToSet(s)
           gifts == UNION {Expanded(graph, s[i], "Usage") : i \in DOMAIN s}
           new == {x \in gifts : x.id \notin Ids(s)}
           best == {x \in new : \A y \in new : y.id = x.id => y.score <= x.score}
<1>1. kg_expand(graph, s, "Usage") = Sorted(best)
  BY DEF kg_expand
<1>2. /\ s \in Seq([id : I, score : Nat]) /\ DOMAIN s = 1..Len(s) /\ Len(s) \in Nat
      /\ \A i \in DOMAIN s : s[i] \in [id : I, score : Nat]
  <2> DEFINE H == [id : I, score : Nat]
  <2>1. s \in Seq(H)
    BY DEF HitsFit
  <2> HIDE DEF H
  <2>2. DOMAIN s = 1..Len(s) /\ Len(s) \in Nat /\ \A i \in DOMAIN s : s[i] \in H
    BY <2>1
  <2> QED BY <2>1, <2>2 DEF H
<1>3. \A i \in DOMAIN nodes : nodes[i] \in DOMAIN graph.corpus
  BY DEF GraphFits, NodesFit
<1>4. DOMAIN nodes = 1..Len(nodes) /\ Len(nodes) \in Nat
  BY DEF GraphFits, NodesFit
<1>5. DOMAIN graph.corpus \in SUBSET Nat
  BY DEF GraphFits
<1>6. \A x \in S : Given(x) \in Nat /\ Given(x) >= 1
  <2> SUFFICES ASSUME NEW x \in S PROVE Given(x) \in Nat /\ Given(x) >= 1
    OBVIOUS
  <2>1. x.score \in Nat /\ x.score >= 10
    <3>1. PICK i \in DOMAIN s : s[i] = x
      BY DEF ToSet
    <3>2. s[i] \in [id : I, score : Nat]
      BY <1>2
    <3>3. s[i].score >= 10
      BY DEF HitsFit
    <3> QED BY <3>1, <3>2, <3>3
  <2>2. Multiplier["CallsFunction"] \in 1..10
    BY SearchAssumption
  <2> DEFINE a == x.score \div 10
             b == Multiplier["CallsFunction"]
  <2>3. a \in Nat /\ a >= 1 /\ b \in Nat /\ b >= 1
    BY <2>1, <2>2
  <2> HIDE DEF a, b
  <2>4. a * b \in Nat /\ a * b >= 1
    BY ONLY <2>3
  <2> QED BY <2>4 DEF Given, a, b
<1>7. \A i \in DOMAIN s : s[i] \in S
  BY DEF ToSet
<1>8. \A i \in DOMAIN s : Expanded(graph, s[i], "Usage")
          = {[id |-> nodes[k], score |-> Given(s[i])] : k \in {k \in DOMAIN nodes : Gives(s[i], nodes[k])}}
  BY ExpandedIs
<1>9. gifts = Offered(s)
  <2>1. ASSUME NEW y \in gifts PROVE y \in Offered(s)
    <3>1. PICK i \in DOMAIN s : y \in Expanded(graph, s[i], "Usage")
      OBVIOUS
    <3> HIDE DEF gifts
    <3>2. PICK k \in DOMAIN nodes : Gives(s[i], nodes[k]) /\ y = [id |-> nodes[k], score |-> Given(s[i])]
      BY <1>8, <3>1
    <3>3. y \in [id : DOMAIN graph.corpus, score : Nat]
      BY <1>3, <1>6, <1>7, <3>2
    <3>4. y.id \in ToSet(graph.nodes)
      BY <3>2 DEF ToSet
    <3> QED BY <1>7, <3>2, <3>3, <3>4 DEF Offered
  <2>2. ASSUME NEW y \in Offered(s) PROVE y \in gifts
    <3>1. PICK x \in S : y.score = Given(x) /\ Gives(x, y.id) /\ y.id \in ToSet(nodes)
      BY DEF Offered
    <3>2. PICK i \in DOMAIN s : s[i] = x
      BY DEF ToSet
    <3>3. PICK k \in DOMAIN nodes : nodes[k] = y.id
      BY <3>1 DEF ToSet
    <3>4. y = [id |-> nodes[k], score |-> Given(s[i])]
      BY <3>1, <3>2, <3>3 DEF Offered
    <3>5. y \in Expanded(graph, s[i], "Usage")
      BY <1>8, <3>1, <3>2, <3>3, <3>4
    <3> QED BY <3>5
  <2> QED BY <2>1, <2>2
<1>10. IsFiniteSet(gifts)
  <2> DEFINE f == [ki \in (DOMAIN nodes) \X (DOMAIN s) |-> [id |-> nodes[ki[1]], score |-> Given(s[ki[2]])]]
  <2>1. IsFiniteSet(DOMAIN nodes) /\ IsFiniteSet(DOMAIN s)
    <3>1. DOMAIN nodes = 1..Len(nodes) /\ DOMAIN s = 1..Len(s)
          /\ Len(nodes) \in Int /\ Len(s) \in Int /\ 1 \in Int
      BY <1>2, <1>4
    <3> QED BY ONLY <3>1, FS_Interval
  <2>2. IsFiniteSet((DOMAIN nodes) \X (DOMAIN s)) /\ DOMAIN f = (DOMAIN nodes) \X (DOMAIN s)
    BY <2>1, FS_Product
  <2>3. gifts \subseteq {f[ki] : ki \in DOMAIN f}
    <3> SUFFICES ASSUME NEW y \in Offered(s) PROVE \E ki \in DOMAIN f : y = f[ki]
      BY <1>9
    <3>1. PICK x \in S : y.score = Given(x) /\ y.id \in ToSet(nodes)
      BY DEF Offered
    <3>2. PICK i \in DOMAIN s : s[i] = x
      BY DEF ToSet
    <3>3. PICK k \in DOMAIN nodes : nodes[k] = y.id
      BY <3>1 DEF ToSet
    <3>4. y = [id |-> nodes[k], score |-> Given(s[i])]
      BY <3>1, <3>2, <3>3 DEF Offered
    <3>5. <<k, i>> \in DOMAIN f /\ f[<<k, i>>] = y
      BY <3>4
    <3> QED BY <3>5
  <2> HIDE DEF f, gifts
  <2>4. IsFiniteSet({f[ki] : ki \in DOMAIN f})
    BY <2>2, ImageFinite
  <2> QED BY <2>3, <2>4, FS_Subset
<1> HIDE DEF gifts
<1>11. /\ gifts \subseteq [id : DOMAIN graph.corpus, score : Nat]
       /\ \A y \in gifts : y.score \in Nat /\ y.score >= 1 /\ y.id \in DOMAIN graph.corpus
  BY <1>6, <1>9 DEF Offered
<1>12. IsFiniteSet(new) /\ new \subseteq gifts
  BY <1>10, FS_Subset
<1> HIDE DEF new
<1>13. IsFiniteSet(best) /\ best \subseteq gifts /\ best \subseteq new
  BY <1>10, <1>12, FS_Subset
<1>14. \A x, y \in best : x.id = y.id => x = y
  <2> SUFFICES ASSUME NEW x \in best, NEW y \in best, x.id = y.id PROVE x = y
    OBVIOUS
  <2>1. x.score <= y.score /\ y.score <= x.score
    OBVIOUS
  <2>2. x \in [id : DOMAIN graph.corpus, score : Nat] /\ y \in [id : DOMAIN graph.corpus, score : Nat]
    BY <1>11, <1>13
  <2> QED BY <2>1, <2>2
<1>15. ASSUME NEW z \in new PROVE \E x \in best : x.id = z.id
  <2> DEFINE T == {y \in new : y.id = z.id}
             f == [y \in T |-> y.score]
             P == {f[y] : y \in DOMAIN f}
  <2>1. IsFiniteSet(T) /\ DOMAIN f = T
    BY <1>12, FS_Subset
  <2>2. P \in SUBSET Nat /\ P # {}
    BY <1>11, <1>12, <1>15
  <2>3. IsFiniteSet(P)
    <3> HIDE DEF f, T
    <3> QED BY <2>1, ImageFinite
  <2>4. PICK n \in P : \A m \in P : m <= n
    <3> HIDE DEF P
    <3> QED BY <2>2, <2>3, GreatestMember
  <2>5. PICK x \in T : x.score = n
    OBVIOUS
  <2>6. \A y \in new : y.id = x.id => y.score <= x.score
    <3> SUFFICES ASSUME NEW y \in new, y.id = x.id PROVE y.score <= x.score
      OBVIOUS
    <3>1. y \in T
      BY <2>5
    <3>2. y.score \in P
      BY <3>1
    <3> QED BY <2>4, <2>5, <3>2
  <2> QED BY <2>5, <2>6
<1> DEFINE r == Sorted(best)
<1>16. HitsFit(r, DOMAIN graph.corpus, 1) /\ ToSet(r) = best
  <2>1. best \subseteq [id : DOMAIN graph.corpus, score : Nat] /\ \A x \in best : x.score >= 1
    BY <1>11, <1>13
  <2>2. \A x, y \in best : x.id = y.id => x = y
    BY <1>14
  <2> HIDE DEF best
  <2> QED BY <1>5, <1>13, <2>1, <2>2, SortedHits
<1>17. Ids(r) = {y.id : y \in best}
  <2> HIDE DEF best, r
  <2> QED BY <1>16 DEF Ids, ToSet
<1>18. {y.id : y \in best} = {y.id : y \in new}
  BY <1>13, <1>15
<1> HIDE DEF r
<1>19. {y.id : y \in new} = {nodes[k] : k \in {k \in DOMAIN nodes : \E x \in S : Gives(x, nodes[k])}} \ Ids(s)
  <2>1. ASSUME NEW y \in new
        PROVE  /\ y.id \notin Ids(s)
               /\ \E k \in DOMAIN nodes : y.id = nodes[k] /\ \E x \in S : Gives(x, nodes[k])
    <3>1. y \in Offered(s) /\ y.id \notin Ids(s)
      BY <1>9 DEF new
    <3>2. PICK x \in S : Gives(x, y.id) /\ y.id \in ToSet(nodes)
      BY <3>1 DEF Offered
    <3>3. PICK k \in DOMAIN nodes : y.id = nodes[k]
      BY <3>2 DEF ToSet
    <3> QED BY <3>1, <3>2, <3>3
  <2>2. ASSUME NEW k \in DOMAIN nodes, NEW x \in S, Gives(x, nodes[k]), nodes[k] \notin Ids(s)
        PROVE  \E y \in new : y.id = nodes[k]
    <3> DEFINE y == [id |-> nodes[k], score |-> Given(x)]
    <3>1. y \in [id : DOMAIN graph.corpus, score : Nat] /\ y.id = nodes[k] /\ y.score = Given(x)
      BY <1>3, <1>6
    <3> HIDE DEF y
    <3>2. nodes[k] \in ToSet(nodes)
      BY DEF ToSet
    <3>3. y \in gifts
      BY <1>9, <2>2, <3>1, <3>2 DEF Offered
    <3> QED BY <2>2, <3>1, <3>3 DEF new
  <2> HIDE DEF nodes, S
  <2> QED BY <2>1, <2>2
<1>20. ASSUME NEW y \in best
       PROVE  /\ \E x \in S : Gives(x, y.id) /\ y.score = Given(x)
              /\ \A x \in S : Gives(x, y.id) => y.score >= Given(x)
  <2>1. y \in Offered(s) /\ y.id \notin Ids(s) /\ \A z \in new : z.id = y.id => z.score <= y.score
    BY <1>9, <1>13 DEF new
  <2>2. PICK x \in S : Gives(x, y.id) /\ y.score = Given(x) /\ y.id \in ToSet(nodes)
    BY <2>1 DEF Offered
  <2>3. ASSUME NEW w \in S, Gives(w, y.id) PROVE y.score >= Given(w)
    <3> DEFINE z == [id |-> y.id, score |-> Given(w)]
    <3>1. z \in [id : DOMAIN graph.corpus, score : Nat] /\ z.id = y.id /\ z.score = Given(w)
      BY <1>6, <2>1 DEF Offered
    <3> HIDE DEF z
    <3>2. z \in gifts
      BY <1>9, <2>2, <2>3, <3>1 DEF Offered
    <3>3. z \in new
      BY <2>1, <3>1, <3>2 DEF new
    <3>4. z.score <= y.score
      BY <2>1, <3>1, <3>3
    <3>5. z.score \in Nat /\ y.score \in Nat
      BY <2>1, <3>1 DEF Offered
    <3> QED BY <3>1, <3>4, <3>5
  <2> QED BY <2>2, <2>3
<1>21. Added(r, s)
  <2>1. \A y \in ToSet(r) : /\ \E x \in S : Gives(x, y.id) /\ y.score = Given(x)
                            /\ \A x \in S : Gives(x, y.id) => y.score >= Given(x)
    BY <1>16, <1>20
  <2>2. Ids(r) = {nodes[k] : k \in {k \in DOMAIN nodes : \E x \in S : Gives(x, nodes[k])}} \ Ids(s)
    BY <1>17, <1>18, <1>19
  <2> QED BY <1>16, <2>1, <2>2 DEF Added
<1> QED BY <1>1, <1>21 DEF r

-----------------------------------------------------------------------------
(* Order, and what is returned.                                            *)

\* At a place in one order no more is ahead than at a place in another.
NoMore(s, t, n, m) ==
    /\ \A p \in 1..(m - 1) : \E r \in 1..(n - 1) : s[r].id = t[p].id
    /\ \A p, r \in 1..(m - 1) : t[p].id = t[r].id => p = r

\* Such a place is no later.
LEMMA NoLater ==
  ASSUME NEW s, NEW t, NEW n \in Nat \ {0}, NEW m \in Nat \ {0}, NoMore(s, t, n, m)
  PROVE  m <= n
<1> DEFINE N == n - 1
           M == m - 1
           f == [p \in 1..M |-> CHOOSE r \in 1..N : s[r].id = t[p].id]
<1>1. N \in Nat /\ M \in Nat
  OBVIOUS
<1>2. f \in [1..M -> 1..N] /\ \A p \in 1..M : s[f[p]].id = t[p].id
  BY DEF NoMore
<1>3. \A p, r \in 1..M : t[p].id = t[r].id => p = r
  BY DEF NoMore
<1> HIDE DEF f, N, M
<1>4. f \in Injection(1..M, 1..N)
  BY <1>2, <1>3 DEF Injection, IsInjective
<1>5. /\ IsFiniteSet(1..N) /\ IsFiniteSet(1..M) /\ Cardinality(1..N) = N /\ Cardinality(1..M) = M
  <2>1. 1 \in Int /\ N \in Int /\ M \in Int
    BY <1>1
  <2>2. /\ IsFiniteSet(1..N) /\ Cardinality(1..N) = IF 1 > N THEN 0 ELSE N - 1 + 1
        /\ IsFiniteSet(1..M) /\ Cardinality(1..M) = IF 1 > M THEN 0 ELSE M - 1 + 1
    BY ONLY <2>1, FS_Interval
  <2> QED BY <1>1, <2>2
<1>6. M <= N
  BY <1>1, <1>4, <1>5, FS_Injection
<1> QED BY <1>6 DEF N, M

\* What it says of some that they are hits; and hits in turn stand as they score.
LEMMA HitsAre ==
  ASSUME NEW I \in SUBSET Nat, NEW m \in Nat, NEW s, HitsFit(s, I, m)
  PROVE  /\ DOMAIN s = 1..Len(s) /\ Len(s) \in Nat
         /\ \A i \in DOMAIN s : /\ s[i] \in [id : I, score : Nat] /\ s[i].score >= m
                                /\ s[i].id \in Nat /\ s[i].score \in Nat
         /\ \A i, j \in DOMAIN s : s[i].id = s[j].id => i = j
         /\ InTurn(s) => \A i, j \in DOMAIN s : Before(s[i], s[j]) => i < j
<1> DEFINE H == [id : I, score : Nat]
<1>1. s \in Seq(H) /\ \A i \in DOMAIN s : s[i].score >= m
  BY DEF HitsFit
<1> HIDE DEF H
<1>2. DOMAIN s = 1..Len(s) /\ Len(s) \in Nat /\ \A i \in DOMAIN s : s[i] \in H
  BY <1>1
<1>3. \A x \in H : x.id \in Nat /\ x.score \in Nat
  BY DEF H
<1>4. ASSUME InTurn(s), NEW i \in DOMAIN s, NEW j \in DOMAIN s, Before(s[i], s[j]) PROVE i < j
  <2>1. ~Before(s[j], s[i])
    BY <1>2, <1>3, <1>4 DEF Before
  <2>2. i # j
    BY <1>4, <2>1
  <2>3. ~(j < i)
    BY <1>4, <2>1 DEF InTurn
  <2> QED BY <1>2, <2>2, <2>3
<1> QED BY <1>1, <1>2, <1>3, <1>4 DEF H, HitsFit

\* The best of some hits that have a chunk.
Present(g, k, s) == Kept(Take(k, s), {c \in ToSet(Take(k, s)) : c.id \in DOMAIN g.corpus})

\* They are hits in the same order, and just these.
Presents(u, s, I, m, g, k) ==
    /\ HitsFit(u, I, m) /\ InTurn(u) /\ Len(u) <= k
    /\ \A c \in ToSet(u) : c.id \in DOMAIN g.corpus /\ \E p \in DOMAIN s : p <= k /\ s[p] = c
    /\ \A p \in DOMAIN s : p <= k /\ s[p].id \in DOMAIN g.corpus => s[p] \in ToSet(u)

\* So are the ones taken.
LEMMA PresentIs ==
  ASSUME NEW I \in SUBSET Nat, NEW m \in Nat, NEW s, HitsFit(s, I, m), InTurn(s),
         NEW k \in Nat, NEW g
  PROVE  Presents(Present(g, k, s), s, I, m, g, k)
<1> DEFINE H == [id : I, score : Nat]
           t == Take(k, s)
           K == {c \in ToSet(t) : c.id \in DOMAIN g.corpus}
           u == Present(g, k, s)
<1>1. s \in Seq(H) /\ IsInjective(s)
  BY DEF HitsFit, IsInjective
<1>2. u = Kept(t, K)
  BY DEF Present
<1>3. \A c : c \in K <=> c \in ToSet(t) /\ c.id \in DOMAIN g.corpus
  OBVIOUS
<1> HIDE DEF H, u, t, K
<1>4. /\ t \in Seq(H) /\ Len(t) = (IF k < Len(s) THEN k ELSE Len(s)) /\ DOMAIN t = 1..Len(t)
      /\ DOMAIN t \subseteq DOMAIN s /\ \A p \in DOMAIN t : t[p] = s[p]
      /\ IsInjective(t) /\ \A x, y : Ahead(t, x, y) => Ahead(s, x, y)
  BY <1>1, TakeIs DEF t
<1>5. /\ u \in Seq(H) /\ ToSet(u) = ToSet(t) \cap K /\ IsInjective(u)
      /\ \A x, y : Ahead(u, x, y) => Ahead(t, x, y)
      /\ Len(u) <= Len(t)
  BY <1>2, <1>4, KeptIs
<1>6. DOMAIN s = 1..Len(s) /\ Len(s) \in Nat
  BY <1>1
<1>7. DOMAIN u = 1..Len(u) /\ Len(u) \in Nat /\ \A i \in DOMAIN u : u[i] \in ToSet(u) /\ u[i] \in H
  BY <1>5 DEF ToSet
<1>8. Len(u) <= k
  BY <1>4, <1>5, <1>6, <1>7
<1>9. ASSUME NEW c \in ToSet(u)
      PROVE  c.id \in DOMAIN g.corpus /\ \E p \in DOMAIN s : p <= k /\ s[p] = c
  <2>1. c \in ToSet(t) /\ c.id \in DOMAIN g.corpus
    BY <1>3, <1>5
  <2>2. PICK p \in DOMAIN t : t[p] = c
    BY <2>1 DEF ToSet
  <2>3. p \in DOMAIN s /\ s[p] = c /\ p <= k
    BY <1>4, <1>6, <2>2
  <2> QED BY <2>1, <2>3
<1>10. ASSUME NEW p \in DOMAIN s, p <= k, s[p].id \in DOMAIN g.corpus PROVE s[p] \in ToSet(u)
  <2>1. p \in DOMAIN t
    BY <1>4, <1>6, <1>10
  <2>2. s[p] \in ToSet(t)
    BY <1>4, <2>1 DEF ToSet
  <2> QED BY <1>3, <1>5, <1>10, <2>2
<1>11. \A x \in ToSet(u) : \E p \in DOMAIN s : s[p] = x
  BY <1>9
<1>12. HitsFit(u, I, m)
  <2>1. \A i \in DOMAIN u : u[i].score >= m
    <3> SUFFICES ASSUME NEW i \in DOMAIN u PROVE u[i].score >= m
      OBVIOUS
    <3>1. PICK p \in DOMAIN s : s[p] = u[i]
      BY <1>7, <1>11
    <3> QED BY <3>1 DEF HitsFit
  <2>2. \A i, j \in DOMAIN u : u[i].id = u[j].id => i = j
    <3> SUFFICES ASSUME NEW i \in DOMAIN u, NEW j \in DOMAIN u, u[i].id = u[j].id PROVE i = j
      OBVIOUS
    <3>1. PICK p \in DOMAIN s : s[p] = u[i]
      BY <1>7, <1>11
    <3>2. PICK r \in DOMAIN s : s[r] = u[j]
      BY <1>7, <1>11
    <3>3. p = r
      BY <3>1, <3>2 DEF HitsFit
    <3> QED BY <1>5, <3>1, <3>2, <3>3 DEF IsInjective
  <2> QED BY <1>5, <2>1, <2>2 DEF HitsFit, H
<1>13. InTurn(u)
  <2> SUFFICES ASSUME NEW i \in DOMAIN u, NEW j \in DOMAIN u, i < j PROVE Before(u[i], u[j])
    BY DEF InTurn
  <2>1. Ahead(u, u[i], u[j])
    BY DEF Ahead
  <2>2. Ahead(s, u[i], u[j])
    BY <1>4, <1>5, <2>1
  <2>3. PICK p, r \in DOMAIN s : p < r /\ s[p] = u[i] /\ s[r] = u[j]
    BY <2>2 DEF Ahead
  <2> QED BY <2>3 DEF InTurn
<1> QED BY <1>8, <1>9, <1>10, <1>12, <1>13 DEF Presents, u

\* Each of them with the reason for it.
Returned(r, u, in_v, in_b, in_kg) ==
    /\ Len(r) = Len(u) /\ DOMAIN r = DOMAIN u
    /\ \A i \in DOMAIN r :
          /\ r[i].id = u[i].id /\ r[i].score = u[i].score
          /\ r[i].reason = compute_match_reason(r[i].id \in in_v, r[i].id \in in_b,
                                                r[i].id \in in_kg)

\* A search returns these.
LEMMA MaterializeIs ==
  ASSUME NEW I \in SUBSET Nat, NEW s, HitsFit(s, I, 1), InTurn(s), NEW g, NEW q,
         q.top_k \in Nat, NEW in_v, NEW in_b, NEW in_kg
  PROVE  Returned(materialize_search_results(g, q, s, in_v, in_b, in_kg), Present(g, q.top_k, s),
                  in_v, in_b, in_kg)
<1> DEFINE u == Present(g, q.top_k, s)
           Row(i) == [id |-> u[i].id, score |-> u[i].score,
                      reason |-> compute_match_reason(u[i].id \in in_v, u[i].id \in in_b,
                                                      u[i].id \in in_kg),
                      on_branch |-> g.corpus[u[i].id].file \in resolve_branch_set(q)]
           r == materialize_search_results(g, q, s, in_v, in_b, in_kg)
<1>1. Len(u) \in Nat /\ DOMAIN u = 1..Len(u)
  <2>1. HitsFit(u, I, 1)
    BY PresentIs DEF Presents
  <2> HIDE DEF u
  <2> QED BY <2>1, HitsAre
<1>2. r = [i \in DOMAIN u |-> Row(i)]
  BY DEF materialize_search_results, Present
<1>3. \A i : /\ Row(i).id = u[i].id /\ Row(i).score = u[i].score
             /\ Row(i).reason = compute_match_reason(u[i].id \in in_v, u[i].id \in in_b,
                                                     u[i].id \in in_kg)
  OBVIOUS
<1> HIDE DEF u, Row, r
<1>4. DOMAIN r = 1..Len(u) /\ \A i \in DOMAIN r : r[i] = Row(i)
  BY <1>1, <1>2
<1>5. Len(r) = Len(u)
  <2>1. r \in [1..Len(u) -> {Row(i) : i \in DOMAIN u}]
    BY <1>1, <1>2
  <2> QED BY <1>1, <2>1
<1> QED BY <1>1, <1>3, <1>4, <1>5 DEF Returned, u, r

\* The score of a hit before and after the branch counts.
Base(g, intent, c) ==
    c.score * (IF c.id \in DOMAIN g.corpus /\ intent = "Definition"
               THEN file_type_score_multiplier(g.corpus[c.id].file) ELSE 2)
Factor(g, q, c) ==
    IF c.id \in DOMAIN g.corpus /\ g.corpus[c.id].file \in resolve_branch_set(q)
    THEN ClampedBoost(q) ELSE 10

\* The score alone is changed, and stays positive.
LEMMA AdjustedIs ==
  ASSUME NEW I \in SUBSET Nat, NEW c \in [id : I, score : Nat], c.score >= 1,
         NEW g, NEW intent, NEW q, q.boost \in Int
  PROVE  /\ Base(g, intent, c) \in Nat /\ Base(g, intent, c) >= 1
         /\ ClampedBoost(q) \in 10..30 /\ Factor(g, q, c) \in {10, ClampedBoost(q)}
         /\ Adjusted(g, q, intent, c).id = c.id
         /\ Adjusted(g, q, intent, c).score = Base(g, intent, c) * Factor(g, q, c)
         /\ Adjusted(g, q, intent, c).score >= 1
         /\ Adjusted(g, q, intent, c) \in [id : I, score : Nat]
<1> DEFINE b == Base(g, intent, c)
           f == Factor(g, q, c)
           w == IF c.id \in DOMAIN g.corpus /\ intent = "Definition"
                THEN file_type_score_multiplier(g.corpus[c.id].file) ELSE 2
<1>1. c.id \in I /\ c.score \in Nat
  OBVIOUS
<1>2. w \in {1, 2}
  BY DEF file_type_score_multiplier
<1>3. b = c.score * w
  BY DEF Base
<1>4. ClampedBoost(q) \in 10..30 /\ f \in {10, ClampedBoost(q)}
  BY DEF ClampedBoost, Factor
<1>5. Adjusted(g, q, intent, c) = [c EXCEPT !.score = b * f]
  BY DEF Adjusted, Base, Factor
<1> HIDE DEF b, f, w
<1>6. b \in Nat /\ b >= 1
  BY ONLY <1>1, <1>2, <1>3, c.score >= 1
<1>7. b * f \in Nat /\ b * f >= 1
  <2>1. f \in Nat /\ f >= 1
    BY <1>4
  <2> QED BY ONLY <1>6, <2>1
<1> DEFINE v == b * f
<1> HIDE DEF v
<1>8. [c EXCEPT !.score = v] \in [id : I, score : Nat] /\ [c EXCEPT !.score = v].id = c.id
      /\ [c EXCEPT !.score = v].score = v
  BY <1>7 DEF v
<1> QED BY <1>4, <1>5, <1>6, <1>7, <1>8 DEF b, f, v

\* The same hits with other scores, in the order of these.
Adjusting(r, s, I, g, intent, q) ==
    /\ HitsFit(r, I, 1) /\ InTurn(r)
    /\ \A i \in DOMAIN r : \E k \in DOMAIN s : r[i] = Adjusted(g, q, intent, s[k])
    /\ \A k \in DOMAIN s : \E i \in DOMAIN r : r[i] = Adjusted(g, q, intent, s[k])

\* The adjustment makes them so.
LEMMA AdjustmentsAre ==
  ASSUME NEW I \in SUBSET Nat, NEW s, HitsFit(s, I, 1), NEW g, NEW intent, NEW q, q.boost \in Int
  PROVE  Adjusting(apply_score_adjustments(g, q, intent, s), s, I, g, intent, q)
<1> DEFINE H == [id : I, score : Nat]
           A == [k \in DOMAIN s |-> Adjusted(g, q, intent, s[k])]
           C == {A[k] : k \in DOMAIN A}
           r == apply_score_adjustments(g, q, intent, s)
<1>1. s \in Seq(H)
  BY DEF HitsFit
<1>2. \A k \in DOMAIN s : s[k] \in H
  <2> HIDE DEF H
  <2> QED BY <1>1
<1>3. \A k \in DOMAIN s : s[k].score >= 1
  BY DEF HitsFit
<1>4. \A k \in DOMAIN s : A[k] \in H /\ A[k].id = s[k].id /\ A[k].score >= 1
  <2> SUFFICES ASSUME NEW k \in DOMAIN s PROVE A[k] \in H /\ A[k].id = s[k].id /\ A[k].score >= 1
    OBVIOUS
  <2>1. A[k] = Adjusted(g, q, intent, s[k])
    OBVIOUS
  <2>2. s[k] \in H /\ s[k].score >= 1
    BY <1>2, <1>3
  <2> HIDE DEF A
  <2> QED BY <2>1, <2>2, AdjustedIs
<1>5. DOMAIN A = DOMAIN s /\ \A k \in DOMAIN s : A[k] = Adjusted(g, q, intent, s[k])
  OBVIOUS
<1>6. C = {Adjusted(g, q, intent, s[k]) : k \in DOMAIN s}
  OBVIOUS
<1>7. r = Sorted(C)
  BY <1>6 DEF apply_score_adjustments
<1>8. IsFiniteSet(DOMAIN s)
  <2>1. DOMAIN s = 1..Len(s) /\ Len(s) \in Int /\ 1 \in Int
    <3> HIDE DEF H
    <3> QED BY <1>1
  <2> QED BY ONLY <2>1, FS_Interval
<1> HIDE DEF A
<1>9. IsFiniteSet(C)
  BY <1>5, <1>8, ImageFinite
<1>10. /\ C \subseteq H /\ \A x \in C : x.score >= 1
       /\ \A x, y \in C : x.id = y.id => x = y
  <2>1. \A x \in C : \E k \in DOMAIN s : x = A[k]
    BY <1>5
  <2>2. \A k, n \in DOMAIN s : s[k].id = s[n].id => k = n
    BY DEF HitsFit
  <2> HIDE DEF C, H
  <2>3. C \subseteq H /\ \A x \in C : x.score >= 1
    BY <1>4, <2>1
  <2>4. ASSUME NEW x \in C, NEW y \in C, x.id = y.id PROVE x = y
    <3>1. PICK k \in DOMAIN s : x = A[k]
      BY <2>1
    <3>2. PICK n \in DOMAIN s : y = A[n]
      BY <2>1
    <3> QED BY <1>4, <2>2, <2>4, <3>1, <3>2
  <2> QED BY <2>3, <2>4
<1>11. HitsFit(r, I, 1) /\ ToSet(r) = C /\ InTurn(r)
  <2> HIDE DEF C
  <2> QED BY <1>7, <1>9, <1>10, SortedHits
<1> HIDE DEF r
<1>12. \A i \in DOMAIN r : \E k \in DOMAIN s : r[i] = A[k]
  <2> SUFFICES ASSUME NEW i \in DOMAIN r PROVE \E k \in DOMAIN s : r[i] = A[k]
    OBVIOUS
  <2>1. r[i] \in C
    BY <1>11 DEF ToSet
  <2> QED BY <1>5, <2>1
<1>13. \A k \in DOMAIN s : \E i \in DOMAIN r : r[i] = A[k]
  <2> SUFFICES ASSUME NEW k \in DOMAIN s PROVE \E i \in DOMAIN r : r[i] = A[k]
    OBVIOUS
  <2>1. A[k] \in ToSet(r)
    BY <1>5, <1>11
  <2> QED BY <2>1 DEF ToSet
<1> QED BY <1>5, <1>11, <1>12, <1>13 DEF Adjusting, r

\* A product with the greater factor is the greater.
LEMMA Scaled ==
  ASSUME NEW a \in Nat, NEW b \in Nat, NEW f \in Nat, NEW w \in Nat, f <= w, w >= 1
  PROVE  /\ a * f > b * w => a > b
         /\ a * f = b * w => a >= b
         /\ a > b => a * w > b * w
<1>1. a * f <= a * w
  <2>1. a * w = a * f + a * (w - f)
    OBVIOUS
  <2>2. a * (w - f) >= 0 /\ a * f \in Int /\ a * (w - f) \in Int
    OBVIOUS
  <2> QED BY ONLY <2>1, <2>2
<1>2. ASSUME a <= b PROVE a * w <= b * w
  <2>1. b * w = a * w + (b - a) * w
    OBVIOUS
  <2>2. (b - a) * w >= 0 /\ a * w \in Int /\ (b - a) * w \in Int
    BY <1>2
  <2> QED BY ONLY <2>1, <2>2
<1>3. ASSUME a < b PROVE a * w < b * w
  <2>1. b * w = a * w + (b - a) * w
    OBVIOUS
  <2>2. (b - a) * w >= 1 /\ a * w \in Int /\ (b - a) * w \in Int
    BY <1>3
  <2> QED BY ONLY <2>1, <2>2
<1>4. ASSUME a > b PROVE a * w > b * w
  <2>1. a * w = b * w + (a - b) * w
    OBVIOUS
  <2>2. (a - b) * w >= 1 /\ b * w \in Int /\ (a - b) * w \in Int
    BY <1>4
  <2> QED BY ONLY <2>1, <2>2
<1>5. a * f \in Int /\ a * w \in Int /\ b * w \in Int
  OBVIOUS
<1>6. ASSUME a * f > b * w PROVE a > b
  BY ONLY <1>1, <1>2, <1>5, <1>6, a \in Nat, b \in Nat
<1>7. ASSUME a * f = b * w PROVE a >= b
  BY ONLY <1>1, <1>3, <1>5, <1>7, a \in Nat, b \in Nat
<1> QED BY <1>4, <1>6, <1>7

\* A chunk of the branch has no more ahead of it with the boost than without.
LEMMA BoostMoves ==
  ASSUME NEW I \in SUBSET Nat, NEW g, NEW intent, NEW q, q.boost \in Int,
         NEW p, p.boost = 10,
         NEW x \in [id : I, score : Nat], NEW y \in [id : I, score : Nat],
         x.score >= 1, y.score >= 1,
         x.id \in DOMAIN g.corpus, g.corpus[x.id].file \in BranchFiles(q),
         Before(Adjusted(g, q, intent, y), Adjusted(g, q, intent, x))
  PROVE  Before(Adjusted(g, p, intent, y), Adjusted(g, p, intent, x))
<1> DEFINE a == Base(g, intent, y)
           b == Base(g, intent, x)
           w == ClampedBoost(q)
           f == Factor(g, q, y)
<1>1. /\ a \in Nat /\ b \in Nat /\ w \in 10..30 /\ f \in {10, w}
      /\ Adjusted(g, q, intent, y).id = y.id /\ Adjusted(g, q, intent, y).score = a * f
      /\ Adjusted(g, q, intent, x).id = x.id
      /\ Adjusted(g, q, intent, x).score = b * Factor(g, q, x)
  BY AdjustedIs
<1>2. Factor(g, q, x) = w
  BY DEF Factor, resolve_branch_set, ClampedBoost
<1>3. p.boost \in Int /\ Factor(g, p, y) = 10 /\ Factor(g, p, x) = 10
  BY DEF Factor, resolve_branch_set, ClampedBoost
<1>4. /\ Adjusted(g, p, intent, y).id = y.id /\ Adjusted(g, p, intent, y).score = a * 10
      /\ Adjusted(g, p, intent, x).id = x.id /\ Adjusted(g, p, intent, x).score = b * 10
  BY <1>3, AdjustedIs
<1>5. a * f > b * w \/ (a * f = b * w /\ y.id < x.id)
  BY <1>1, <1>2 DEF Before
<1> HIDE DEF a, b, w, f
<1>6. f \in Nat /\ w \in Nat /\ f <= w /\ w >= 1
  BY <1>1
<1>7. (a * f > b * w => a > b) /\ (a * f = b * w => a >= b)
  BY ONLY <1>1, <1>6, Scaled
<1>8. a > b => a * 10 > b * 10
  BY ONLY <1>1
<1>9. a * 10 > b * 10 \/ (a * 10 = b * 10 /\ y.id < x.id)
  BY ONLY <1>1, <1>5, <1>7, <1>8
<1> QED BY <1>4, <1>9 DEF Before

\* All that is ahead of a place in one order is ahead of a place in another.
AllAhead(P, Q, r, o) ==
    \A l \in DOMAIN Q : l < o => \E m \in DOMAIN P : m < r /\ P[m].id = Q[l].id

\* A hit is found no later among others.
NotBehind(best, plain, i) == \E j \in DOMAIN best : best[j].id = plain[i].id /\ j <= i

\* What has no more ahead of it when the best are taken stands no later among them.
LEMMA KeepsPlace ==
  ASSUME NEW I \in SUBSET Nat, NEW g, NEW k \in Nat,
         NEW P, HitsFit(P, I, 1), InTurn(P), NEW Q, HitsFit(Q, I, 1), InTurn(Q),
         NEW plain, Presents(plain, P, I, 1, g, k), NEW best, Presents(best, Q, I, 1, g, k),
         NEW i \in DOMAIN plain, NEW r \in DOMAIN P, NEW o \in DOMAIN Q,
         P[r].id = plain[i].id, Q[o].id = plain[i].id,
         AllAhead(P, Q, r, o)
  PROVE  NotBehind(best, plain, i)
<1>1. HitsFit(plain, I, 1) /\ InTurn(plain) /\ HitsFit(best, I, 1) /\ InTurn(best)
  BY DEF Presents
<1>2. /\ \A c \in ToSet(plain) : c.id \in DOMAIN g.corpus /\ \E p \in DOMAIN P : p <= k /\ P[p] = c
      /\ \A p \in DOMAIN P : p <= k /\ P[p].id \in DOMAIN g.corpus => P[p] \in ToSet(plain)
  BY DEF Presents
<1>3. /\ \A c \in ToSet(best) : c.id \in DOMAIN g.corpus /\ \E p \in DOMAIN Q : p <= k /\ Q[p] = c
      /\ \A p \in DOMAIN Q : p <= k /\ Q[p].id \in DOMAIN g.corpus => Q[p] \in ToSet(best)
  BY DEF Presents
<1>4. /\ DOMAIN P = 1..Len(P) /\ Len(P) \in Nat
      /\ \A n, m \in DOMAIN P : P[n].id = P[m].id => n = m
      /\ \A n, m \in DOMAIN P : Before(P[n], P[m]) => n < m
  BY HitsAre
<1>5. /\ DOMAIN Q = 1..Len(Q) /\ Len(Q) \in Nat
      /\ \A n, m \in DOMAIN Q : Q[n].id = Q[m].id => n = m
      /\ \A n, m \in DOMAIN Q : Before(Q[n], Q[m]) => n < m
  BY HitsAre
<1>6. /\ DOMAIN plain = 1..Len(plain) /\ Len(plain) \in Nat
      /\ \A n, m \in DOMAIN plain : plain[n].id = plain[m].id => n = m
      /\ \A n, m \in DOMAIN plain : Before(plain[n], plain[m]) => n < m
  BY <1>1, HitsAre
<1>7. /\ DOMAIN best = 1..Len(best) /\ Len(best) \in Nat
      /\ \A n, m \in DOMAIN best : best[n].id = best[m].id => n = m
  BY <1>1, HitsAre
<1>8. /\ \A n \in DOMAIN plain : plain[n] \in ToSet(plain)
      /\ \A n \in DOMAIN best : best[n] \in ToSet(best)
  BY DEF ToSet
<1>9. P[r] = plain[i] /\ r <= k /\ P[r].id \in DOMAIN g.corpus
  <2>1. PICK p \in DOMAIN P : p <= k /\ P[p] = plain[i]
    BY <1>2, <1>8
  <2>2. p = r
    BY <1>4, <2>1
  <2> QED BY <1>2, <1>8, <2>1, <2>2
<1>10. o <= r
  <2>1. o \in Nat \ {0} /\ r \in Nat \ {0}
    BY <1>4, <1>5
  <2>2. \A l \in 1..(o - 1) : l \in DOMAIN Q /\ l < o
    BY <1>5, <2>1
  <2>3. \A m \in DOMAIN P : m < r => m \in 1..(r - 1)
    BY <1>4, <2>1
  <2>4. \A l \in 1..(o - 1) : \E m \in 1..(r - 1) : P[m].id = Q[l].id
    BY <2>2, <2>3 DEF AllAhead
  <2>5. \A l, m \in 1..(o - 1) : Q[l].id = Q[m].id => l = m
    BY <1>5, <2>2
  <2>6. NoMore(P, Q, r, o)
    BY <2>4, <2>5 DEF NoMore
  <2> QED BY <2>1, <2>6, NoLater
<1>11. Q[o] \in ToSet(best)
  <2>1. o <= k
    BY <1>4, <1>5, <1>9, <1>10
  <2> QED BY <1>3, <1>9, <2>1
<1>12. PICK j \in DOMAIN best : best[j] = Q[o]
  BY <1>11 DEF ToSet
<1>13. ASSUME NEW l \in DOMAIN best, l < j
       PROVE  \E m \in DOMAIN plain : m < i /\ plain[m].id = best[l].id
  <2>1. PICK h \in DOMAIN Q : h <= k /\ Q[h] = best[l] /\ best[l].id \in DOMAIN g.corpus
    BY <1>3, <1>8
  <2>2. h < o
    <3>1. Before(best[l], best[j])
      BY <1>1, <1>13 DEF InTurn
    <3> QED BY <1>5, <1>12, <2>1, <3>1
  <2>3. PICK m \in DOMAIN P : m < r /\ P[m].id = Q[h].id
    BY <2>2 DEF AllAhead
  <2>4. m <= k
    BY <1>4, <1>9, <2>3
  <2>5. P[m] \in ToSet(plain)
    BY <1>2, <2>1, <2>3, <2>4
  <2>6. PICK d \in DOMAIN plain : plain[d] = P[m]
    BY <2>5 DEF ToSet
  <2>7. Before(P[m], P[r])
    BY <2>3 DEF InTurn
  <2>8. d < i
    BY <1>6, <1>9, <2>6, <2>7
  <2> QED BY <2>1, <2>3, <2>6, <2>8
<1>14. j <= i
  <2>1. j \in Nat \ {0} /\ i \in Nat \ {0}
    BY <1>6, <1>7
  <2>2. \A l \in 1..(j - 1) : l \in DOMAIN best /\ l < j
    BY <1>7, <2>1
  <2>3. \A m \in DOMAIN plain : m < i => m \in 1..(i - 1)
    BY <1>6, <2>1
  <2>4. \A l \in 1..(j - 1) : \E m \in 1..(i - 1) : plain[m].id = best[l].id
    BY <1>13, <2>2, <2>3
  <2>5. \A l, m \in 1..(j - 1) : best[l].id = best[m].id => l = m
    BY <1>7, <2>2
  <2>6. NoMore(plain, best, i, j)
    BY <2>4, <2>5 DEF NoMore
  <2> QED BY <2>1, <2>6, NoLater
<1> QED BY <1>12, <1>14 DEF NotBehind

\* So it is returned with the boost if it is without it, and stands no later.
LEMMA BoostIs ==
  ASSUME NEW I \in SUBSET Nat, NEW s, HitsFit(s, I, 1), NEW g, NEW intent, NEW k \in Nat,
         NEW q, q.boost \in Int, NEW p, p.boost = 10,
         NEW plain, plain = Present(g, k, apply_score_adjustments(g, p, intent, s)),
         NEW best, best = Present(g, k, apply_score_adjustments(g, q, intent, s)),
         NEW i \in DOMAIN plain, g.corpus[plain[i].id].file \in BranchFiles(q)
  PROVE  NotBehind(best, plain, i)
<1> DEFINE P == apply_score_adjustments(g, p, intent, s)
           Q == apply_score_adjustments(g, q, intent, s)
           x == plain[i].id
<1>1. Adjusting(P, s, I, g, intent, p) /\ Adjusting(Q, s, I, g, intent, q)
  BY AdjustmentsAre
<1> HIDE DEF P, Q
<1>2. /\ HitsFit(P, I, 1) /\ InTurn(P)
      /\ \A r \in DOMAIN P : \E n \in DOMAIN s : P[r] = Adjusted(g, p, intent, s[n])
      /\ \A n \in DOMAIN s : \E r \in DOMAIN P : P[r] = Adjusted(g, p, intent, s[n])
  BY <1>1 DEF Adjusting
<1>3. /\ HitsFit(Q, I, 1) /\ InTurn(Q)
      /\ \A r \in DOMAIN Q : \E n \in DOMAIN s : Q[r] = Adjusted(g, q, intent, s[n])
      /\ \A n \in DOMAIN s : \E r \in DOMAIN Q : Q[r] = Adjusted(g, q, intent, s[n])
  BY <1>1 DEF Adjusting
<1>4. Presents(plain, P, I, 1, g, k) /\ Presents(best, Q, I, 1, g, k)
  BY <1>2, <1>3, PresentIs DEF P, Q
<1>5. \A n \in DOMAIN s : s[n] \in [id : I, score : Nat] /\ s[n].score >= 1
  BY HitsAre
<1>6. \A n \in DOMAIN s : /\ Adjusted(g, p, intent, s[n]).id = s[n].id
                          /\ Adjusted(g, q, intent, s[n]).id = s[n].id
  <2> SUFFICES ASSUME NEW n \in DOMAIN s
               PROVE  /\ Adjusted(g, p, intent, s[n]).id = s[n].id
                      /\ Adjusted(g, q, intent, s[n]).id = s[n].id
    OBVIOUS
  <2>1. s[n] \in [id : I, score : Nat] /\ s[n].score >= 1 /\ p.boost \in Int
    BY <1>5
  <2> QED BY <2>1, AdjustedIs
<1>7. x \in DOMAIN g.corpus /\ \E r \in DOMAIN P : P[r] = plain[i]
  BY <1>4 DEF Presents, ToSet
<1>8. PICK r \in DOMAIN P : P[r] = plain[i]
  BY <1>7
<1>9. PICK n \in DOMAIN s : P[r] = Adjusted(g, p, intent, s[n])
  BY <1>2
<1>10. PICK o \in DOMAIN Q : Q[o] = Adjusted(g, q, intent, s[n])
  BY <1>3
<1>11. s[n].id = x /\ Q[o].id = x
  BY <1>6, <1>8, <1>9, <1>10
<1>12. ASSUME NEW l \in DOMAIN Q, l < o
       PROVE  \E m \in DOMAIN P : m < r /\ P[m].id = Q[l].id
  <2>1. PICK h \in DOMAIN s : Q[l] = Adjusted(g, q, intent, s[h])
    BY <1>3
  <2>2. Before(Q[l], Q[o])
    BY <1>3, <1>12 DEF InTurn
  <2>3. Before(Adjusted(g, p, intent, s[h]), Adjusted(g, p, intent, s[n]))
    <3>1. /\ s[n] \in [id : I, score : Nat] /\ s[n].score >= 1
          /\ s[h] \in [id : I, score : Nat] /\ s[h].score >= 1
      BY <1>5
    <3>2. /\ s[n].id \in DOMAIN g.corpus /\ g.corpus[s[n].id].file \in BranchFiles(q)
          /\ Before(Adjusted(g, q, intent, s[h]), Adjusted(g, q, intent, s[n]))
      BY <1>7, <1>10, <1>11, <2>1, <2>2
    <3> QED BY <3>1, <3>2, BoostMoves
  <2>4. PICK m \in DOMAIN P : P[m] = Adjusted(g, p, intent, s[h])
    BY <1>2
  <2>5. P[m].id = Q[l].id
    BY <1>6, <2>1, <2>4
  <2>6. \A a, b \in DOMAIN P : Before(P[a], P[b]) => a < b
    BY <1>2, HitsAre
  <2>7. m < r
    BY <1>9, <2>3, <2>4, <2>6
  <2> QED BY <2>5, <2>7
<1>13. AllAhead(P, Q, r, o)
  BY <1>12 DEF AllAhead
<1>14. P[r].id = plain[i].id /\ Q[o].id = plain[i].id
  BY <1>8, <1>11
<1> QED BY <1>2, <1>3, <1>4, <1>13, <1>14, KeepsPlace

-----------------------------------------------------------------------------
(* From the lanes to the results.                                          *)

\* What a query is taken for, and what follows from it.
LEMMA IntentionIs ==
  ASSUME NEW words, NEW terms
  PROVE  LET i == classify_with_domain(words, terms)
         IN /\ weights(i).alpha \in 1..9 /\ weights(i).beta \in 1..9
            /\ weights(i).kg => i = "Usage"
<1> DEFINE match == SelectInSeq(Chain, LAMBDA p : Pattern[p[1]] \cap words # {})
           I == {i \in 1..Len(Chain) : Pattern[Chain[i][1]] \cap words # {}}
<1>1. Len(Chain) = 11
  BY DEF Chain
<1>2. match = 0 \/ match \in 1..11
  <2>1. match = IF I # {} THEN Min(I) ELSE 0
    BY DEF SelectInSeq
  <2>2. ASSUME I # {} PROVE Min(I) \in 1..11
    <3>1. I \in SUBSET Nat /\ I \subseteq 1..11
      BY <1>1
    <3>2. IsFiniteSet(1..11)
      <4>1. 1 \in Int /\ 11 \in Int
        OBVIOUS
      <4> QED BY ONLY <4>1, FS_Interval
    <3> HIDE DEF I
    <3>3. IsFiniteSet(I)
      BY <3>1, <3>2, FS_Subset
    <3>4. PICK n \in I : \A m \in I : n <= m
      BY <2>2, <3>1, <3>3, LeastMember
    <3>5. Min(I) \in I
      BY <3>4, Zenon DEF Min
    <3> QED BY <3>1, <3>5
  <2> HIDE DEF match, I
  <2> QED BY <2>1, <2>2
<1>3. classify(words) = IF match = 0 THEN "Unknown" ELSE Chain[match][2]
  BY DEF classify
<1> HIDE DEF match
<1>4. \A m \in 1..11 : Chain[m][2] \in Intent
  <2> SUFFICES ASSUME NEW m \in 1..11 PROVE Chain[m][2] \in Intent
    OBVIOUS
  <2>1. \/ m = 1 \/ m = 2 \/ m = 3 \/ m = 4 \/ m = 5 \/ m = 6 \/ m = 7 \/ m = 8
        \/ m = 9 \/ m = 10 \/ m = 11
    OBVIOUS
  <2> QED BY <2>1 DEF Chain, Intent
<1>5. classify(words) \in Intent
  BY <1>2, <1>3, <1>4 DEF Intent
<1>6. classify_with_domain(words, terms) \in Intent
  BY <1>5 DEF classify_with_domain, Intent
<1>7. \A i \in Intent : /\ weights(i).alpha \in 1..9 /\ weights(i).beta \in 1..9
                        /\ weights(i).kg => i = "Usage"
  BY DEF weights, Intent
<1> QED BY <1>6, <1>7

\* Hits and further hits.
LEMMA JoinedHits ==
  ASSUME NEW I \in SUBSET Nat, NEW J \in SUBSET I, NEW s, HitsFit(s, I, 10),
         NEW r, HitsFit(r, J, 1), Ids(r) \cap Ids(s) = {}
  PROVE  /\ HitsFit(s \o r, I, 1) /\ ToSet(s \o r) = ToSet(s) \cup ToSet(r)
         /\ Ids(s \o r) = Ids(s) \cup Ids(r)
<1> DEFINE H == [id : I, score : Nat]
           u == s \o r
<1>1. s \in Seq(H)
  BY DEF HitsFit
<1>2. /\ DOMAIN r = 1..Len(r) /\ Len(r) \in Nat
      /\ \A i \in DOMAIN r : r[i] \in H /\ r[i].score >= 1 /\ r[i].id \in Ids(r)
      /\ \A i, j \in DOMAIN r : r[i].id = r[j].id => i = j
  <2>1. J \in SUBSET Nat
    OBVIOUS
  <2>2. /\ DOMAIN r = 1..Len(r) /\ Len(r) \in Nat
        /\ \A i \in DOMAIN r : r[i] \in [id : J, score : Nat] /\ r[i].score >= 1
        /\ \A i, j \in DOMAIN r : r[i].id = r[j].id => i = j
    BY <2>1, HitsAre
  <2>3. \A x \in [id : J, score : Nat] : x \in H
    OBVIOUS
  <2> HIDE DEF H
  <2> QED BY <2>2, <2>3 DEF Ids
<1>3. /\ DOMAIN s = 1..Len(s) /\ Len(s) \in Nat
      /\ \A i \in DOMAIN s : s[i] \in H /\ s[i].score >= 1 /\ s[i].id \in Ids(s)
      /\ \A i, j \in DOMAIN s : s[i].id = s[j].id => i = j
  <2>1. /\ DOMAIN s = 1..Len(s) /\ Len(s) \in Nat
        /\ \A i \in DOMAIN s : s[i] \in H /\ s[i].score >= 10 /\ s[i].score \in Nat
        /\ \A i, j \in DOMAIN s : s[i].id = s[j].id => i = j
    <3> DEFINE m == 10
    <3>1. m \in Nat /\ HitsFit(s, I, m)
      OBVIOUS
    <3> HIDE DEF m
    <3>2. /\ DOMAIN s = 1..Len(s) /\ Len(s) \in Nat
          /\ \A i \in DOMAIN s : s[i] \in [id : I, score : Nat] /\ s[i].score >= m /\ s[i].score \in Nat
          /\ \A i, j \in DOMAIN s : s[i].id = s[j].id => i = j
      BY <3>1, HitsAre
    <3> QED BY <3>2 DEF m
  <2> HIDE DEF H
  <2> QED BY <2>1 DEF Ids
<1>4. r \in Seq(H)
  <2>1. r \in Seq([id : J, score : Nat]) /\ ToSet(r) \subseteq H
    <3> HIDE DEF H
    <3> QED BY <1>2 DEF HitsFit, ToSet
  <2> HIDE DEF H
  <2> QED BY <2>1, OfMembers
<1> HIDE DEF H, u
<1>5. u \in Seq(H) /\ ToSet(u) = ToSet(s) \cup ToSet(r)
  BY <1>1, <1>4, Appended DEF u
<1>6. /\ DOMAIN u = 1..(Len(s) + Len(r)) /\ \A i \in DOMAIN s : u[i] = s[i]
      /\ \A i \in DOMAIN r : u[Len(s) + i] = r[i]
  BY <1>1, <1>2, <1>3, <1>4 DEF u
<1>7. \A i \in DOMAIN u : \/ i \in DOMAIN s /\ u[i] = s[i]
                          \/ i - Len(s) \in DOMAIN r /\ u[i] = r[i - Len(s)]
  <2> SUFFICES ASSUME NEW i \in DOMAIN u, i \notin DOMAIN s
               PROVE  i - Len(s) \in DOMAIN r /\ u[i] = r[i - Len(s)]
    BY <1>6
  <2>1. i - Len(s) \in DOMAIN r /\ Len(s) + (i - Len(s)) = i
    BY <1>2, <1>3, <1>6
  <2> QED BY <1>6, <2>1
<1>8. \A i \in DOMAIN u : u[i].score >= 1
  BY <1>2, <1>3, <1>7
<1>9. \A i, j \in DOMAIN u : u[i].id = u[j].id => i = j
  <2> SUFFICES ASSUME NEW i \in DOMAIN u, NEW j \in DOMAIN u, u[i].id = u[j].id PROVE i = j
    OBVIOUS
  <2>1. CASE i \in DOMAIN s /\ u[i] = s[i] /\ j \in DOMAIN s /\ u[j] = s[j]
    BY <1>3, <2>1
  <2>2. CASE /\ i - Len(s) \in DOMAIN r /\ u[i] = r[i - Len(s)]
             /\ j - Len(s) \in DOMAIN r /\ u[j] = r[j - Len(s)]
    <3>1. i - Len(s) = j - Len(s)
      BY <1>2, <2>2
    <3> QED BY <1>3, <1>6, <3>1, <1>2
  <2>3. CASE i \in DOMAIN s /\ u[i] = s[i] /\ j - Len(s) \in DOMAIN r /\ u[j] = r[j - Len(s)]
    BY <1>2, <1>3, <2>3
  <2>4. CASE j \in DOMAIN s /\ u[j] = s[j] /\ i - Len(s) \in DOMAIN r /\ u[i] = r[i - Len(s)]
    BY <1>2, <1>3, <2>4
  <2> QED BY <1>7, <2>1, <2>2, <2>3, <2>4
<1>10. /\ \A c \in {s, r, u} : Ids(c) = {x.id : x \in ToSet(c)}
  BY DEF Ids, ToSet
<1>11. Ids(u) = Ids(s) \cup Ids(r)
  BY <1>5, <1>10
<1> QED BY <1>5, <1>8, <1>9, <1>11 DEF HitsFit, H, u

\* What the lanes have found.
LanesFit ==
    /\ hnsw \in Seq(1..Stale(graph)) /\ IsInjective(hnsw) /\ Len(hnsw) <= MaxLane
    /\ bm25_lane \in Seq(DOMAIN graph.corpus) /\ IsInjective(bm25_lane)
    /\ Len(bm25_lane) <= MaxLane + (IF stage = "lanes" THEN 0 ELSE 1)

InLanes == ToSet(hnsw) \cup ToSet(bm25_lane)

\* How far a search is, and what it has.
HitsInv ==
    /\ stage \in {"build", "idle", "lanes", "fuse", "expand", "adjust", "materialize", "done"}
    /\ stage \in {"build", "idle"} => hnsw = <<>> /\ bm25_lane = <<>>
    /\ stage \in {"build", "idle", "lanes", "fuse"} => all = <<>>
    /\ stage \in {"build", "idle", "lanes", "fuse", "expand"} => kg = {}
    /\ stage \notin {"build", "idle"} => query \in Queries[graph.corpus] /\ LanesFit
    /\ stage = "expand" => HitsFit(all, 1..Stale(graph), 10) /\ Ids(all) \subseteq InLanes
    /\ stage \in {"adjust", "materialize", "done"} =>
           /\ HitsFit(all, 1..Stale(graph), 1) /\ Ids(all) \subseteq InLanes \cup kg
           /\ kg \subseteq DOMAIN graph.corpus
    /\ GraphAdds
    /\ stage \in {"materialize", "done"} => InTurn(all)
    /\ stage = "done" =>
           results = materialize_search_results(graph, query, all, ToSet(hnsw), ToSet(bm25_lane), kg)

SearchInv == GraphInv /\ HitsInv

\* Once a graph is built, its chunks have J, and a request is what it should be.
LEMMA SearchFits ==
  ASSUME GraphInv, HitsInv, stage # "build"
  PROVE  /\ GraphFits /\ DOMAIN graph.corpus = 1..Len(graph.corpus) /\ Len(graph.corpus) \in Nat
         /\ DOMAIN graph.corpus \subseteq 1..Stale(graph) /\ 1..Stale(graph) \in SUBSET Nat
         /\ stage # "idle" => query \in SearchQuery
<1>1. GraphFits
  BY GraphInvFits
<1>2. graph.corpus \in Corpora /\ graph.corpus \in Seq(RawChunk)
  BY <1>1 DEF GraphFits
<1>3. DOMAIN graph.corpus = 1..Len(graph.corpus) /\ Len(graph.corpus) \in Nat
  BY <1>2
<1>4. stage # "idle" => query \in SearchQuery
  BY <1>2, SearchAssumption DEF HitsInv
<1> QED BY <1>1, <1>3, <1>4 DEF Stale

\* A member put before others it is not among.
LEMMA PutFirst ==
  ASSUME NEW T, NEW x \in T, NEW s \in Seq(T), IsInjective(s), x \notin ToSet(s)
  PROVE  <<x>> \o s \in Seq(T) /\ IsInjective(<<x>> \o s) /\ Len(<<x>> \o s) = 1 + Len(s)
<1> DEFINE u == <<x>> \o s
<1>1. /\ u \in Seq(T) /\ Len(u) = 1 + Len(s) /\ DOMAIN u = 1..(1 + Len(s)) /\ Len(s) \in Nat
      /\ u[1] = x /\ \A i \in 1..Len(s) : u[1 + i] = s[i]
      /\ DOMAIN s = 1..Len(s)
  OBVIOUS
<1> HIDE DEF u
<1>2. ASSUME NEW i \in DOMAIN u, i # 1 PROVE i - 1 \in DOMAIN s /\ u[i] = s[i - 1]
  <2>1. i - 1 \in 1..Len(s) /\ 1 + (i - 1) = i
    BY <1>1, <1>2
  <2> QED BY <1>1, <2>1
<1>3. \A i \in DOMAIN s : s[i] # x
  BY DEF ToSet
<1>4. ASSUME NEW i \in DOMAIN u, NEW j \in DOMAIN u, u[i] = u[j] PROVE i = j
  <2>1. CASE i = 1 /\ j # 1
    BY <1>1, <1>2, <1>3, <1>4, <2>1
  <2>2. CASE j = 1 /\ i # 1
    BY <1>1, <1>2, <1>3, <1>4, <2>2
  <2>3. CASE i # 1 /\ j # 1
    <3>1. i - 1 \in DOMAIN s /\ j - 1 \in DOMAIN s /\ s[i - 1] = s[j - 1]
      BY <1>2, <1>4, <2>3
    <3>2. i - 1 = j - 1
      BY <3>1 DEF IsInjective
    <3> QED BY <1>1, <3>2
  <2> QED BY <2>1, <2>2, <2>3
<1>5. IsInjective(u)
  BY <1>4 DEF IsInjective
<1> QED BY <1>1, <1>5 DEF u

\* A build finds nothing yet.
LEMMA BuildFinds ==
  ASSUME HitsInv, Build
  PROVE  HitsInv'
BY DEF HitsInv, Build, GraphAdds

\* The lanes find some of the chunks, each once.
LEMMA LanesFind ==
  ASSUME GraphInv, HitsInv, Lanes
  PROVE  HitsInv'
<1>1. /\ stage = "idle" /\ stage' = "lanes" /\ query' \in Queries[graph.corpus]
      /\ graph' = graph /\ all' = all /\ kg' = kg
  BY DEF Lanes
<1>2. PICK nearest \in Rankings(1..Stale(graph)), lexical \in Rankings(DOMAIN graph.corpus) :
          hnsw' = (IF query'.embedder THEN nearest ELSE <<>>) /\ bm25_lane' = lexical
  BY DEF Lanes
<1>3. \A J : \A s \in Rankings(J) : s \in Seq(J) /\ IsInjective(s) /\ Len(s) <= MaxLane
  <2> SUFFICES ASSUME NEW J, NEW s \in Rankings(J)
               PROVE  s \in Seq(J) /\ IsInjective(s) /\ Len(s) <= MaxLane
    OBVIOUS
  <2>1. PICK n \in 0..MaxLane : s \in [1..n -> J]
    BY DEF Rankings, SeqOf
  <2>2. n \in Nat /\ n <= MaxLane
    BY <2>1, SearchAssumption
  <2>3. s \in Seq(J) /\ Len(s) = n
    BY ONLY <2>1, <2>2
  <2> QED BY <2>2, <2>3 DEF Rankings
<1>4. <<>> \in Seq(1..Stale(graph)) /\ IsInjective(<<>>) /\ Len(<<>>) <= MaxLane
  BY SearchAssumption DEF IsInjective
<1>5. hnsw' \in Seq(1..Stale(graph)) /\ IsInjective(hnsw') /\ Len(hnsw') <= MaxLane
  BY <1>2, <1>3, <1>4
<1>6. bm25_lane' \in Seq(DOMAIN graph.corpus) /\ IsInjective(bm25_lane') /\ Len(bm25_lane') <= MaxLane + 0
  <2>1. Len(lexical) <= MaxLane /\ MaxLane \in Nat
    BY <1>3, SearchAssumption
  <2>2. MaxLane + 0 = MaxLane
    BY <2>1
  <2> QED BY <1>2, <1>3, <2>1, <2>2
<1>7. LanesFit'
  BY <1>1, <1>5, <1>6 DEF LanesFit, Stale
<1>8. all = <<>> /\ kg = {}
  BY <1>1 DEF HitsInv
<1>9. GraphAdds'
  BY <1>1 DEF GraphAdds
<1> QED BY <1>1, <1>7, <1>8, <1>9 DEF HitsInv

\* So they do with a chunk put first.
LEMMA InjectFinds ==
  ASSUME GraphInv, HitsInv, InjectExact
  PROVE  HitsInv'
<1>1. /\ stage = "lanes" /\ stage' = "fuse" /\ query' = query
      /\ graph' = graph /\ all' = all /\ kg' = kg /\ hnsw' = hnsw
  BY DEF InjectExact
<1>2. LanesFit /\ query \in Queries[graph.corpus] /\ all = <<>> /\ kg = {}
  BY <1>1 DEF HitsInv
<1>3. bm25_lane \in Seq(DOMAIN graph.corpus) /\ IsInjective(bm25_lane) /\ Len(bm25_lane) <= MaxLane
  <2>1. Len(bm25_lane) <= MaxLane + 0 /\ bm25_lane \in Seq(DOMAIN graph.corpus) /\ IsInjective(bm25_lane)
    BY <1>1, <1>2 DEF LanesFit
  <2>2. MaxLane \in Nat
    BY SearchAssumption
  <2> QED BY <2>1, <2>2
<1>4. /\ bm25_lane' \in Seq(DOMAIN graph.corpus) /\ IsInjective(bm25_lane')
      /\ Len(bm25_lane') <= MaxLane + 1
  <2>1. CASE bm25_lane' = bm25_lane
    <3>1. Len(bm25_lane) \in Nat /\ MaxLane \in Nat
      BY <1>3, SearchAssumption
    <3>2. Len(bm25_lane) <= MaxLane + 1
      BY <1>3, <3>1
    <3> QED BY <1>3, <2>1, <3>2
  <2>2. CASE \E hit \in Exact(graph, query) : bm25_lane' = Inject(bm25_lane, hit)
    <3>1. PICK hit \in Exact(graph, query) : bm25_lane' = Inject(bm25_lane, hit)
      BY <2>2
    <3> DEFINE D == DOMAIN graph.corpus
               rest == Kept(bm25_lane, ToSet(bm25_lane) \ {hit})
    <3>2. hit \in D
      BY <3>1 DEF Exact
    <3>3. bm25_lane' = <<hit>> \o rest
      BY <3>1 DEF Inject
    <3>4. /\ rest \in Seq(D) /\ ToSet(rest) = ToSet(bm25_lane) \cap (ToSet(bm25_lane) \ {hit})
          /\ IsInjective(rest) /\ Len(rest) <= Len(bm25_lane)
      BY <1>3, KeptIs
    <3> HIDE DEF D, rest
    <3>5. hit \notin ToSet(rest)
      BY <3>4
    <3>6. <<hit>> \o rest \in Seq(D) /\ IsInjective(<<hit>> \o rest)
          /\ Len(<<hit>> \o rest) = 1 + Len(rest)
      BY <3>2, <3>4, <3>5, PutFirst
    <3>7. Len(bm25_lane) \in Nat /\ Len(rest) \in Nat /\ MaxLane \in Nat
      BY <1>3, <3>4, SearchAssumption
    <3>8. 1 + Len(rest) <= MaxLane + 1
      BY <1>3, <3>4, <3>7
    <3> QED BY <3>3, <3>6, <3>8 DEF D
  <2>3. \/ bm25_lane' = bm25_lane
        \/ \E hit \in Exact(graph, query) : bm25_lane' = Inject(bm25_lane, hit)
    BY DEF InjectExact
  <2> QED BY <2>1, <2>2, <2>3
<1>5. LanesFit'
  BY <1>1, <1>2, <1>4 DEF LanesFit, Stale
<1>6. GraphAdds'
  BY <1>1 DEF GraphAdds
<1> QED BY <1>1, <1>2, <1>5, <1>6 DEF HitsInv

\* What they have found is fused, and reordered.
LEMMA FuseFinds ==
  ASSUME GraphInv, HitsInv, Fuse
  PROVE  HitsInv'
<1> DEFINE w == weights(Intention)
           fused == rrf_fuse(hnsw, bm25_lane, w.alpha, w.beta, query.top_k)
           I == 1..Stale(graph)
<1>1. /\ stage = "fuse" /\ stage' = "expand" /\ query' = query /\ graph' = graph
      /\ kg' = kg /\ hnsw' = hnsw /\ bm25_lane' = bm25_lane
      /\ all' = IF query.cached = {} THEN fused ELSE mmr_rerank(graph, query, fused)
  BY DEF Fuse
<1>2. LanesFit /\ query \in Queries[graph.corpus] /\ kg = {}
  BY <1>1 DEF HitsInv
<1>3. DOMAIN graph.corpus \subseteq I /\ I \in SUBSET Nat /\ query \in SearchQuery
  BY <1>1, SearchFits
<1>4. w.alpha \in 1..9 /\ w.beta \in 1..9 /\ query.top_k \in Nat
  BY <1>3, IntentionIs DEF Intention, SearchQuery
<1>5. /\ hnsw \in Seq(I) /\ bm25_lane \in Seq(I) /\ IsInjective(hnsw) /\ IsInjective(bm25_lane)
      /\ Len(hnsw) <= MaxLane + 1 /\ Len(bm25_lane) <= MaxLane + 1
  <2>1. /\ hnsw \in Seq(I) /\ bm25_lane \in Seq(DOMAIN graph.corpus)
        /\ IsInjective(hnsw) /\ IsInjective(bm25_lane)
        /\ Len(hnsw) <= MaxLane /\ Len(bm25_lane) <= MaxLane + 1
    BY <1>1, <1>2 DEF LanesFit
  <2> HIDE DEF I
  <2>2. Len(hnsw) \in Nat /\ MaxLane \in Nat
    BY <2>1, SearchAssumption
  <2>3. ToSet(bm25_lane) \subseteq I
    BY <1>3, <2>1, MembersFinite
  <2>4. bm25_lane \in Seq(I)
    BY <2>1, <2>3, OfMembers
  <2>5. Len(hnsw) <= MaxLane + 1
    BY <2>1, <2>2
  <2> QED BY <2>1, <2>4, <2>5
<1> HIDE DEF w, I
<1>6. HitsFit(fused, I, 10) /\ Ids(fused) \subseteq InLanes
  BY <1>3, <1>4, <1>5, FusedHits DEF InLanes
<1> HIDE DEF fused
<1>7. HitsFit(all', I, 10) /\ Ids(all') \subseteq InLanes
  <2>1. /\ HitsFit(mmr_rerank(graph, query, fused), I, 10)
        /\ Ids(mmr_rerank(graph, query, fused)) \subseteq Ids(fused)
    <3> DEFINE m == 10
    <3>1. m \in Nat /\ HitsFit(fused, I, m)
      BY <1>6
    <3> HIDE DEF m
    <3>2. /\ HitsFit(mmr_rerank(graph, query, fused), I, m)
          /\ Ids(mmr_rerank(graph, query, fused)) \subseteq Ids(fused)
      BY <1>3, <3>1, RerankIs
    <3> QED BY <3>2 DEF m
  <2>2. all' = fused \/ all' = mmr_rerank(graph, query, fused)
    BY <1>1
  <2> QED BY <1>6, <2>1, <2>2
<1>8. InLanes' = InLanes /\ (1..Stale(graph))' = I
  BY <1>1 DEF InLanes, I, Stale
<1>9. LanesFit'
  BY <1>1, <1>2 DEF LanesFit, Stale
<1>10. GraphAdds'
  BY <1>1 DEF GraphAdds
<1>11. HitsFit(all, 1..Stale(graph), 10)' /\ (Ids(all) \subseteq InLanes)'
  BY <1>7, <1>8 DEF HitsFit, Ids
<1> QED BY <1>1, <1>2, <1>9, <1>10, <1>11 DEF HitsInv

\* What the graph adds is what it should.
LEMMA ExpandFinds ==
  ASSUME GraphInv, HitsInv, Expand
  PROVE  HitsInv'
<1> DEFINE r == IF weights(Intention).kg /\ query.expand_graph
                THEN kg_expand(graph, all, Intention) ELSE <<>>
           s == all
           u == s \o r
           K == Ids(r)
           I == 1..Stale(graph)
           D == DOMAIN graph.corpus
<1>1. /\ stage = "expand" /\ stage' = "adjust" /\ query' = query /\ graph' = graph
      /\ hnsw' = hnsw /\ bm25_lane' = bm25_lane /\ all' = u /\ kg' = K
  BY DEF Expand
<1>2. LanesFit /\ query \in Queries[graph.corpus] /\ HitsFit(s, I, 10) /\ Ids(s) \subseteq InLanes
  BY <1>1 DEF HitsInv
<1>3. D \subseteq I /\ I \in SUBSET Nat /\ GraphFits
  BY <1>1, SearchFits
<1>4. weights(Intention).kg => Intention = "Usage"
  BY IntentionIs DEF Intention
<1>5. /\ HitsFit(r, D, 1) /\ K \cap Ids(s) = {} /\ K \subseteq D
      /\ K # {} => query.expand_graph /\ Added(r, s)
  <2>1. CASE weights(Intention).kg /\ query.expand_graph
    <3>1. r = kg_expand(graph, s, "Usage")
      BY <1>4, <2>1
    <3> HIDE DEF I
    <3>2. Added(r, s)
      BY <1>2, <1>3, <3>1, KgExpandIs
    <3> HIDE DEF r
    <3>3. HitsFit(r, D, 1) /\ K \cap Ids(s) = {}
      BY <3>2 DEF Added
    <3>4. D \in SUBSET Nat
      BY <1>3
    <3>5. \A i \in DOMAIN r : r[i] \in [id : D, score : Nat]
      BY <3>3, <3>4, HitsAre
    <3>6. K \subseteq D
      BY <3>5 DEF Ids
    <3> QED BY <2>1, <3>2, <3>3, <3>6
  <2>2. CASE ~(weights(Intention).kg /\ query.expand_graph)
    <3>1. r = <<>>
      BY <2>2
    <3> HIDE DEF r
    <3>2. HitsFit(r, D, 1) /\ K = {}
      BY <3>1 DEF HitsFit, Ids
    <3> QED BY <3>2
  <2> QED BY <2>1, <2>2
<1> HIDE DEF r
<1>6. HitsFit(u, I, 1) /\ ToSet(u) = ToSet(s) \cup ToSet(r) /\ Ids(u) = Ids(s) \cup K
  <2>1. D \in SUBSET I /\ I \in SUBSET Nat
    BY <1>3
  <2> HIDE DEF D, I
  <2> QED BY <1>2, <1>5, <2>1, JoinedHits
<1>7. /\ \A x \in ToSet(s) : x.id \notin K
      /\ \A x \in ToSet(r) : x.id \in K
  BY <1>5 DEF Ids, ToSet
<1>8. {x \in ToSet(u) : x.id \notin K} = ToSet(s)
  BY <1>6, <1>7
<1>9. {x.id : x \in ToSet(s)} = Ids(s)
  BY DEF Ids, ToSet
<1>10. ASSUME K # {}
       PROVE  /\ query.expand_graph
              /\ K = {graph.nodes[k] : k \in {k \in DOMAIN graph.nodes :
                          \E x \in ToSet(s) : Gives(x, graph.nodes[k])}} \ {x.id : x \in ToSet(s)}
              /\ \A y \in ToSet(u) : y.id \in K =>
                     /\ \E x \in ToSet(s) : Gives(x, y.id) /\ y.score = Given(x)
                     /\ \A x \in ToSet(s) : Gives(x, y.id) => y.score >= Given(x)
  <2>1. query.expand_graph /\ Added(r, s)
    BY <1>5, <1>10
  <2>2. \A y \in ToSet(u) : y.id \in K => y \in ToSet(r)
    BY <1>6, <1>7
  <2> QED BY <1>9, <2>1, <2>2 DEF Added
<1> DEFINE S == ToSet(s)
<1> HIDE DEF S, u, K
<1>11. GraphAdds'
  <2> SUFFICES ASSUME K # {} PROVE GraphAdds'
    BY <1>1 DEF GraphAdds
  <2>1. /\ query.expand_graph
        /\ K = {graph.nodes[k] : k \in {k \in DOMAIN graph.nodes :
                    \E x \in S : Gives(x, graph.nodes[k])}} \ {x.id : x \in S}
        /\ \A y \in ToSet(u) : y.id \in K =>
               /\ \E x \in S : Gives(x, y.id) /\ y.score = Given(x)
               /\ \A x \in S : Gives(x, y.id) => y.score >= Given(x)
    BY <1>10 DEF S
  <2>2. {x \in ToSet(all') : x.id \notin kg'} = S
    BY <1>1, <1>8 DEF S
  <2>3. ToSet(all') = ToSet(u) /\ kg' = K /\ UNCHANGED <<graph, query>>
    BY <1>1
  <2>4. \A x, id : Gives(x, id)' <=> Gives(x, id)
    BY ONLY <2>3 DEF Gives, CallsTo
  <2>5. PICK T, k : T = S /\ T = {x \in ToSet(all') : x.id \notin kg'} /\ k = kg'
    BY <2>2
  <2>6. (/\ query.expand_graph
         /\ k = {graph.nodes[j] : j \in {j \in DOMAIN graph.nodes :
                     \E x \in T : Gives(x, graph.nodes[j])}} \ {x.id : x \in T}
         /\ \A y \in ToSet(all) : y.id \in k =>
                /\ \E x \in T : Gives(x, y.id) /\ y.score = Given(x)
                /\ \A x \in T : Gives(x, y.id) => y.score >= Given(x))'
    BY ONLY <2>1, <2>3, <2>4, <2>5
  <2> QED BY ONLY <2>5, <2>6 DEF GraphAdds, Gives, Given
<1>12. HitsFit(u, I, 1) /\ Ids(u) \subseteq InLanes \cup K /\ K \subseteq D
  BY <1>2, <1>5, <1>6 DEF K
<1>13. /\ InLanes' = InLanes /\ (1..Stale(graph))' = I /\ (DOMAIN graph.corpus)' = D
  BY <1>1 DEF InLanes, Stale
<1>14. (HitsFit(all, 1..Stale(graph), 1) /\ Ids(all) \subseteq InLanes \cup kg)'
  BY <1>1, <1>12, <1>13 DEF HitsFit, Ids
<1>15. LanesFit'
  BY <1>1, <1>2 DEF LanesFit, Stale
<1> QED BY <1>1, <1>2, <1>11, <1>12, <1>13, <1>14, <1>15 DEF HitsInv

\* The candidates are put in order by their final scores.
LEMMA AdjustFinds ==
  ASSUME GraphInv, HitsInv, Adjust
  PROVE  HitsInv'
<1> DEFINE r == apply_score_adjustments(graph, query, Intention, all)
           I == 1..Stale(graph)
<1>1. /\ stage = "adjust" /\ stage' = "materialize" /\ query' = query /\ graph' = graph
      /\ hnsw' = hnsw /\ bm25_lane' = bm25_lane /\ kg' = kg /\ all' = r
  BY DEF Adjust
<1>2. /\ LanesFit /\ query \in Queries[graph.corpus] /\ HitsFit(all, I, 1)
      /\ Ids(all) \subseteq InLanes \cup kg /\ kg \subseteq DOMAIN graph.corpus
  BY <1>1 DEF HitsInv
<1>3. I \in SUBSET Nat /\ query \in SearchQuery
  BY <1>1, SearchFits
<1>4. query.boost \in Int
  BY <1>3 DEF SearchQuery
<1> HIDE DEF I
<1>5. Adjusting(r, all, I, graph, Intention, query)
  BY <1>2, <1>3, <1>4, AdjustmentsAre
<1> HIDE DEF r
<1>6. Ids(r) \subseteq Ids(all)
  <2> SUFFICES ASSUME NEW i \in DOMAIN r PROVE r[i].id \in Ids(all)
    BY DEF Ids
  <2>1. PICK k \in DOMAIN all : r[i] = Adjusted(graph, query, Intention, all[k])
    BY <1>5 DEF Adjusting
  <2>2. all[k] \in [id : I, score : Nat] /\ all[k].score >= 1
    BY <1>2, <1>3, HitsAre
  <2>3. r[i].id = all[k].id
    BY <1>3, <1>4, <2>1, <2>2, AdjustedIs
  <2> QED BY <2>3 DEF Ids
<1>7. HitsFit(r, I, 1) /\ InTurn(r) /\ Ids(r) \subseteq InLanes \cup kg
  BY <1>2, <1>5, <1>6 DEF Adjusting
<1>8. InLanes' = InLanes /\ (1..Stale(graph))' = I /\ (DOMAIN graph.corpus)' = DOMAIN graph.corpus
  BY <1>1 DEF InLanes, Stale, I
<1>9. (HitsFit(all, 1..Stale(graph), 1) /\ Ids(all) \subseteq InLanes \cup kg /\ InTurn(all))'
  BY <1>1, <1>7, <1>8 DEF HitsFit, Ids, InTurn
<1>10. LanesFit'
  BY <1>1, <1>2 DEF LanesFit, Stale
<1>11. GraphAdds'
  BY <1>1 DEF GraphAdds
<1> QED BY <1>1, <1>2, <1>8, <1>9, <1>10, <1>11 DEF HitsInv

\* The results are made of them.
LEMMA MaterializeFinds ==
  ASSUME GraphInv, HitsInv, Materialize
  PROVE  HitsInv'
<1>1. /\ stage = "materialize" /\ stage' = "done"
      /\ UNCHANGED <<graph, query, hnsw, bm25_lane, all, kg>>
      /\ results' = materialize_search_results(graph, query, all, ToSet(hnsw), ToSet(bm25_lane), kg)
  BY DEF Materialize
<1>2. /\ LanesFit /\ query \in Queries[graph.corpus] /\ HitsFit(all, 1..Stale(graph), 1)
      /\ Ids(all) \subseteq InLanes \cup kg /\ kg \subseteq DOMAIN graph.corpus /\ InTurn(all)
  BY <1>1 DEF HitsInv
<1>3. (/\ HitsFit(all, 1..Stale(graph), 1) /\ Ids(all) \subseteq InLanes \cup kg
       /\ kg \subseteq DOMAIN graph.corpus /\ InTurn(all))'
  BY <1>1, <1>2 DEF HitsFit, Ids, InTurn, InLanes, Stale
<1>4. LanesFit'
  BY <1>1, <1>2 DEF LanesFit, Stale
<1>5. GraphAdds'
  BY <1>1 DEF GraphAdds
<1>6. (results = materialize_search_results(graph, query, all, ToSet(hnsw), ToSet(bm25_lane), kg))'
  BY <1>1
<1> QED BY <1>1, <1>2, <1>3, <1>4, <1>5, <1>6 DEF HitsInv

\* The best come out on top.
LEMMA TopIs ==
  ASSUME GraphInv, HitsInv, stage = "done"
  PROVE  TopScores /\ ReasonsTrue
<1> DEFINE I == 1..Stale(graph)
           u == Present(graph, query.top_k, all)
           k == query.top_k
<1>1. /\ HitsFit(all, I, 1) /\ InTurn(all) /\ Ids(all) \subseteq InLanes \cup kg
      /\ results = materialize_search_results(graph, query, all, ToSet(hnsw), ToSet(bm25_lane), kg)
  BY DEF HitsInv
<1>2. I \in SUBSET Nat /\ query \in SearchQuery
  BY SearchFits
<1>3. k \in Nat
  BY <1>2 DEF SearchQuery
<1> HIDE DEF I
<1>4. Presents(u, all, I, 1, graph, k)
  BY <1>1, <1>2, <1>3, PresentIs
<1>5. /\ Len(results) = Len(u) /\ DOMAIN results = DOMAIN u
      /\ \A i \in DOMAIN results :
            /\ results[i].id = u[i].id /\ results[i].score = u[i].score
            /\ results[i].reason = compute_match_reason(results[i].id \in ToSet(hnsw),
                                       results[i].id \in ToSet(bm25_lane), results[i].id \in kg)
  <2>1. query.top_k \in Nat
    BY <1>3
  <2>2. Returned(results, u, ToSet(hnsw), ToSet(bm25_lane), kg)
    BY <1>1, <1>2, <2>1, MaterializeIs
  <2> HIDE DEF u
  <2> QED BY <2>2 DEF Returned
<1> HIDE DEF u, k
<1>6. /\ InTurn(u) /\ Len(u) <= k
      /\ \A c \in ToSet(u) : c.id \in DOMAIN graph.corpus /\ \E p \in DOMAIN all : p <= k /\ all[p] = c
      /\ \A p \in DOMAIN all : p <= k /\ all[p].id \in DOMAIN graph.corpus => all[p] \in ToSet(u)
  BY <1>4 DEF Presents
<1>7. \A i \in DOMAIN results : u[i] \in ToSet(u)
  BY <1>5 DEF ToSet
<1>8. DOMAIN all = 1..Len(all) /\ Len(all) \in Nat
  BY <1>1, <1>2, HitsAre
<1>9. ASSUME NEW i \in DOMAIN results, NEW j \in DOMAIN results, i < j
      PROVE  Before(results[i], results[j])
  <2>1. Before(u[i], u[j])
    BY <1>5, <1>6, <1>9 DEF InTurn
  <2> QED BY <1>5, <2>1 DEF Before
<1>10. ASSUME NEW c \in ToSet(all), c.id \in DOMAIN graph.corpus, c.id \notin Ids(results),
              NEW i \in DOMAIN results
       PROVE  Before(results[i], c)
  <2>1. PICK p \in DOMAIN all : all[p] = c
    BY DEF ToSet
  <2>2. PICK r \in DOMAIN all : r <= k /\ all[r] = u[i]
    BY <1>6, <1>7
  <2>3. ~(p <= k)
    <3> SUFFICES ASSUME p <= k PROVE FALSE
      OBVIOUS
    <3>1. c \in ToSet(u)
      BY <1>6, <1>10, <2>1
    <3>2. PICK d \in DOMAIN u : u[d] = c
      BY <3>1 DEF ToSet
    <3>3. c.id \in Ids(results)
      BY <1>5, <3>2 DEF Ids
    <3> QED BY <1>10, <3>3
  <2>4. r < p
    <3>1. r \in Nat /\ p \in Nat /\ k \in Nat
      BY <1>3, <1>8
    <3> QED BY <2>2, <2>3, <3>1
  <2>5. Before(u[i], c)
    BY <1>1, <2>1, <2>2, <2>4 DEF InTurn
  <2> QED BY <1>5, <2>5 DEF Before
<1>11. TopScores
  <2>1. Len(results) <= query.top_k
    BY <1>5, <1>6 DEF k
  <2> QED BY <1>9, <1>10, <2>1 DEF TopScores
<1>12. ASSUME NEW i \in DOMAIN results
       PROVE  results[i].id \in ToSet(hnsw) \/ results[i].id \in ToSet(bm25_lane) \/ results[i].id \in kg
  <2>1. PICK p \in DOMAIN all : all[p] = u[i]
    BY <1>6, <1>7
  <2>2. results[i].id \in Ids(all)
    BY <1>5, <2>1 DEF Ids
  <2> QED BY <1>1, <2>2 DEF InLanes
<1>13. ReasonsTrue
  <2> SUFFICES ASSUME NEW i \in DOMAIN results
               PROVE  LET r == results[i]
                      IN /\ (r.reason \in {"vector", "hybrid"}) <=> (r.id \in ToSet(hnsw))
                         /\ (r.reason \in {"bm25", "hybrid"}) <=> (r.id \in ToSet(bm25_lane))
                         /\ r.reason = "hybrid+kg" => r.id \in kg
                         /\ r.reason # "fallback"
    BY DEF ReasonsTrue
  <2> DEFINE r == results[i]
  <2>1. /\ r.reason = compute_match_reason(r.id \in ToSet(hnsw), r.id \in ToSet(bm25_lane), r.id \in kg)
        /\ r.id \in ToSet(hnsw) \/ r.id \in ToSet(bm25_lane) \/ r.id \in kg
    BY <1>5, <1>12
  <2> HIDE DEF r
  <2>2. CASE r.id \in ToSet(hnsw) /\ r.id \in ToSet(bm25_lane)
    <3>1. r.reason = "hybrid"
      BY <2>1, <2>2 DEF compute_match_reason
    <3> QED BY <2>2, <3>1 DEF r
  <2>3. CASE r.id \in ToSet(hnsw) /\ r.id \notin ToSet(bm25_lane)
    <3>1. r.reason = "vector"
      BY <2>1, <2>3 DEF compute_match_reason
    <3> QED BY <2>3, <3>1 DEF r
  <2>4. CASE r.id \notin ToSet(hnsw) /\ r.id \in ToSet(bm25_lane)
    <3>1. r.reason = "bm25"
      BY <2>1, <2>4 DEF compute_match_reason
    <3> QED BY <2>4, <3>1 DEF r
  <2>5. CASE r.id \notin ToSet(hnsw) /\ r.id \notin ToSet(bm25_lane)
    <3>1. r.reason = "hybrid+kg" /\ r.id \in kg
      BY <2>1, <2>5 DEF compute_match_reason
    <3> QED BY <2>5, <3>1 DEF r
  <2> QED BY <2>2, <2>3, <2>4, <2>5
<1> QED BY <1>11, <1>13

\* A chunk of the branch stands at least as high with the boost.
LEMMA BoostKeeps ==
  ASSUME GraphInv, HitsInv
  PROVE  BoostNeverHurts
<1> SUFFICES ASSUME stage = "adjust" PROVE BoostNeverHurts
  BY DEF BoostNeverHurts
<1> DEFINE I == 1..Stale(graph)
           p == [query EXCEPT !.boost = 10]
           Hits(q) == apply_score_adjustments(graph, q, Intention, all)
           plain == Outcome(p)
           best == Outcome(query)
           k == query.top_k
           u == Present(graph, k, Hits(p))
           v == Present(graph, k, Hits(query))
<1>1. HitsFit(all, I, 1)
  BY DEF HitsInv
<1>2. I \in SUBSET Nat /\ query \in SearchQuery
  BY SearchFits
<1>3. /\ query.boost \in Int /\ k \in Nat /\ p.boost = 10 /\ p.boost \in Int /\ p.top_k = k
  BY <1>2 DEF SearchQuery
<1> HIDE DEF I, p, k
<1>4. /\ Adjusting(Hits(p), all, I, graph, Intention, p)
      /\ Adjusting(Hits(query), all, I, graph, Intention, query)
  BY <1>1, <1>2, <1>3, AdjustmentsAre
<1>5. /\ HitsFit(Hits(p), I, 1) /\ InTurn(Hits(p)) /\ HitsFit(Hits(query), I, 1) /\ InTurn(Hits(query))
  BY <1>4 DEF Adjusting
<1>6. /\ plain = materialize_search_results(graph, p, Hits(p), ToSet(hnsw), ToSet(bm25_lane), kg)
      /\ best = materialize_search_results(graph, query, Hits(query), ToSet(hnsw), ToSet(bm25_lane), kg)
  BY DEF Outcome
<1> HIDE DEF plain, best
<1>7. DOMAIN plain = DOMAIN u /\ \A i \in DOMAIN plain : plain[i].id = u[i].id
  <2> DEFINE h == Hits(p)
  <2>1. HitsFit(h, I, 1) /\ InTurn(h) /\ p.top_k \in Nat
    BY <1>3, <1>5
  <2> HIDE DEF h
  <2>2. Returned(materialize_search_results(graph, p, h, ToSet(hnsw), ToSet(bm25_lane), kg),
                 Present(graph, p.top_k, h), ToSet(hnsw), ToSet(bm25_lane), kg)
    BY <1>2, <2>1, MaterializeIs
  <2>3. Returned(plain, u, ToSet(hnsw), ToSet(bm25_lane), kg)
    BY <1>3, <1>6, <2>2 DEF h
  <2> HIDE DEF u
  <2> QED BY <2>3 DEF Returned
<1>8. /\ Len(best) = Len(v) /\ DOMAIN best = DOMAIN v
      /\ \A i \in DOMAIN best : best[i].id = v[i].id
  <2> DEFINE h == Hits(query)
  <2>1. HitsFit(h, I, 1) /\ InTurn(h) /\ query.top_k \in Nat /\ query.top_k = k
    BY <1>3, <1>5 DEF k
  <2> HIDE DEF h
  <2>2. Returned(materialize_search_results(graph, query, h, ToSet(hnsw), ToSet(bm25_lane), kg),
                 Present(graph, query.top_k, h), ToSet(hnsw), ToSet(bm25_lane), kg)
    BY <1>2, <2>1, MaterializeIs
  <2>3. Returned(best, v, ToSet(hnsw), ToSet(bm25_lane), kg)
    BY <1>6, <2>1, <2>2 DEF h
  <2> HIDE DEF v
  <2> QED BY <2>3 DEF Returned
<1>9. HitsFit(v, I, 1)
  <2> HIDE DEF Hits
  <2> QED BY <1>2, <1>3, <1>5, PresentIs DEF Presents
<1>10. /\ DOMAIN v = 1..Len(v) /\ Len(v) \in Nat
       /\ \A i, j \in DOMAIN v : v[i].id = v[j].id => i = j
  <2> HIDE DEF v
  <2> QED BY <1>2, <1>9, HitsAre
<1>11. ASSUME NEW i \in DOMAIN plain, graph.corpus[plain[i].id].file \in BranchFiles(query)
       PROVE  SelectInSeq(best, LAMBDA r : r.id = plain[i].id) \in 1..i
  <2>1. i \in DOMAIN u /\ graph.corpus[u[i].id].file \in BranchFiles(query) /\ u[i].id = plain[i].id
    BY <1>7, <1>11
  <2>2. PICK j \in DOMAIN v : v[j].id = u[i].id /\ j <= i
    <3>1. i \in DOMAIN u /\ graph.corpus[u[i].id].file \in BranchFiles(query)
      BY <2>1
    <3>2. NotBehind(v, u, i)
      <4> DEFINE first == u
                 second == v
      <4>1. /\ first = Present(graph, k, apply_score_adjustments(graph, p, Intention, all))
            /\ second = Present(graph, k, apply_score_adjustments(graph, query, Intention, all))
            /\ i \in DOMAIN first /\ graph.corpus[first[i].id].file \in BranchFiles(query)
        BY <3>1
      <4> HIDE DEF first, second
      <4>2. NotBehind(second, first, i)
        BY <1>1, <1>2, <1>3, <4>1, BoostIs
      <4> QED BY <4>2 DEF first, second
    <3> HIDE DEF u, v
    <3> QED BY <3>2 DEF NotBehind
  <2>3. {n \in 1..Len(best) : best[n].id = plain[i].id} = {j}
    BY <1>8, <1>10, <2>1, <2>2
  <2>4. j \in 1..Len(best) /\ j <= i
    BY <1>8, <1>10, <2>2
  <2>5. Min({j}) = j
    BY DEF Min
  <2>6. SelectInSeq(best, LAMBDA r : r.id = plain[i].id) = j
    BY <2>3, <2>5 DEF SelectInSeq
  <2>7. i \in Nat
    <3>1. HitsFit(u, I, 1)
      <4> HIDE DEF Hits
      <4> QED BY <1>2, <1>3, <1>5, PresentIs DEF Presents
    <3> HIDE DEF u
    <3>2. DOMAIN u = 1..Len(u) /\ Len(u) \in Nat
      BY <1>2, <3>1, HitsAre
    <3> QED BY <2>1, <3>2
  <2>8. j \in 1..i
    BY <1>8, <1>10, <2>4, <2>7
  <2> QED BY <2>6, <2>8
<1> QED BY <1>11 DEF BoostNeverHurts, plain, best, p

\* A search that is this far has sound results.
LEMMA HitsGive ==
  ASSUME GraphInv, HitsInv
  PROVE  ResultsSound
<1>1. SearchTypeOK
  <2>1. CASE stage \in {"build", "idle"}
    BY <2>1 DEF HitsInv, SearchTypeOK, IsInjective
  <2>2. CASE stage \notin {"build", "idle"}
    <3>1. IsInjective(hnsw) /\ IsInjective(bm25_lane)
      BY <2>2 DEF HitsInv, LanesFit
    <3>2. kg \subseteq DOMAIN graph.corpus
      BY DEF HitsInv
    <3>3. all = <<>> \/ HitsFit(all, 1..Stale(graph), 1) \/ HitsFit(all, 1..Stale(graph), 10)
      BY DEF HitsInv
    <3>4. \A i \in DOMAIN all : all[i].id \in 1..Stale(graph) /\ all[i].score > 0
      <4> DEFINE I == 1..Stale(graph)
      <4>1. I \in SUBSET Nat
        BY <2>2, SearchFits
      <4> HIDE DEF I
      <4>2. CASE all = <<>>
        BY <4>2
      <4>3. ASSUME NEW m \in Nat, m >= 1, HitsFit(all, I, m)
            PROVE  \A i \in DOMAIN all : all[i].id \in I /\ all[i].score > 0
        <5>1. \A i \in DOMAIN all : all[i] \in [id : I, score : Nat] /\ all[i].score >= m
          BY <4>1, <4>3, HitsAre
        <5> QED BY <4>3, <5>1
      <4>4. CASE HitsFit(all, I, 1)
        BY <4>3, <4>4 DEF I
      <4>5. CASE HitsFit(all, I, 10)
        BY <4>3, <4>5 DEF I
      <4> QED BY <3>3, <4>2, <4>4, <4>5 DEF I
    <3>5. stage \in {"build", "idle", "lanes", "fuse", "expand", "adjust", "materialize", "done"}
      BY DEF HitsInv
    <3> QED BY <3>1, <3>2, <3>4, <3>5 DEF SearchTypeOK
  <2> QED BY <2>1, <2>2
<1>2. GraphAdds
  BY DEF HitsInv
<1>3. TopScores /\ ReasonsTrue
  BY TopIs DEF TopScores, ReasonsTrue
<1>4. BoostNeverHurts
  BY BoostKeeps
<1> QED BY <1>1, <1>2, <1>3, <1>4 DEF ResultsSound

\* Every step goes on in this way.
LEMMA HitsKeep == GraphInv /\ HitsInv /\ [SearchNext]_vars => HitsInv'
<1> SUFFICES ASSUME GraphInv, HitsInv, [SearchNext]_vars PROVE HitsInv'
  OBVIOUS
<1>1. CASE Build
  BY <1>1, BuildFinds
<1>2. CASE Lanes
  BY <1>2, LanesFind
<1>3. CASE InjectExact
  BY <1>3, InjectFinds
<1>4. CASE Fuse
  BY <1>4, FuseFinds
<1>5. CASE Expand
  BY <1>5, ExpandFinds
<1>6. CASE Adjust
  BY <1>6, AdjustFinds
<1>7. CASE Materialize
  BY <1>7, MaterializeFinds
<1>8. CASE UNCHANGED vars
  <2>1. UNCHANGED <<graph, cap, stage, query, hnsw, bm25_lane, all, kg, results>>
    BY <1>8 DEF vars
  <2>2. GraphAdds' /\ (LanesFit <=> LanesFit') /\ InLanes' = InLanes
    BY <2>1 DEF HitsInv, GraphAdds, LanesFit, InLanes, Stale, CallsTo
  <2>3. /\ (1..Stale(graph))' = 1..Stale(graph) /\ InTurn(all)' = InTurn(all)
        /\ HitsFit(all, 1..Stale(graph), 10)' = HitsFit(all, 1..Stale(graph), 10)
        /\ HitsFit(all, 1..Stale(graph), 1)' = HitsFit(all, 1..Stale(graph), 1)
        /\ Ids(all)' = Ids(all)
    BY <2>1 DEF Stale, InTurn, HitsFit, Ids
  <2> QED BY <2>1, <2>2, <2>3 DEF HitsInv
<1> QED BY <1>1, <1>2, <1>3, <1>4, <1>5, <1>6, <1>7, <1>8 DEF SearchNext

\* From the lanes to the results: the graph adds the neighbours of what was found, each
\* at the best score one gives it; the best candidates survive, in order; the boost never
\* takes a chunk of the branch back; and the reason given for a result is the true one
\* (search_with_intent of indexer/mod.rs and what it calls).
THEOREM ResultsAreSound == SearchSpec => []ResultsSound
<1>1. SearchInit => HitsInv
  BY DEF SearchInit, HitsInv, GraphAdds
<1>2. GraphInv /\ HitsInv => ResultsSound
  BY HitsGive
<1> QED BY <1>1, <1>2, GraphInvHolds, HitsKeep, PTL DEF SearchSpec
=============================================================================
