---------------------------- MODULE ReindexProofs ----------------------------
(***************************************************************************)
(* A reindex, for any files, contents, requests, batch size and caps: a    *)
(* forced run that reports `complete' has indexed all it should            *)
(* (ForcedRunCovers), and the hash cache of an index nobody else changed   *)
(* skips only what is indexed (HashCacheSound).                            *)
(*                                                                         *)
(* Neither is inductive. A run at work must be the only one (Exclusive);   *)
(* what it has not indexed yet is in its walk or its batch (Covered),      *)
(* which needs that it knows no hash of a file ahead (FreshHashes), that a *)
(* batch is what the disk had (BatchIsDisk) and how its loop ended         *)
(* (LoopEnds). For the hash cache, a commit comes before its record        *)
(* (RecordedAfter), and a chunk the cap drops is seen afterwards in the    *)
(* number of chunks, which never goes down (CommitGrows).                  *)
(***************************************************************************)
EXTENDS Reindex, FiniteSetTheorems, TLAPS

ChunksOf(chunks) == {p \in File \X Content : p[2] \in chunks[p[1]]}
Working == {"batch", "commit", "record"}
Closing == {"graph", "stop", "event", "end"}

\* The permit is one run's, and nobody holds a CodeIndexer that was never made.
Exclusive ==
    /\ \A r, q \in Run : pc[r] \in Working \cup Closing /\ pc[q] \in Working \cup Closing => r = q
    /\ gen \in {0, lastGen} /\ (gen = 0 => lastGen < MaxGen)
    /\ \A r \in Run : target[r] <= lastGen
    /\ \A g \in Gen : IsFiniteSet(ChunksOf(corpus[g]))

\* How the loop ended: at the end of the walk, or by an abort that the event tells.
LoopEnds(r) ==
    /\ pc[r] \in Working => ~memHit
    /\ pc[r] \in Closing /\ ~memHit => todo = {}
    /\ pc[r] = "end" /\ event[r] = "complete" => ~memHit

\* A forced run knows no hash of a file it has not come to.
FreshHashes(r) == force[r] /\ pc[r] \in Working => \A f \in todo : hashes[f] = Absent

\* What a batch holds of a file nobody touched is what the file holds.
BatchIsDisk(r) ==
    pc[r] = "commit" => \A f \in File \ touched : payload[f] \in {disk[f], Absent}

\* What a forced run has still to index is ahead of it or in its batch.
Covered(r) ==
    pc[r] \in Working \cup Closing /\ force[r] /\ ~gaps /\ ~memHit =>
        \A f \in File \ touched : disk[f] \in Content \ Minified =>
            \/ f \in todo
            \/ pc[r] = "commit" /\ payload[f] = disk[f]
            \/ disk[f] \in corpus[target[r]][f]

\* What of this is about one request.
Forced(r) == LoopEnds(r) /\ FreshHashes(r) /\ BatchIsDisk(r) /\ Covered(r)

CoverInv == TypeOK /\ Exclusive /\ \A r \in Run : Forced(r)

\* Between a commit and its record the chunk is there and the hash is not yet.
RecordedAfter ==
    gen = 1 /\ calls = 0 /\ ChunkCount(corpus[1]) < Cap =>
        /\ \A f \in File : SkipIsSound(f)
        /\ \A r \in Run : pc[r] = "record" =>
              \A f \in File : payload[f] # Absent => payload[f] \in corpus[1][f]

HashInv == TypeOK /\ Exclusive /\ RecordedAfter

-----------------------------------------------------------------------------
(* Types.                                                                  *)

\* What an upsert leaves of a file's chunks is chunks, with the new one among them.
LEMMA UpsertedHas ==
    ASSUME NEW old, NEW c, NEW new \in Upserted(old, c)
    PROVE  /\ c \in new /\ new \subseteq old \cup {c}
           /\ c \in old => new = old
           /\ c \notin old => new = old \cup {c} \/ \E d \in old : new = (old \ {d}) \cup {c}
           /\ \A d, e \in old \ new : d = e
<1>1. /\ c \in old => new = old
      /\ c \notin old => new = old \cup {c} \/ \E d \in old : new = (old \ {d}) \cup {c}
  BY DEF Upserted
<1>2. CASE c \in old
  BY <1>1, <1>2
<1>3. CASE c \notin old /\ new = old \cup {c}
  BY <1>3
<1>4. ASSUME c \notin old, NEW d \in old, new = (old \ {d}) \cup {c}
      PROVE  c \in new /\ new \subseteq old \cup {c} /\ \A x, y \in old \ new : x = y
  BY <1>4
<1> QED BY <1>1, <1>2, <1>3, <1>4

\* Shrinking the hash cache forgets hashes and changes none.
LEMMA ShrunkForgets ==
    ASSUME NEW known \in [File -> MaybeContent], NEW less \in Shrunk(known)
    PROVE  /\ less \in [File -> MaybeContent]
           /\ \A f \in File : less[f] \in {known[f], Absent}
<1>1. CASE less = known
  BY <1>1
<1>2. CASE less # known
  <2>1. PICK kept : less = [f \in File |-> IF f \in kept THEN known[f] ELSE Absent]
    BY <1>2 DEF Shrunk
  <2> QED BY <2>1 DEF MaybeContent
<1> QED BY <1>1, <1>2

\* Every variable keeps its type.
LEMMA TypeNext == TypeOK /\ Exclusive /\ [Next]_vars => TypeOK'
<1> SUFFICES ASSUME TypeOK, Exclusive, [Next]_vars PROVE TypeOK'
  OBVIOUS
<1> USE ReindexAssumption
<1>1. /\ disk \in [File -> MaybeContent] /\ hashes \in [File -> MaybeContent]
      /\ corpus \in [Gen -> [File -> SUBSET Content]]
      /\ gen \in 0..MaxGen /\ lastGen \in Gen
      /\ pc \in [Run -> Label] /\ force \in [Run -> BOOLEAN] /\ target \in [Run -> Gen]
      /\ todo \subseteq File /\ payload \in [File -> MaybeContent]
      /\ \A f \in todo : payload[f] = Absent
      /\ memAbort \in BOOLEAN /\ memHit \in BOOLEAN /\ gaps \in BOOLEAN
      /\ status \in [Run -> {"running", "complete", "aborted_memory"}]
      /\ event \in [Run -> {"none", "complete", "aborted_memory"}]
      /\ touched \subseteq File
      /\ cooldown \in {"none", "cooling", "elapsed"}
      /\ progress \in Run \cup {NoRun} /\ timers \subseteq Run
      /\ edits \in 0..MaxEdits /\ calls \in 0..MaxCalls
  BY DEF TypeOK
<1>2. CASE UNCHANGED vars
  BY <1>1, <1>2 DEF TypeOK, vars, files, index, requests, loop, outcome, tracking
<1>3. ASSUME NEW f \in File, NEW c \in MaybeContent, EditFile(f, c) PROVE TypeOK'
  <2>1. disk' \in [File -> MaybeContent] /\ touched' \subseteq File /\ edits' \in 0..MaxEdits
    BY <1>1, <1>3 DEF EditFile
  <2> QED BY <1>1, <1>3, <2>1 DEF EditFile, TypeOK, index, requests, loop, outcome, tracking
<1>4. ASSUME NEW f \in File, NEW c \in Content, IndexFile(f, c) PROVE TypeOK'
  <2>1. calls' \in 0..MaxCalls /\ touched' \subseteq File
    BY <1>1, <1>4 DEF IndexFile
  <2>2. corpus' \in [Gen -> [File -> SUBSET Content]]
    <3>1. gen \in Gen
      BY <1>1, <1>4 DEF IndexFile, Gen
    <3>2. PICK chunks \in Upserted(corpus[gen][f], c) :
              \/ corpus' = corpus \/ corpus' = [corpus EXCEPT ![gen][f] = chunks]
      BY <1>4 DEF IndexFile
    <3>3. chunks \subseteq Content
      BY <1>1, <3>1, UpsertedHas
    <3> QED BY <1>1, <3>1, <3>2, <3>3
  <2> QED BY <1>1, <1>4, <2>1, <2>2 DEF IndexFile, TypeOK, files, requests, loop, outcome, tracking
<1>5. ASSUME NEW f \in File, RemoveFile(f) PROVE TypeOK'
  <2>1. calls' \in 0..MaxCalls /\ touched' \subseteq File /\ gen \in Gen
    BY <1>1, <1>5 DEF RemoveFile, Gen
  <2>2. corpus' \in [Gen -> [File -> SUBSET Content]]
    BY <1>1, <1>5, <2>1 DEF RemoveFile
  <2> QED BY <1>1, <1>5, <2>1, <2>2 DEF RemoveFile, TypeOK, files, requests, loop, outcome, tracking
<1>6. CASE DeleteIndex
  <2>1. gen' \in 0..MaxGen /\ progress' \in Run \cup {NoRun}
    BY <1>6 DEF DeleteIndex
  <2> QED BY <1>1, <1>6, <2>1 DEF DeleteIndex, TypeOK, files, requests, loop, outcome
<1>7. CASE CreateIndex
  <2>1. gen' \in 0..MaxGen /\ lastGen' \in Gen
    BY <1>1, <1>7 DEF CreateIndex, Gen, Exclusive
  <2> QED BY <1>1, <1>7, <2>1 DEF CreateIndex, TypeOK, files, requests, loop, outcome, tracking
<1>8. CASE CooldownElapses
  BY <1>1, <1>8 DEF CooldownElapses, TypeOK, files, index, requests, loop, outcome
\* The steps of a run: where it is then.
<1>9. ASSUME NEW r \in Run, NEW label \in Label, Goto(r, label) PROVE pc' \in [Run -> Label]
  BY <1>1, <1>9 DEF Goto
<1>10. ASSUME NEW r \in Run, NEW forced \in BOOLEAN, RequestReindex(r, forced) PROVE TypeOK'
  <2>1. pc' \in [Run -> Label]
    BY <1>9, <1>10 DEF RequestReindex, Label
  <2>2. force' \in [Run -> BOOLEAN]
    BY <1>1, <1>10, Zenon DEF RequestReindex
  <2>3. target' \in [Run -> Gen] /\ progress' \in Run \cup {NoRun} /\ cooldown' = "none"
    BY <1>1, <1>10 DEF RequestReindex, Gen
  <2> QED BY <1>1, <1>10, <2>1, <2>2, <2>3 DEF RequestReindex, TypeOK, files, index, loop, outcome
<1>11. ASSUME NEW r \in Run, Start(r) PROVE TypeOK'
  <2>1. pc' \in [Run -> Label]
    BY <1>9, <1>11 DEF Start, Label
  <2>2. /\ todo' \subseteq File /\ payload' \in [File -> MaybeContent]
        /\ hashes' \in [File -> MaybeContent] /\ \A f \in todo' : payload'[f] = Absent
        /\ touched' = {}
    BY <1>1, <1>11 DEF Start, Nothing, MaybeContent
  <2>3. memAbort' \in BOOLEAN /\ memHit' \in BOOLEAN /\ gaps' \in BOOLEAN
    BY <1>11, Zenon DEF Start
  <2> QED BY <1>1, <1>11, <2>1, <2>2, <2>3 DEF Start, TypeOK, files, index, requests, outcome, tracking
<1>12. ASSUME NEW r \in Run, PollerTrips(r) PROVE TypeOK'
  <2>1. memAbort' \in BOOLEAN
    BY <1>12, Zenon DEF PollerTrips
  <2> QED BY <1>1, <1>12, <2>1 DEF PollerTrips, TypeOK, files, index, requests, outcome, tracking
<1>13. ASSUME NEW r \in Run, AbortLoop(r) PROVE TypeOK'
  <2>1. pc' \in [Run -> Label]
    BY <1>9, <1>13 DEF AbortLoop, Label
  <2>2. memHit' \in BOOLEAN
    BY <1>13, Zenon DEF AbortLoop
  <2> QED BY <1>1, <1>13, <2>1, <2>2 DEF AbortLoop, TypeOK, files, index, requests, outcome, tracking
<1>14. ASSUME NEW r \in Run, EndLoop(r) \/ RebuildGraph(r) PROVE TypeOK'
  <2>1. pc' \in [Run -> Label]
    BY <1>9, <1>14 DEF EndLoop, RebuildGraph, Label
  <2> QED BY <1>1, <1>14, <2>1 DEF EndLoop, RebuildGraph, TypeOK, files, index, requests, loop,
                                   outcome, tracking
<1>15. ASSUME NEW r \in Run, PrepareBatch(r) PROVE TypeOK'
  <2>1. PICK batch \in SUBSET todo : \E toIndex \in SUBSET batch : \E label \in {"batch", "commit"} :
          /\ todo' = todo \ batch
          /\ payload' = [f \in File |-> IF f \in toIndex THEN disk[f] ELSE Absent]
          /\ Goto(r, label)
    <3>1. PICK batch \in SUBSET todo :
             LET read == {f \in batch : disk[f] # Absent}
                 toIndex == {f \in read : disk[f] \notin Minified /\ hashes[f] # disk[f]}
             IN  /\ todo' = todo \ batch
                 /\ payload' = [f \in File |-> IF f \in toIndex THEN disk[f] ELSE Absent]
                 /\ Goto(r, IF toIndex = {} THEN "batch" ELSE "commit")
      BY <1>15 DEF PrepareBatch, NextBatch
    <3> DEFINE toIndex == {f \in batch : disk[f] # Absent /\ disk[f] \notin Minified /\ hashes[f] # disk[f]}
    <3>2. toIndex \in SUBSET batch
      OBVIOUS
    <3>3. /\ todo' = todo \ batch
          /\ payload' = [f \in File |-> IF f \in toIndex THEN disk[f] ELSE Absent]
          /\ \E label \in {"batch", "commit"} : Goto(r, label)
      BY <3>1
    <3> HIDE DEF toIndex
    <3> QED BY <3>2, <3>3
  <2>2. /\ todo' \subseteq File /\ payload' \in [File -> MaybeContent]
        /\ \A f \in todo' : payload'[f] = Absent
    BY <1>1, <2>1 DEF MaybeContent
  <2>3. pc' \in [Run -> Label]
    BY <1>9, <2>1 DEF Label
  <2>4. gaps' \in BOOLEAN
    BY <1>15, Zenon DEF PrepareBatch
  <2> QED BY <1>1, <1>15, <2>2, <2>3, <2>4 DEF PrepareBatch, TypeOK, files, index, requests,
                                               outcome, tracking
<1>16. ASSUME NEW r \in Run, BatchFails(r) PROVE TypeOK'
  <2>1. pc' \in [Run -> Label]
    BY <1>9, <1>16 DEF BatchFails, Label
  <2>2. payload' \in [File -> MaybeContent] /\ \A f \in todo : payload'[f] = Absent
    BY <1>1, <1>16 DEF BatchFails, Nothing, MaybeContent
  <2>3. gaps' \in BOOLEAN
    BY <1>16, Zenon DEF BatchFails
  <2> QED BY <1>1, <1>16, <2>1, <2>2, <2>3 DEF BatchFails, TypeOK, files, index, requests, outcome, tracking
<1>17. ASSUME NEW r \in Run, Commit(r) PROVE TypeOK'
  <2>1. pc' \in [Run -> Label]
    BY <1>9, <1>17 DEF Commit, Label
  <2>2. PICK chunks \in [Pending -> SUBSET Content], dropped \in SUBSET Pending :
            corpus' = [corpus EXCEPT ![target[r]] = [f \in File |->
                          IF f \in Pending \ dropped THEN chunks[f] ELSE corpus[target[r]][f]]]
    BY <1>17 DEF Commit
  <2>3. corpus' \in [Gen -> [File -> SUBSET Content]]
    BY <1>1, <2>2
  <2>4. gaps' \in BOOLEAN
    BY <1>17, Zenon DEF Commit
  <2> QED BY <1>1, <1>17, <2>1, <2>3, <2>4 DEF Commit, TypeOK, files, requests, outcome, tracking
<1>18. ASSUME NEW r \in Run, Record(r) PROVE TypeOK'
  <2>1. pc' \in [Run -> Label]
    BY <1>9, <1>18 DEF Record, Label
  <2>2. payload' \in [File -> MaybeContent] /\ \A f \in todo : payload'[f] = Absent
    BY <1>1, <1>18 DEF Record, Nothing, MaybeContent
  <2>3. memAbort' \in BOOLEAN /\ memHit' \in BOOLEAN
    BY <1>1, <1>18, Zenon DEF Record
  <2>4. hashes' \in [File -> MaybeContent]
    <3>1. [f \in File |-> IF f \in Pending THEN payload[f] ELSE hashes[f]] \in [File -> MaybeContent]
      BY <1>1
    <3> QED BY <1>18, <3>1, ShrunkForgets DEF Record
  <2> QED BY <1>1, <1>18, <2>1, <2>2, <2>3, <2>4 DEF Record, TypeOK, files, index, requests,
                                                     outcome, tracking
<1>19. ASSUME NEW r \in Run, SetStatus(r) PROVE TypeOK'
  <2>1. pc' \in [Run -> Label]
    BY <1>9, <1>19 DEF SetStatus, Label
  <2>2. /\ status' \in [Run -> {"running", "complete", "aborted_memory"}]
        /\ cooldown' \in {"none", "cooling", "elapsed"}
    BY <1>1, <1>19 DEF SetStatus
  <2> QED BY <1>1, <1>19, <2>1, <2>2 DEF SetStatus, TypeOK, files, index, requests, loop
<1>20. ASSUME NEW r \in Run, EmitComplete(r) PROVE TypeOK'
  <2>1. pc' \in [Run -> Label]
    BY <1>9, <1>20 DEF EmitComplete, Label
  <2>2. event' \in [Run -> {"none", "complete", "aborted_memory"}]
    BY <1>1, <1>20 DEF EmitComplete
  <2> QED BY <1>1, <1>20, <2>1, <2>2 DEF EmitComplete, TypeOK, files, index, requests, loop, tracking
<1>21. ASSUME NEW r \in Run, EndRun(r) PROVE TypeOK'
  <2>1. pc' \in [Run -> Label]
    BY <1>9, <1>21 DEF EndRun, Label
  <2> QED BY <1>1, <1>21, <2>1 DEF EndRun, TypeOK, files, index, requests, loop, outcome
<1>22. ASSUME NEW r \in Run, CleanupFires(r) PROVE TypeOK'
  BY <1>1, <1>22 DEF CleanupFires, TypeOK, files, index, requests, loop, outcome
<1> QED BY <1>2, <1>3, <1>4, <1>5, <1>6, <1>7, <1>8, <1>10, <1>11, <1>12, <1>13, <1>14, <1>15,
           <1>16, <1>17, <1>18, <1>19, <1>20, <1>21, <1>22 DEF Next, RunStep

-----------------------------------------------------------------------------
(* Chunks.                                                                 *)

\* Upserts keep the chunks finite in number, lose none, and add one for each file whose
\* own chunks became more.
LEMMA UpsertsGrow ==
    ASSUME NEW old \in [File -> SUBSET Content], NEW new \in [File -> SUBSET Content],
           NEW added \in [File -> MaybeContent], NEW S \in SUBSET File,
           IsFiniteSet(ChunksOf(old)),
           \A f \in S : added[f] \in Content /\ new[f] \in Upserted(old[f], added[f]),
           \A f \in File \ S : new[f] = old[f],
           NEW G \in SUBSET S, \A f \in G : Cardinality(new[f]) > Cardinality(old[f])
    PROVE  /\ IsFiniteSet(ChunksOf(new))
           /\ ChunkCount(old) \in Nat /\ ChunkCount(new) \in Nat /\ Cardinality(G) \in Nat
           /\ ChunkCount(old) + Cardinality(G) <= ChunkCount(new)
<1> DEFINE Old == ChunksOf(old)
           New == ChunksOf(new)
           pair == [f \in File |-> <<f, added[f]>>]
           Gained == {pair[f] : f \in G}
\* Pairs, and what an upsert leaves; from here on they are known by these facts alone.
<1>1. /\ \A f \in File : pair[f] = <<f, added[f]>> /\ pair[f][1] = f /\ pair[f][2] = added[f]
      /\ \A f \in File, c \in Content : <<f, c>>[1] = f /\ <<f, c>>[2] = c
  OBVIOUS
<1>2. /\ \A f \in File, c \in Content : <<f, c>> \in Old <=> c \in old[f]
      /\ \A f \in File, c \in Content : <<f, c>> \in New <=> c \in new[f]
      /\ \A p \in Old : \E f \in File, c \in Content : p = <<f, c>> /\ c \in old[f]
      /\ \A p \in New : \E f \in File, c \in Content : p = <<f, c>> /\ c \in new[f]
  BY DEF ChunksOf
<1>3. ASSUME NEW f \in S
      PROVE  /\ f \in File /\ added[f] \in Content /\ added[f] \in new[f]
             /\ \A c \in new[f] : c \in old[f] \/ c = added[f]
             /\ added[f] \in old[f] => \A c \in old[f] : c \in new[f]
             /\ \A c, d \in old[f] : c \notin new[f] /\ d \notin new[f] => c = d
  <2>1. f \in File /\ added[f] \in Content /\ new[f] \in Upserted(old[f], added[f])
    OBVIOUS
  <2>2. /\ added[f] \in new[f] /\ new[f] \subseteq old[f] \cup {added[f]}
        /\ added[f] \in old[f] => new[f] = old[f]
        /\ \A d, e \in old[f] \ new[f] : d = e
    BY <2>1, UpsertedHas
  <2> QED BY <2>1, <2>2
<1>4. IsFiniteSet(File) /\ \A T \in SUBSET File : IsFiniteSet(T) /\ IsFiniteSet({pair[f] : f \in T})
  <2>1. IsFiniteSet(File)
    BY ReindexAssumption
  <2>2. ASSUME NEW T \in SUBSET File PROVE IsFiniteSet(T) /\ IsFiniteSet({pair[f] : f \in T})
    <3> DEFINE image == [f \in T |-> pair[f]]
    <3>1. image \in Surjection(T, {pair[f] : f \in T})
      BY DEF Surjection
    <3>2. IsFiniteSet(T)
      BY <2>1, FS_Subset
    <3> QED BY <3>1, <3>2, FS_Surjection
  <2> QED BY <2>1, <2>2
<1>5. IsFiniteSet(Old) /\ G \in SUBSET File /\ S \in SUBSET File
  OBVIOUS
<1>6. IsFiniteSet(Gained) /\ IsFiniteSet(G) /\ Cardinality(Gained) = Cardinality(G)
  <2> DEFINE image == [f \in G |-> pair[f]]
  <2>1. image \in Surjection(G, Gained)
    BY DEF Surjection
  <2>2. image \in Injection(G, Gained)
    <3>1. \A f, h \in G : pair[f] = pair[h] => f = h
      BY <1>1
    <3> QED BY <3>1 DEF Injection, IsInjective
  <2>3. IsFiniteSet(G) /\ IsFiniteSet(Gained)
    BY <1>4
  <2> HIDE DEF image, Gained
  <2> QED BY <2>1, <2>2, <2>3, FS_Surjection
<1>7. ChunkCount(old) = Cardinality(Old) /\ ChunkCount(new) = Cardinality(New)
  BY DEF ChunkCount, ChunksOf
<1>8. \A p : p \in Gained <=> \E f \in G : p = pair[f]
  OBVIOUS
<1> DEFINE Added == {pair[f] : f \in S}
<1>9. IsFiniteSet(Added) /\ \A f \in S : pair[f] \in Added
  BY <1>4
<1> HIDE DEF pair, Old, New, Gained, Added
<1>10. IsFiniteSet(New)
  <2>1. ASSUME NEW p \in New, p \notin Old PROVE p \in Added
    <3>1. PICK f \in File, c \in Content : p = <<f, c>> /\ c \in new[f]
      BY <1>2
    <3>4. c \notin old[f]
      BY <1>2, <2>1, <3>1
    <3>2. f \in S
      BY <3>1, <3>4
    <3>3. c = added[f]
      BY <1>3, <3>1, <3>2, <3>4, Zenon
    <3> QED BY <1>1, <1>9, <3>1, <3>2, <3>3
  <2>2. IsFiniteSet(Old \cup Added)
    BY <1>5, <1>9, FS_Union
  <2>3. New \in SUBSET (Old \cup Added)
    BY <2>1
  <2> QED BY <2>2, <2>3, FS_Subset
<1>11. \A f \in G : added[f] \notin old[f] /\ new[f] = old[f] \cup {added[f]}
  <2> SUFFICES ASSUME NEW f \in G PROVE added[f] \notin old[f] /\ new[f] = old[f] \cup {added[f]}
    OBVIOUS
  <2> DEFINE A == old[f]
             B == new[f]
             c == added[f]
             in == [d \in A |-> <<f, d>>]
  <2>1. f \in S /\ f \in File /\ A \subseteq Content
    OBVIOUS
  <2>2. in \in Injection(A, Old)
    <3>0. ASSUME NEW d \in A PROVE <<f, d>> \in Old
      <4>1. d \in Content /\ d \in old[f]
        BY <2>1
      <4> HIDE DEF A, in
      <4> QED BY <1>2, <2>1, <4>1
    <3>1. in \in [A -> Old] /\ \A d \in A : in[d] = <<f, d>>
      BY <3>0
    <3>2. \A d, e \in A : in[d] = in[e] => d = e
      BY <3>1
    <3> HIDE DEF in, A
    <3> QED BY <3>1, <3>2 DEF Injection, IsInjective
  <2>3. IsFiniteSet(A)
    BY <1>5, <2>2, FS_Injection
  <2>4. Cardinality(A) \in Nat /\ Cardinality(B) > Cardinality(A)
    BY <2>3, FS_CardinalityType
  <2>5. /\ c \in A => B = A
        /\ c \notin A => B = A \cup {c} \/ \E d \in A : B = (A \ {d}) \cup {c}
    BY <2>1, UpsertedHas
  <2> HIDE DEF A, B, c
  <2>6. c \notin A
    BY <2>4, <2>5
  <2>7. ASSUME NEW d \in A, B = (A \ {d}) \cup {c} PROVE FALSE
    <3>1. IsFiniteSet(A \ {d}) /\ Cardinality(A \ {d}) = Cardinality(A) - 1
      BY <2>3, <2>7, FS_RemoveElement
    <3>2. c \notin A \ {d}
      BY <2>6
    <3>3. Cardinality(B) = Cardinality(A \ {d}) + 1
      BY <2>7, <3>1, <3>2, FS_AddElement
    <3> QED BY <2>4, <3>1, <3>3
  <2>8. c \notin A /\ B = A \cup {c}
    BY <2>5, <2>6, <2>7
  <2> QED BY <2>8 DEF A, B, c
<1>12. /\ IsFiniteSet(Old \cup Gained)
       /\ Cardinality(Old \cup Gained) = Cardinality(Old) + Cardinality(G)
  <2>1. ASSUME NEW p \in Old, p \in Gained PROVE FALSE
    <3>1. PICK f \in G : p = pair[f]
      BY <1>8, <2>1
    <3>2. f \in File /\ added[f] \in Content /\ added[f] \notin old[f] /\ p = <<f, added[f]>>
      BY <1>1, <1>3, <1>11, <3>1
    <3> QED BY <1>2, <3>2
  <2>2. Old \cap Gained = {}
    BY <2>1
  <2>3. Cardinality(Old) \in Nat /\ Cardinality(Gained) \in Nat
    BY <1>5, <1>6, FS_CardinalityType
  <2>4. /\ IsFiniteSet(Old \cup Gained)
        /\ Cardinality(Old \cup Gained) =
              Cardinality(Old) + Cardinality(Gained) - Cardinality(Old \cap Gained)
    BY <1>5, <1>6, FS_Union
  <2>5. Cardinality(Old \cap Gained) = 0
    BY <2>2, FS_EmptySet
  <2> QED BY <1>6, <2>3, <2>4, <2>5
\* A chunk that was replaced goes where its successor is, everything else where it was.
<1>13. /\ \A p \in Old \ New : pair[p[1]] \in New \ (Old \cup Gained) /\ p[1] \in File
       /\ \A p, q \in Old \ New : p[1] = q[1] => p = q
  <2>1. ASSUME NEW p \in Old \ New
        PROVE  /\ pair[p[1]] \in New \ (Old \cup Gained) /\ p[1] \in File
               /\ \A q \in Old \ New : p[1] = q[1] => p = q
    <3>1. PICK f \in File, c \in Content : p = <<f, c>> /\ c \in old[f]
      BY <1>2
    <3>2. p[1] = f /\ c \notin new[f]
      BY <1>1, <1>2, <3>1
    <3>3. f \in S
      BY <3>1, <3>2
    <3>4. added[f] \notin old[f] /\ added[f] \in new[f] /\ added[f] \in Content
      BY <1>3, <3>1, <3>2, <3>3, Zenon
    <3>5. f \notin G
      BY <1>11, <3>1, <3>2
    <3>6. pair[f] = <<f, added[f]>>
      BY <1>1
    <3>7. pair[f] \in New /\ pair[f] \notin Old
      BY <1>2, <3>4, <3>6
    <3>8. pair[f] \notin Gained
      BY <1>1, <1>5, <1>8, <3>5
    <3>9. ASSUME NEW q \in Old \ New, p[1] = q[1] PROVE p = q
      <4>1. PICK h \in File, d \in Content : q = <<h, d>> /\ d \in old[h]
        BY <1>2
      <4>2. h = f /\ d \notin new[h]
        BY <1>1, <1>2, <3>2, <3>9, <4>1
      <4>3. d = c
        BY <1>3, <3>1, <3>2, <3>3, <4>1, <4>2, Zenon
      <4> QED BY <3>1, <4>1, <4>2, <4>3
    <3> QED BY <3>2, <3>7, <3>8, <3>9
  <2> QED BY <2>1
<1>14. \A p \in Gained : p \in New
  <2> SUFFICES ASSUME NEW f \in G PROVE pair[f] \in New
    BY <1>8
  <2>1. f \in S /\ f \in File
    BY <1>5
  <2>2. added[f] \in Content /\ added[f] \in new[f] /\ pair[f] = <<f, added[f]>>
    BY <1>1, <1>3, <2>1, Zenon
  <2> QED BY <1>2, <2>1, <2>2
<1> DEFINE place == [p \in Old \cup Gained |-> IF p \in Old \ New THEN pair[p[1]] ELSE p]
<1>15. place \in Injection(Old \cup Gained, New)
  <2>1. place \in [Old \cup Gained -> New]
    BY <1>13, <1>14
  <2>2. \A p \in Old \ New : place[p] = pair[p[1]]
    OBVIOUS
  <2>3. \A p \in (Old \cup Gained) \ (Old \ New) : place[p] = p
    OBVIOUS
  <2> HIDE DEF place
  <2>4. ASSUME NEW p \in Old \ New, NEW q \in Old \ New, pair[p[1]] = pair[q[1]] PROVE p = q
    <3>1. p[1] = q[1]
      BY <1>1, <1>13, <2>4
    <3> QED BY <1>13, <3>1
  <2>5. ASSUME NEW p \in Old \cup Gained, NEW q \in Old \cup Gained, place[p] = place[q] PROVE p = q
    BY <1>13, <2>2, <2>3, <2>4, <2>5
  <2> QED BY <2>1, <2>5 DEF Injection, IsInjective
<1> HIDE DEF place
<1>16. Cardinality(Old \cup Gained) <= Cardinality(New)
  BY <1>10, <1>15, FS_Injection
<1>17. Cardinality(Old) \in Nat /\ Cardinality(New) \in Nat /\ Cardinality(G) \in Nat
  BY <1>5, <1>6, <1>10, FS_CardinalityType
<1> QED BY <1>7, <1>10, <1>12, <1>16, <1>17 DEF New

\* A commit: the chunks of the batch are there afterwards, but for those the cap dropped,
\* and if it dropped any the index is full; no other file and no other incarnation changes.
LEMMA CommitGrows ==
    ASSUME TypeOK, Exclusive, NEW r \in Run, Commit(r)
    PROVE  LET g == target[r]
           IN  /\ \A h \in Gen : IsFiniteSet(ChunksOf(corpus'[h]))
               /\ \A h \in Gen \ {g} : corpus'[h] = corpus[h]
               /\ \A f \in File \ Pending : corpus'[g][f] = corpus[g][f]
               /\ ~gaps' => ~gaps /\ \A f \in Pending : payload[f] \in corpus'[g][f]
               /\ ChunkCount(corpus[g]) \in Nat /\ ChunkCount(corpus'[g]) \in Nat
               /\ ChunkCount(corpus[g]) <= ChunkCount(corpus'[g])
               /\ ChunkCount(corpus'[g]) < Cap => \A f \in Pending : payload[f] \in corpus'[g][f]
<1> DEFINE g == target[r]
           old == corpus[g]
<1>1. /\ corpus \in [Gen -> [File -> SUBSET Content]] /\ payload \in [File -> MaybeContent]
      /\ g \in Gen /\ old \in [File -> SUBSET Content] /\ Pending \in SUBSET File
      /\ IsFiniteSet(ChunksOf(old)) /\ Cap \in Nat
      /\ \A f \in Pending : payload[f] \in Content
  BY ReindexAssumption DEF TypeOK, Exclusive, Pending, MaybeContent
<1>2. PICK chunks \in [Pending -> SUBSET Content] :
        /\ \A f \in Pending : chunks[f] \in Upserted(old[f], payload[f])
        /\ \E dropped \in SUBSET {f \in Pending : Cardinality(chunks[f]) > Cardinality(old[f])} :
              /\ Cardinality({f \in Pending : Cardinality(chunks[f]) > Cardinality(old[f])})
                    - Cardinality(dropped) =
                    IF Cardinality({f \in Pending : Cardinality(chunks[f]) > Cardinality(old[f])})
                       < (IF ChunkCount(old) < Cap THEN Cap - ChunkCount(old) ELSE 0)
                    THEN Cardinality({f \in Pending : Cardinality(chunks[f]) > Cardinality(old[f])})
                    ELSE (IF ChunkCount(old) < Cap THEN Cap - ChunkCount(old) ELSE 0)
              /\ corpus' = [corpus EXCEPT ![g] = [f \in File |->
                    IF f \in Pending \ dropped THEN chunks[f] ELSE old[f]]]
              /\ gaps' = (gaps \/ dropped # {})
  BY DEF Commit
<1> DEFINE grown == {f \in Pending : Cardinality(chunks[f]) > Cardinality(old[f])}
           room == IF ChunkCount(old) < Cap THEN Cap - ChunkCount(old) ELSE 0
<1>3. PICK dropped \in SUBSET grown :
        /\ Cardinality(grown) - Cardinality(dropped) =
              IF Cardinality(grown) < room THEN Cardinality(grown) ELSE room
        /\ corpus' = [corpus EXCEPT ![g] = [f \in File |->
              IF f \in Pending \ dropped THEN chunks[f] ELSE old[f]]]
        /\ gaps' = (gaps \/ dropped # {})
  BY <1>2
<1> DEFINE new == [f \in File |-> IF f \in Pending \ dropped THEN chunks[f] ELSE old[f]]
           S == Pending \ dropped
           G == grown \ dropped
<1>4. /\ grown \in SUBSET Pending /\ \A f \in grown : Cardinality(chunks[f]) > Cardinality(old[f])
      /\ S \in SUBSET File /\ G \in SUBSET S
  BY <1>1
<1>5. /\ new \in [File -> SUBSET Content]
      /\ \A f \in S : new[f] = chunks[f]
      /\ \A f \in File \ S : new[f] = old[f]
  BY <1>1, <1>2
<1>6. corpus'[g] = new /\ \A h \in Gen \ {g} : corpus'[h] = corpus[h]
  BY <1>1, <1>3
<1> HIDE DEF new, grown, old, room
<1>7. /\ IsFiniteSet(ChunksOf(new)) /\ ChunkCount(old) \in Nat /\ ChunkCount(new) \in Nat
      /\ Cardinality(G) \in Nat
      /\ ChunkCount(old) + Cardinality(G) <= ChunkCount(new)
  <2>1. \A f \in S : payload[f] \in Content /\ new[f] \in Upserted(old[f], payload[f])
    BY <1>1, <1>2, <1>5
  <2>2. \A f \in G : Cardinality(new[f]) > Cardinality(old[f])
    BY <1>4, <1>5
  <2> HIDE DEF S, G, g
  <2>3. S \in SUBSET File /\ G \in SUBSET S /\ \A f \in File \ S : new[f] = old[f]
    BY <1>4, <1>5
  <2>4. /\ old \in [File -> SUBSET Content] /\ new \in [File -> SUBSET Content]
        /\ payload \in [File -> MaybeContent] /\ IsFiniteSet(ChunksOf(old))
    BY <1>1, <1>5
  <2> QED BY <2>1, <2>2, <2>3, <2>4, UpsertsGrow, Zenon
<1>8. \A h \in Gen : IsFiniteSet(ChunksOf(corpus'[h]))
  BY <1>6, <1>7 DEF Exclusive
<1>9. \A f \in S : payload[f] \in new[f]
  BY <1>1, <1>2, <1>5, UpsertedHas
<1>10. ASSUME dropped = {} PROVE \A f \in Pending : payload[f] \in new[f]
  BY <1>9, <1>10
<1>11. ASSUME dropped # {} PROVE Cap <= ChunkCount(new)
  <2>1. IsFiniteSet(grown) /\ IsFiniteSet(dropped)
    <3>1. IsFiniteSet(File) /\ grown \in SUBSET File /\ dropped \in SUBSET File
      BY <1>1, <1>4, ReindexAssumption
    <3> QED BY <3>1, FS_Subset
  <2>2. Cardinality(grown) \in Nat /\ Cardinality(dropped) \in Nat /\ Cardinality(dropped) # 0
    BY <1>11, <2>1, FS_CardinalityType, FS_EmptySet
  <2>3. Cardinality(G) = Cardinality(grown) - Cardinality(dropped)
    <3>1. grown \cap dropped = dropped
      BY <1>3
    <3>2. Cardinality(grown \ dropped) = Cardinality(grown) - Cardinality(grown \cap dropped)
      BY <2>1, FS_Difference
    <3> QED BY <3>1, <3>2
  <2>4. Cardinality(G) = room
    BY <1>3, <2>2, <2>3 DEF room
  <2> HIDE DEF G
  <2> QED BY <1>1, <1>7, <2>4 DEF room
<1>12. \A f \in File \ Pending : new[f] = old[f]
  BY <1>5
<1>13. ~gaps' => ~gaps /\ dropped = {}
  BY <1>3
<1>14. /\ ChunkCount(old) <= ChunkCount(new)
       /\ ChunkCount(new) < Cap => \A f \in Pending : payload[f] \in new[f]
  <2>1. ChunkCount(old) <= ChunkCount(new)
    <3> HIDE DEF G
    <3> QED BY <1>7
  <2>2. ChunkCount(new) < Cap => dropped = {}
    <3> HIDE DEF G
    <3> QED BY <1>1, <1>7, <1>11
  <2> QED BY <1>10, <2>1, <2>2
<1> QED BY <1>6, <1>7, <1>8, <1>10, <1>12, <1>13, <1>14 DEF old

\* The permit goes from one run to the next, targets exist, and chunks are finitely many.
LEMMA ExclusiveNext == TypeOK /\ Exclusive /\ [Next]_vars => Exclusive'
<1> SUFFICES ASSUME TypeOK, Exclusive, [Next]_vars PROVE Exclusive'
  OBVIOUS
<1> USE ReindexAssumption
<1> DEFINE Busy == Working \cup Closing
           One == \A r, q \in Run : pc[r] \in Busy /\ pc[q] \in Busy => r = q
           Made == /\ gen \in {0, lastGen} /\ (gen = 0 => lastGen < MaxGen)
                   /\ \A r \in Run : target[r] <= lastGen
           Finite == \A h \in Gen : IsFiniteSet(ChunksOf(corpus[h]))
<1>1. /\ corpus \in [Gen -> [File -> SUBSET Content]] /\ gen \in 0..MaxGen /\ lastGen \in 1..MaxGen
      /\ pc \in [Run -> Label] /\ target \in [Run -> Gen]
      /\ One /\ Made /\ Finite /\ Gen = 1..MaxGen
  BY DEF TypeOK, Exclusive, Gen
<1>2. ASSUME One', Made', Finite' PROVE Exclusive'
  BY <1>2 DEF Exclusive
\* A step that leaves the index alone and gives the permit to nobody.
<1>3. ASSUME UNCHANGED index, UNCHANGED target \/ (\E r \in Run : target' = [target EXCEPT ![r] = gen] /\ gen # 0),
             \A r \in Run : pc'[r] \in Busy => pc[r] \in Busy
      PROVE  Exclusive'
  <2>1. Finite'
    BY <1>1, <1>3 DEF index
  <2>2. Made'
    <3>1. gen' = gen /\ lastGen' = lastGen
      BY <1>3 DEF index
    <3>2. \A r \in Run : target'[r] <= lastGen
      BY <1>1, <1>3
    <3> QED BY <1>1, <3>1, <3>2
  <2> QED BY <1>1, <1>2, <1>3, <2>1, <2>2
<1>4. ASSUME NEW r \in Run, NEW label \in Label, Goto(r, label)
      PROVE  pc' = [pc EXCEPT ![r] = label] /\ pc'[r] = label /\ \A q \in Run \ {r} : pc'[q] = pc[q]
  BY <1>1, <1>4 DEF Goto
<1>5. CASE UNCHANGED vars
  BY <1>3, <1>5 DEF vars, index, requests
<1>6. ASSUME NEW f \in File, NEW c \in MaybeContent, EditFile(f, c) PROVE Exclusive'
  BY <1>3, <1>6 DEF EditFile, requests
<1>7. ASSUME NEW f \in File, NEW c \in Content, IndexFile(f, c) PROVE Exclusive'
  <2>1. gen \in Gen /\ UNCHANGED <<gen, lastGen, pc, target>>
    BY <1>1, <1>7 DEF IndexFile, requests
  <2>2. PICK chunks \in Upserted(corpus[gen][f], c) :
            \/ corpus' = corpus \/ corpus' = [corpus EXCEPT ![gen][f] = chunks]
    BY <1>7 DEF IndexFile
  <2>3. Finite'
    <3>1. CASE corpus' = corpus
      BY <1>1, <3>1
    <3>2. CASE corpus' = [corpus EXCEPT ![gen][f] = chunks]
      <4> DEFINE old == corpus[gen]
                 new == [old EXCEPT ![f] = chunks]
                 added == [x \in File |-> c]
                 S == {f}
                 G == {}
      <4>1. corpus'[gen] = new /\ \A h \in Gen \ {gen} : corpus'[h] = corpus[h]
        BY <1>1, <2>1, <3>2
      <4>2. /\ old \in [File -> SUBSET Content] /\ added \in [File -> MaybeContent]
            /\ S \in SUBSET File /\ G \in SUBSET S
        BY <1>1, <2>1 DEF MaybeContent
      <4>3. new \in [File -> SUBSET Content]
        <5>1. chunks \subseteq Content
          BY <2>2, <4>2, UpsertedHas
        <5> QED BY <4>2, <5>1
      <4>4. \A x \in S : added[x] \in Content /\ new[x] \in Upserted(old[x], added[x])
        BY <2>2, <4>2
      <4>5. \A x \in File \ S : new[x] = old[x]
        BY <4>2
      <4>6. IsFiniteSet(ChunksOf(old)) /\ \A x \in G : Cardinality(new[x]) > Cardinality(old[x])
        BY <1>1, <2>1
      <4> HIDE DEF old, new, added, S, G
      <4>7. IsFiniteSet(ChunksOf(new))
        BY <4>2, <4>3, <4>4, <4>5, <4>6, UpsertsGrow, Zenon
      <4> QED BY <1>1, <4>1, <4>7
    <3> QED BY <2>2, <3>1, <3>2
  <2>4. One' /\ Made'
    BY <1>1, <2>1
  <2> QED BY <1>2, <2>3, <2>4
<1>8. ASSUME NEW f \in File, RemoveFile(f) PROVE Exclusive'
  <2>1. gen \in Gen /\ UNCHANGED <<gen, lastGen, pc, target>> /\ corpus' = [corpus EXCEPT ![gen][f] = {}]
    BY <1>1, <1>8 DEF RemoveFile, requests
  <2>2. ASSUME NEW h \in Gen PROVE IsFiniteSet(ChunksOf(corpus'[h]))
    <3>1. \A x \in File : corpus'[h][x] \subseteq corpus[h][x]
      BY <1>1, <2>1
    <3>2. ChunksOf(corpus'[h]) \in SUBSET ChunksOf(corpus[h])
      BY <3>1 DEF ChunksOf
    <3> QED BY <1>1, <3>2, FS_Subset
  <2>3. One' /\ Made'
    BY <1>1, <2>1
  <2> QED BY <1>2, <2>2, <2>3
<1>9. CASE DeleteIndex \/ CreateIndex
  <2>1. /\ UNCHANGED <<corpus, pc, target>>
        /\ \/ gen' = 0 /\ lastGen' = lastGen /\ lastGen < MaxGen
           \/ gen = 0 /\ gen' = lastGen + 1 /\ lastGen' = lastGen + 1
    BY <1>9 DEF DeleteIndex, CreateIndex, requests
  <2>2. Made'
    <3>1. \A r \in Run : target[r] \in Nat /\ target[r] <= lastGen
      BY <1>1
    <3> QED BY <1>1, <2>1, <3>1
  <2>3. One' /\ Finite'
    BY <1>1, <2>1
  <2> QED BY <1>2, <2>2, <2>3
<1>10. CASE CooldownElapses
  BY <1>3, <1>10 DEF CooldownElapses, requests
<1>11. ASSUME NEW r \in Run, NEW forced \in BOOLEAN, RequestReindex(r, forced) PROVE Exclusive'
  <2>1. /\ Goto(r, "queued") /\ UNCHANGED index /\ target' = [target EXCEPT ![r] = gen] /\ gen # 0
    BY <1>11 DEF RequestReindex
  <2>2. \A q \in Run : pc'[q] \in Busy => pc[q] \in Busy
    BY <1>4, <2>1 DEF Label, Working, Closing
  <2> QED BY <1>3, <2>1, <2>2
<1>12. ASSUME NEW r \in Run, Start(r) PROVE Exclusive'
  <2>1. Goto(r, "batch") /\ UNCHANGED <<index, target>> /\ Active = {}
    BY <1>12 DEF Start, requests
  <2>2. \A q \in Run : pc[q] \notin Busy
    BY <2>1 DEF Active, Working, Closing
  <2>3. One'
    BY <1>4, <2>1, <2>2 DEF Label
  <2>4. Made' /\ Finite'
    BY <1>1, <2>1 DEF index
  <2> QED BY <1>2, <2>3, <2>4
<1>13. ASSUME NEW r \in Run, PollerTrips(r) \/ CleanupFires(r) PROVE Exclusive'
  BY <1>3, <1>13 DEF PollerTrips, CleanupFires, requests
<1>14. ASSUME NEW r \in Run, Commit(r) PROVE Exclusive'
  <2>1. Goto(r, "record") /\ UNCHANGED <<gen, lastGen, target>> /\ pc[r] = "commit"
    BY <1>14 DEF Commit, requests
  <2>2. Finite'
    BY <1>14, CommitGrows
  <2>3. \A q \in Run : pc'[q] \in Busy => pc[q] \in Busy
    BY <1>4, <2>1 DEF Label, Working, Closing
  <2>4. One' /\ Made'
    BY <1>1, <2>1, <2>3
  <2> QED BY <1>2, <2>2, <2>4
<1>15. ASSUME NEW r \in Run, RunStep(r), ~Commit(r) PROVE Exclusive'
  <2>1. /\ UNCHANGED <<index, target>> /\ pc[r] \in Busy
        /\ \E label \in Label : Goto(r, label)
    BY <1>15 DEF RunStep, AbortLoop, EndLoop, PrepareBatch, BatchFails, Record, RebuildGraph,
                 SetStatus, EmitComplete, EndRun, requests, Label, Working, Closing
  <2>2. \A q \in Run : pc'[q] \in Busy => pc[q] \in Busy
    BY <1>4, <2>1
  <2> QED BY <1>3, <2>1, <2>2
<1> QED BY <1>5, <1>6, <1>7, <1>8, <1>9, <1>10, <1>11, <1>12, <1>13, <1>14, <1>15 DEF Next

-----------------------------------------------------------------------------
(* A forced run.                                                           *)

\* A batch is of files ahead; what of it is not to be indexed, the run knows or may leave.
LEMMA BatchOf ==
    ASSUME TypeOK, NEW r \in Run, PrepareBatch(r)
    PROVE  \E batch \in SUBSET todo :
             /\ todo' = todo \ batch
             /\ \A f \in File : payload'[f] =
                   IF /\ f \in batch /\ disk[f] # Absent
                      /\ disk[f] \notin Minified /\ hashes[f] # disk[f]
                   THEN disk[f] ELSE Absent
             /\ \/ Goto(r, "batch") /\ \A f \in File : payload'[f] = Absent
                \/ Goto(r, "commit")
             /\ ~gaps' => ~gaps
<1>1. PICK batch \in SUBSET todo :
         LET read == {f \in batch : disk[f] # Absent}
             toIndex == {f \in read : disk[f] \notin Minified /\ hashes[f] # disk[f]}
         IN  /\ todo' = todo \ batch
             /\ payload' = [f \in File |-> IF f \in toIndex THEN disk[f] ELSE Absent]
             /\ gaps' = (gaps \/ read # batch)
             /\ Goto(r, IF toIndex = {} THEN "batch" ELSE "commit")
  BY DEF PrepareBatch, NextBatch
<1> DEFINE toIndex == {f \in batch : disk[f] # Absent /\ disk[f] \notin Minified /\ hashes[f] # disk[f]}
<1>2. /\ payload' = [f \in File |-> IF f \in toIndex THEN disk[f] ELSE Absent]
      /\ Goto(r, IF toIndex = {} THEN "batch" ELSE "commit")
      /\ ~gaps' => ~gaps
  BY <1>1
<1>3. \A f \in File : f \in toIndex <=> /\ f \in batch /\ disk[f] # Absent
                                      /\ disk[f] \notin Minified /\ hashes[f] # disk[f]
  OBVIOUS
<1> HIDE DEF toIndex
<1>4. \A f \in File : payload'[f] = IF f \in toIndex THEN disk[f] ELSE Absent
  BY <1>2
<1>5. \/ Goto(r, "batch") /\ \A f \in File : payload'[f] = Absent
      \/ Goto(r, "commit")
  BY <1>2, <1>4
<1> QED BY <1>1, <1>2, <1>3, <1>4, <1>5

\* A run that is not at work has no share.
LEMMA Resting == ASSUME NEW r \in Run, pc[r] \notin Working \cup Closing PROVE Forced(r)
BY DEF Forced, LoopEnds, FreshHashes, BatchIsDisk, Covered, Working, Closing

\* Each step keeps a forced run's share of the walk, its batch and the index together.
LEMMA CoverNext == CoverInv /\ [Next]_vars => CoverInv'
<1> SUFFICES ASSUME CoverInv, [Next]_vars PROVE CoverInv'
  OBVIOUS
<1> USE ReindexAssumption
<1> DEFINE Busy == Working \cup Closing
<1>1. TypeOK' /\ Exclusive' /\ TypeOK /\ Exclusive
  BY TypeNext, ExclusiveNext DEF CoverInv
<1>2. /\ disk \in [File -> MaybeContent] /\ hashes \in [File -> MaybeContent]
      /\ corpus \in [Gen -> [File -> SUBSET Content]] /\ payload \in [File -> MaybeContent]
      /\ pc \in [Run -> Label] /\ target \in [Run -> Gen] /\ todo \subseteq File
      /\ force \in [Run -> BOOLEAN]
      /\ event \in [Run -> {"none", "complete", "aborted_memory"}]
      /\ \A f \in todo : payload[f] = Absent
  BY <1>1 DEF TypeOK
<1>3. \A r \in Run : LoopEnds(r) /\ FreshHashes(r) /\ BatchIsDisk(r) /\ Covered(r)
  BY DEF CoverInv, Forced
<1>4. ASSUME \A r \in Run : Forced(r)' PROVE CoverInv'
  BY <1>1, <1>4 DEF CoverInv
<1>5. ASSUME NEW r \in Run, NEW label, Goto(r, label)
      PROVE  pc'[r] = label /\ \A q \in Run \ {r} : pc'[q] = pc[q]
  BY <1>2, <1>5 DEF Goto
<1>6. ASSUME NEW r \in Run, pc'[r] \notin Busy PROVE Forced(r)'
  BY <1>6 DEF Forced, LoopEnds, FreshHashes, BatchIsDisk, Covered, Working, Closing
\* A step of the run r: the others are at rest before and after.
<1>7. ASSUME NEW r \in Run, NEW label, Goto(r, label), pc[r] \in Busy \/ Active = {}, Forced(r)'
      PROVE  CoverInv'
  <2>1. ASSUME NEW q \in Run \ {r} PROVE pc'[q] \notin Busy
    BY <1>1, <1>2, <1>5, <1>7 DEF Exclusive, Active, Working, Closing
  <2> QED BY <1>4, <1>6, <1>7, <2>1
\* A step of others that at most touches files.
<1>8. ASSUME UNCHANGED <<hashes, pc, force, target, todo, payload, memHit, gaps, event>>,
             touched \subseteq touched',
             \A f \in File \ touched' : disk'[f] = disk[f] /\ \A g \in Gen : corpus'[g][f] = corpus[g][f]
      PROVE  CoverInv'
  <2> SUFFICES ASSUME NEW r \in Run PROVE Forced(r)'
    BY <1>4
  <2>1. LoopEnds(r)' /\ FreshHashes(r)' /\ BatchIsDisk(r)'
    BY <1>3, <1>8 DEF LoopEnds, FreshHashes, BatchIsDisk
  <2>2. Covered(r)'
    BY <1>2, <1>3, <1>8 DEF Covered
  <2> QED BY <2>1, <2>2 DEF Forced
<1>9. CASE UNCHANGED vars
  BY <1>8, <1>9 DEF vars, files, index, requests, loop, outcome
<1>10. ASSUME NEW f \in File, NEW c \in MaybeContent, EditFile(f, c) PROVE CoverInv'
  <2>1. /\ disk' = [disk EXCEPT ![f] = c] /\ touched' = touched \cup {f}
        /\ UNCHANGED <<corpus, hashes, pc, force, target, todo, payload, memHit, gaps, event>>
    BY <1>10 DEF EditFile, index, requests, loop, outcome
  <2> QED BY <1>2, <1>8, <2>1
<1>11. ASSUME NEW f \in File, NEW c \in Content, IndexFile(f, c) PROVE CoverInv'
  <2>1. /\ touched' = touched \cup {f}
        /\ UNCHANGED <<disk, hashes, pc, force, target, todo, payload, memHit, gaps, event>>
        /\ \/ corpus' = corpus \/ \E chunks : corpus' = [corpus EXCEPT ![gen][f] = chunks]
    BY <1>11 DEF IndexFile, files, requests, loop, outcome
  <2>2. \A x \in File \ touched' : \A g \in Gen : corpus'[g][x] = corpus[g][x]
    BY <1>2, <2>1
  <2> QED BY <1>8, <2>1, <2>2
<1>12. ASSUME NEW f \in File, RemoveFile(f) PROVE CoverInv'
  <2>1. /\ touched' = touched \cup {f}
        /\ UNCHANGED <<disk, hashes, pc, force, target, todo, payload, memHit, gaps, event>>
        /\ corpus' = [corpus EXCEPT ![gen][f] = {}]
    BY <1>12 DEF RemoveFile, files, requests, loop, outcome
  <2>2. \A x \in File \ touched' : \A g \in Gen : corpus'[g][x] = corpus[g][x]
    BY <1>2, <2>1
  <2> QED BY <1>8, <2>1, <2>2
<1>13. CASE DeleteIndex \/ CreateIndex \/ CooldownElapses \/ \E r \in Run : PollerTrips(r) \/ CleanupFires(r)
  <2>1. UNCHANGED <<disk, corpus, touched, hashes, pc, force, target, todo, payload, memHit, gaps, event>>
    BY <1>13 DEF DeleteIndex, CreateIndex, CooldownElapses, PollerTrips, CleanupFires, files, index,
                 requests, loop, outcome
  <2> QED BY <1>8, <2>1
<1>14. ASSUME NEW r \in Run, NEW forced \in BOOLEAN, RequestReindex(r, forced) PROVE CoverInv'
  <2>1. /\ pc[r] = "none" /\ Goto(r, "queued")
        /\ force' = [force EXCEPT ![r] = forced] /\ target' = [target EXCEPT ![r] = gen]
        /\ UNCHANGED <<disk, corpus, touched, hashes, todo, payload, memHit, gaps, event>>
    BY <1>14 DEF RequestReindex, files, index, loop, outcome
  <2>2. ASSUME NEW q \in Run \ {r} PROVE Forced(q)'
    <3>1. pc'[q] = pc[q] /\ force'[q] = force[q] /\ target'[q] = target[q]
      BY <1>2, <1>5, <2>1
    <3>2. LoopEnds(q) /\ FreshHashes(q) /\ BatchIsDisk(q) /\ Covered(q)
      BY <1>3
    <3> QED BY <2>1, <3>1, <3>2 DEF Forced, LoopEnds, FreshHashes, BatchIsDisk, Covered
  <2>3. Forced(r)'
    BY <1>5, <1>6, <2>1 DEF Working, Closing
  <2> QED BY <1>4, <2>2, <2>3
<1>15. ASSUME NEW r \in Run, Start(r) PROVE CoverInv'
  <2>1. /\ Goto(r, "batch") /\ Active = {} /\ todo' = {f \in File : disk[f] # Absent}
        /\ hashes' = IF force[r] THEN Nothing ELSE hashes
        /\ ~memHit' /\ UNCHANGED <<disk, force>>
    BY <1>15 DEF Start, files, requests
  <2>2. Forced(r)'
    BY <1>5, <2>1 DEF Forced, LoopEnds, FreshHashes, BatchIsDisk, Covered, Nothing, Working, Closing
  <2> QED BY <1>7, <2>1, <2>2
<1>16. ASSUME NEW r \in Run, AbortLoop(r) PROVE CoverInv'
  <2>1. pc[r] = "batch" /\ Goto(r, "graph") /\ memHit'
    BY <1>16 DEF AbortLoop
  <2>2. Forced(r)'
    BY <1>5, <2>1 DEF Forced, LoopEnds, FreshHashes, BatchIsDisk, Covered, Working, Closing
  <2> QED BY <1>7, <2>1, <2>2 DEF Working
\* What stays of a run that goes on with the same files ahead.
<1>17. ASSUME NEW r \in Run, EndLoop(r) PROVE CoverInv'
  <2>1. /\ pc[r] = "batch" /\ todo = {} /\ Goto(r, "graph")
        /\ UNCHANGED <<disk, corpus, touched, force, target, todo, memHit, gaps>>
    BY <1>17 DEF EndLoop, files, index, requests, loop
  <2>2. Forced(r)'
    BY <1>3, <1>5, <2>1 DEF Forced, LoopEnds, FreshHashes, BatchIsDisk, Covered, Working, Closing
  <2> QED BY <1>7, <2>1, <2>2 DEF Working
<1>18. ASSUME NEW r \in Run, PrepareBatch(r) PROVE CoverInv'
  <2>1. /\ pc[r] = "batch"
        /\ UNCHANGED <<disk, corpus, touched, hashes, force, target, memHit>>
    BY <1>18 DEF PrepareBatch, files, index, requests
  <2>2. PICK batch \in SUBSET todo :
             /\ todo' = todo \ batch
             /\ \A f \in File : payload'[f] =
                   IF /\ f \in batch /\ disk[f] # Absent
                      /\ disk[f] \notin Minified /\ hashes[f] # disk[f]
                   THEN disk[f] ELSE Absent
             /\ \/ Goto(r, "batch") /\ \A f \in File : payload'[f] = Absent
                \/ Goto(r, "commit")
             /\ ~gaps' => ~gaps
    BY <1>1, <1>18, BatchOf
  <2>3. LoopEnds(r) /\ FreshHashes(r) /\ BatchIsDisk(r) /\ Covered(r)
    BY <1>3
  <2>4. pc'[r] \in {"batch", "commit"}
    BY <1>5, <2>2
  <2>5. LoopEnds(r)' /\ FreshHashes(r)' /\ BatchIsDisk(r)'
    <3>1. BatchIsDisk(r)'
      BY <2>1, <2>2 DEF BatchIsDisk
    <3> QED BY <2>1, <2>2, <2>3, <2>4, <3>1 DEF LoopEnds, FreshHashes, Working, Closing
  <2>6. Covered(r)'
    <3> SUFFICES ASSUME force[r], ~gaps, ~memHit, NEW f \in File \ touched, disk[f] \in Content \ Minified
                 PROVE  \/ f \in todo'
                        \/ pc'[r] = "commit" /\ payload'[f] = disk[f]
                        \/ disk[f] \in corpus[target[r]][f]
      BY <2>1, <2>2 DEF Covered
    <3>1. f \in todo \/ disk[f] \in corpus[target[r]][f]
      BY <2>1, <2>3 DEF Covered, Working
    <3>2. disk[f] # Absent
      OBVIOUS
    <3>3. CASE f \in batch
      <4>1. hashes[f] = Absent
        BY <2>1, <2>3, <3>3 DEF FreshHashes, Working
      <4>2. payload'[f] = disk[f]
        BY <2>2, <3>2, <3>3, <4>1
      <4> QED BY <1>5, <2>2, <3>2, <4>2
    <3>4. CASE f \notin batch
      BY <2>2, <3>1, <3>4
    <3> QED BY <3>3, <3>4
  <2>7. \E label : Goto(r, label)
    BY <2>2
  <2> QED BY <1>7, <2>1, <2>5, <2>6, <2>7 DEF Forced, Working
<1>19. ASSUME NEW r \in Run, BatchFails(r) PROVE CoverInv'
  <2>1. /\ pc[r] = "commit" /\ gaps' /\ Goto(r, "batch")
        /\ UNCHANGED <<hashes, force, todo, memHit>>
    BY <1>19 DEF BatchFails, requests
  <2>2. Forced(r)'
    BY <1>3, <1>5, <2>1 DEF Forced, LoopEnds, FreshHashes, BatchIsDisk, Covered, Working, Closing
  <2> QED BY <1>7, <2>1, <2>2 DEF Working
<1>20. ASSUME NEW r \in Run, Commit(r) PROVE CoverInv'
  <2>1. /\ pc[r] = "commit" /\ Goto(r, "record")
        /\ UNCHANGED <<disk, touched, hashes, force, target, todo, payload, memHit>>
    BY <1>20 DEF Commit, files, requests
  <2>2. LoopEnds(r) /\ FreshHashes(r) /\ BatchIsDisk(r) /\ Covered(r)
    BY <1>3
  <2>3. LoopEnds(r)' /\ FreshHashes(r)' /\ BatchIsDisk(r)'
    BY <1>5, <2>1, <2>2 DEF LoopEnds, FreshHashes, BatchIsDisk, Working, Closing
  <2>4. Covered(r)'
    <3> SUFFICES ASSUME force[r], ~gaps', ~memHit, NEW f \in File \ touched, disk[f] \in Content \ Minified
                 PROVE  f \in todo \/ disk[f] \in corpus'[target[r]][f]
      BY <2>1 DEF Covered
    <3>1. /\ ~gaps /\ \A x \in Pending : payload[x] \in corpus'[target[r]][x]
          /\ \A x \in File \ Pending : corpus'[target[r]][x] = corpus[target[r]][x]
      BY <1>1, <1>20, CommitGrows
    <3>2. f \in todo \/ payload[f] = disk[f] \/ disk[f] \in corpus[target[r]][f]
      BY <2>1, <2>2, <3>1 DEF Covered, Working
    <3>3. payload[f] \in {disk[f], Absent}
      BY <2>1, <2>2 DEF BatchIsDisk
    <3>4. disk[f] # Absent
      OBVIOUS
    <3>5. CASE payload[f] = disk[f]
      BY <3>1, <3>4, <3>5 DEF Pending
    <3>6. CASE payload[f] = Absent /\ disk[f] \in corpus[target[r]][f]
      BY <3>1, <3>6 DEF Pending
    <3> QED BY <3>2, <3>3, <3>5, <3>6
  <2> QED BY <1>7, <2>1, <2>3, <2>4 DEF Forced, Working
<1>21. ASSUME NEW r \in Run, Record(r) PROVE CoverInv'
  <2>1. /\ pc[r] = "record"
        /\ UNCHANGED <<disk, corpus, touched, force, target, todo, gaps>>
        /\ \/ Goto(r, "batch") /\ memHit' = memHit
           \/ Goto(r, "graph") /\ memHit'
    BY <1>21 DEF Record, files, index, requests
  <2>2. LoopEnds(r) /\ FreshHashes(r) /\ Covered(r)
    BY <1>3
  <2>3. \/ pc'[r] = "batch" /\ memHit' = memHit
        \/ pc'[r] = "graph" /\ memHit'
    BY <1>5, <2>1
  <2>4. ASSUME force[r], NEW f \in todo PROVE hashes'[f] = Absent
    <3>1. hashes[f] = Absent /\ payload[f] = Absent /\ f \in File
      BY <1>2, <2>1, <2>2, <2>4 DEF FreshHashes, Working
    <3> DEFINE known == [x \in File |-> IF x \in Pending THEN payload[x] ELSE hashes[x]]
    <3>2. known \in [File -> MaybeContent] /\ known[f] = Absent
      BY <1>2, <3>1 DEF Pending
    <3>3. hashes' \in Shrunk(known)
      BY <1>21 DEF Record
    <3> HIDE DEF known
    <3> QED BY <3>1, <3>2, <3>3, ShrunkForgets
  <2>5. LoopEnds(r)' /\ FreshHashes(r)' /\ BatchIsDisk(r)'
    BY <2>1, <2>2, <2>3, <2>4 DEF LoopEnds, FreshHashes, BatchIsDisk, Working, Closing
  <2>6. Covered(r)'
    BY <2>1, <2>2, <2>3 DEF Covered, Working, Closing
  <2>7. \E label : Goto(r, label)
    BY <2>1
  <2> QED BY <1>7, <2>1, <2>5, <2>6, <2>7 DEF Forced, Working
<1>22. ASSUME NEW r \in Run, RebuildGraph(r) \/ SetStatus(r) PROVE CoverInv'
  <2>1. /\ pc[r] \in {"graph", "stop"}
        /\ Goto(r, "stop") \/ Goto(r, "event")
        /\ UNCHANGED <<disk, corpus, touched, hashes, force, target, todo, memHit, gaps, event>>
    BY <1>22 DEF RebuildGraph, SetStatus, files, index, requests, loop, outcome
  <2>2. pc'[r] \in {"stop", "event"} /\ \E label : Goto(r, label)
    BY <1>5, <2>1
  <2>3. Forced(r)'
    BY <1>3, <2>1, <2>2 DEF Forced, LoopEnds, FreshHashes, BatchIsDisk, Covered, Working, Closing
  <2> QED BY <1>7, <2>1, <2>2, <2>3 DEF Closing
<1>23. ASSUME NEW r \in Run, EmitComplete(r) PROVE CoverInv'
  <2>1. /\ pc[r] = "event" /\ Goto(r, "end")
        /\ UNCHANGED <<disk, corpus, touched, hashes, force, target, todo, memHit, gaps>>
        /\ event' = [event EXCEPT ![r] = IF memHit THEN "aborted_memory" ELSE "complete"]
    BY <1>23 DEF EmitComplete, files, index, requests, loop
  <2>2. event'[r] = "complete" => ~memHit
    BY <1>2, <2>1
  <2>3. Forced(r)'
    BY <1>3, <1>5, <2>1, <2>2 DEF Forced, LoopEnds, FreshHashes, BatchIsDisk, Covered, Working, Closing
  <2> QED BY <1>7, <2>1, <2>3 DEF Closing
<1>24. ASSUME NEW r \in Run, EndRun(r) PROVE CoverInv'
  <2>1. pc[r] = "end" /\ Goto(r, "done")
    BY <1>24 DEF EndRun
  <2>2. Forced(r)'
    BY <1>5, <1>6, <2>1 DEF Working, Closing
  <2> QED BY <1>7, <2>1, <2>2 DEF Closing
<1> QED BY <1>9, <1>10, <1>11, <1>12, <1>13, <1>14, <1>15, <1>16, <1>17, <1>18, <1>19, <1>20,
           <1>21, <1>22, <1>23, <1>24 DEF Next, RunStep

\* At the start no request is known and no index holds a chunk.
LEMMA CoverInit == Init => CoverInv
<1> SUFFICES ASSUME Init PROVE CoverInv
  OBVIOUS
<1> USE ReindexAssumption
<1>1. TypeOK
  <2>1. memAbort \in BOOLEAN /\ memHit \in BOOLEAN /\ gaps \in BOOLEAN /\ force \in [Run -> BOOLEAN]
    BY Zenon DEF Init
  <2>2. 1 \in Gen /\ gen \in 0..MaxGen /\ edits \in 0..MaxEdits /\ calls \in 0..MaxCalls
    BY DEF Init, Gen
  <2>3. /\ corpus \in [Gen -> [File -> SUBSET Content]] /\ target \in [Run -> Gen]
        /\ disk \in [File -> MaybeContent] /\ hashes \in [File -> MaybeContent]
        /\ payload \in [File -> MaybeContent] /\ pc \in [Run -> Label]
    BY <2>2 DEF Init, Nothing, MaybeContent, Label
  <2> QED BY <2>1, <2>2, <2>3 DEF Init, TypeOK
<1>2. Exclusive
  <2>1. \A r \in Run : pc[r] = "none" /\ target[r] = 1
    BY DEF Init
  <2>2. ASSUME NEW g \in Gen PROVE IsFiniteSet(ChunksOf(corpus[g]))
    <3>1. \A f \in File : corpus[g][f] = {}
      BY DEF Init
    <3>2. ChunksOf(corpus[g]) = {}
      BY <3>1 DEF ChunksOf
    <3> QED BY <3>2, FS_EmptySet
  <2>3. gen \in {0, lastGen} /\ gen # 0 /\ lastGen = 1
    BY DEF Init
  <2>4. \A r \in Run : pc[r] \notin Working \cup Closing /\ target[r] <= lastGen
    BY <2>1, <2>3 DEF Working, Closing
  <2> QED BY <2>2, <2>3, <2>4, Zenon DEF Exclusive
<1>3. ASSUME NEW r \in Run PROVE Forced(r)
  <2>1. pc[r] = "none"
    BY DEF Init
  <2> QED BY <2>1, Resting DEF Working, Closing
<1> QED BY <1>1, <1>2, <1>3 DEF CoverInv

\* A forced run that reports `complete', without an error and below the cap, has indexed
\* every file nobody touched meanwhile: for any files, batches, hashes and runs, and
\* whatever single-file calls, deletes and recreations do around it.
THEOREM ForcedCovers == Spec => []ForcedRunCovers
<1>1. CoverInv => ForcedRunCovers
  <2> SUFFICES ASSUME CoverInv, NEW r \in Run, pc[r] = "end", event[r] = "complete", force[r], ~gaps,
                      NEW f \in File \ touched, disk[f] \in Content \ Minified
               PROVE  disk[f] \in corpus[target[r]][f]
    BY DEF ForcedRunCovers
  <2>1. LoopEnds(r) /\ Covered(r)
    BY DEF CoverInv, Forced
  <2>2. ~memHit /\ todo = {}
    BY <2>1 DEF LoopEnds, Closing
  <2> QED BY <2>1, <2>2 DEF Covered, Closing
<1> QED BY <1>1, CoverInit, CoverNext, PTL DEF Spec

-----------------------------------------------------------------------------
(* The hash cache.                                                         *)

\* Each step keeps what the hash cache may skip, in an index that is still the first, that
\* no single-file call changed and that is below its cap.
LEMMA HashNext == HashInv /\ [Next]_vars => HashInv'
<1> SUFFICES ASSUME HashInv, [Next]_vars PROVE HashInv'
  OBVIOUS
<1> USE ReindexAssumption
<1> DEFINE AtRecord == {r \in Run : pc[r] = "record"}
           Known(f) == hashes[f] \in corpus[gen][f] \cup {Absent}
           Calm == gen = 1 /\ calls = 0 /\ ChunkCount(corpus[1]) < Cap
<1>1. TypeOK' /\ Exclusive' /\ TypeOK /\ Exclusive
  BY TypeNext, ExclusiveNext DEF HashInv
<1>2. /\ disk \in [File -> MaybeContent] /\ hashes \in [File -> MaybeContent]
      /\ corpus \in [Gen -> [File -> SUBSET Content]] /\ payload \in [File -> MaybeContent]
      /\ pc \in [Run -> Label] /\ target \in [Run -> Gen] /\ calls \in Nat
      /\ gen \in 0..MaxGen /\ lastGen \in 1..MaxGen
      /\ 1 \in Gen /\ Gen = 1..MaxGen
  BY <1>1 DEF TypeOK, Gen
<1>3. RecordedAfter
  BY DEF HashInv
<1>4. ASSUME RecordedAfter' PROVE HashInv'
  BY <1>1, <1>4 DEF HashInv
<1>5. ASSUME NEW r \in Run, NEW label, Goto(r, label)
      PROVE  pc'[r] = label /\ \A q \in Run \ {r} : pc'[q] = pc[q]
  BY <1>2, <1>5 DEF Goto
\* A step that is no part of a batch.
<1>6. ASSUME UNCHANGED <<gen, calls, corpus, hashes, payload>>, AtRecord' = AtRecord
      PROVE  HashInv'
  <2>1. RecordedAfter'
    BY <1>3, <1>6 DEF RecordedAfter, SkipIsSound
  <2> QED BY <1>4, <2>1
\* A step of the run r, that is not at the record and does not come to it.
<1>7. ASSUME NEW r \in Run, NEW label, Goto(r, label), label # "record",
             pc[r] \in (Working \cup Closing) \ {"record"} \/ Active = {},
             UNCHANGED <<gen, calls, corpus>>, \A f \in File : hashes'[f] \in {hashes[f], Absent}
      PROVE  HashInv'
  <2>1. \A q \in Run : pc[q] # "record" /\ pc'[q] # "record"
    BY <1>1, <1>2, <1>5, <1>7 DEF Exclusive, Active, Working
  <2>2. ASSUME Calm', NEW f \in File PROVE SkipIsSound(f)'
    <3>1. SkipIsSound(f)
      BY <1>3, <1>7, <2>2 DEF RecordedAfter
    <3>2. Known(f)
      BY <2>1, <3>1 DEF SkipIsSound
    <3>3. hashes'[f] \in corpus'[gen'][f] \cup {Absent}
      BY <1>7, <3>2
    <3> QED BY <3>3 DEF SkipIsSound
  <2>3. RecordedAfter'
    BY <2>1, <2>2 DEF RecordedAfter
  <2> QED BY <1>4, <2>3
<1>8. CASE UNCHANGED vars
  BY <1>6, <1>8 DEF vars, files, index, loop
<1>9. ASSUME NEW f \in File, NEW c \in MaybeContent, EditFile(f, c) PROVE HashInv'
  BY <1>6, <1>9 DEF EditFile, index, loop
<1>10. ASSUME NEW f \in File, (\E c \in Content : IndexFile(f, c)) \/ RemoveFile(f) PROVE HashInv'
  <2>1. calls' = calls + 1
    BY <1>10 DEF IndexFile, RemoveFile
  <2>2. calls' # 0
    BY <1>2, <2>1
  <2> QED BY <1>4, <2>2 DEF RecordedAfter
<1>11. CASE DeleteIndex \/ CreateIndex
  <2>1. gen' = 0 \/ gen' = lastGen + 1
    BY <1>11 DEF DeleteIndex, CreateIndex
  <2>2. gen' # 1
    BY <1>2, <2>1
  <2> QED BY <1>4, <2>2 DEF RecordedAfter
<1>12. CASE CooldownElapses \/ \E r \in Run : PollerTrips(r) \/ CleanupFires(r)
  BY <1>6, <1>12 DEF CooldownElapses, PollerTrips, CleanupFires, index, loop
<1>13. ASSUME NEW r \in Run, NEW forced \in BOOLEAN, RequestReindex(r, forced) PROVE HashInv'
  <2>1. pc[r] = "none" /\ Goto(r, "queued") /\ UNCHANGED <<gen, calls, corpus, hashes, payload>>
    BY <1>13 DEF RequestReindex, index, loop
  <2>2. AtRecord' = AtRecord
    BY <1>5, <2>1
  <2> QED BY <1>6, <2>1, <2>2
<1>14. ASSUME NEW r \in Run, Start(r) PROVE HashInv'
  <2>1. /\ Goto(r, "batch") /\ Active = {} /\ UNCHANGED <<gen, calls, corpus>>
        /\ hashes' = IF force[r] THEN Nothing ELSE hashes
    BY <1>14 DEF Start, index
  <2>2. \A f \in File : hashes'[f] \in {hashes[f], Absent}
    BY <2>1 DEF Nothing
  <2> QED BY <1>7, <2>1, <2>2
<1>15. ASSUME NEW r \in Run,
              AbortLoop(r) \/ EndLoop(r) \/ PrepareBatch(r) \/ BatchFails(r) \/ RebuildGraph(r)
              \/ SetStatus(r) \/ EmitComplete(r) \/ EndRun(r)
       PROVE  HashInv'
  <2>1. /\ UNCHANGED <<gen, calls, corpus, hashes>>
        /\ pc[r] \in (Working \cup Closing) \ {"record"}
    BY <1>15 DEF AbortLoop, EndLoop, PrepareBatch, BatchFails, RebuildGraph, SetStatus, EmitComplete,
                 EndRun, index, Working, Closing
  <2>2. PICK label \in Label \ {"record"} : Goto(r, label)
    BY <1>15 DEF AbortLoop, EndLoop, PrepareBatch, BatchFails, RebuildGraph, SetStatus, EmitComplete,
                 EndRun, Label
  <2> QED BY <1>7, <2>1, <2>2
<1>16. ASSUME NEW r \in Run, Commit(r) PROVE HashInv'
  <2> SUFFICES ASSUME Calm' PROVE RecordedAfter'
    BY <1>4 DEF RecordedAfter
  <2>1. /\ pc[r] = "commit" /\ Goto(r, "record")
        /\ UNCHANGED <<gen, lastGen, calls, hashes, payload, target>>
    BY <1>16 DEF Commit, loop, requests
  <2>2. gen = 1 /\ target[r] = 1
    <3>1. gen = 1 /\ lastGen = 1 /\ target[r] <= lastGen
      BY <1>1, <2>1 DEF Exclusive
    <3> QED BY <1>2, <3>1
  <2>3. /\ \A f \in File \ Pending : corpus'[1][f] = corpus[1][f]
        /\ ChunkCount(corpus[1]) \in Nat /\ ChunkCount(corpus'[1]) \in Nat
        /\ ChunkCount(corpus[1]) <= ChunkCount(corpus'[1])
        /\ ChunkCount(corpus'[1]) < Cap => \A f \in Pending : payload[f] \in corpus'[1][f]
    BY <1>1, <1>16, <2>2, CommitGrows
  <2>4. ChunkCount(corpus[1]) < Cap /\ \A f \in Pending : payload[f] \in corpus'[1][f]
    BY <2>3
  <2>5. \A q \in Run : pc[q] # "record"
    BY <1>1, <2>1 DEF Exclusive, Working
  <2>6. ASSUME NEW f \in File PROVE SkipIsSound(f)'
    <3>1. Known(f)
      BY <1>3, <2>1, <2>2, <2>4, <2>5 DEF RecordedAfter, SkipIsSound
    <3>2. CASE f \in Pending
      BY <1>5, <2>1, <3>2 DEF SkipIsSound, Pending
    <3>3. CASE f \notin Pending
      <4>1. hashes'[f] \in corpus'[gen'][f] \cup {Absent}
        BY <2>1, <2>2, <2>3, <3>1, <3>3
      <4> QED BY <4>1 DEF SkipIsSound
    <3> QED BY <3>2, <3>3
  <2> QED BY <2>1, <2>4, <2>6 DEF RecordedAfter, Pending
<1>17. ASSUME NEW r \in Run, Record(r) PROVE HashInv'
  <2> SUFFICES ASSUME Calm' PROVE RecordedAfter'
    BY <1>4 DEF RecordedAfter
  <2> DEFINE known == [f \in File |-> IF f \in Pending THEN payload[f] ELSE hashes[f]]
  <2>1. /\ pc[r] = "record" /\ hashes' \in Shrunk(known) /\ UNCHANGED <<gen, calls, corpus>>
        /\ Goto(r, "batch") \/ Goto(r, "graph")
    BY <1>17 DEF Record, index
  <2>2. \A q \in Run : pc'[q] # "record"
    BY <1>1, <1>2, <1>5, <2>1 DEF Exclusive, Working
  <2>3. ASSUME NEW f \in File PROVE known[f] \in corpus[1][f] \cup {Absent}
    <3>1. Calm /\ SkipIsSound(f) /\ (payload[f] # Absent => payload[f] \in corpus[1][f])
      BY <1>3, <2>1 DEF RecordedAfter
    <3> QED BY <3>1 DEF SkipIsSound, Pending
  <2>4. known \in [File -> MaybeContent]
    BY <1>2
  <2> HIDE DEF known
  <2>5. \A f \in File : hashes'[f] \in {known[f], Absent}
    BY <2>1, <2>4, ShrunkForgets
  <2>6. ASSUME NEW f \in File PROVE SkipIsSound(f)'
    <3>1. hashes'[f] \in corpus'[gen'][f] \cup {Absent}
      BY <2>1, <2>3, <2>5
    <3> QED BY <3>1 DEF SkipIsSound
  <2> QED BY <2>2, <2>6 DEF RecordedAfter
<1> QED BY <1>8, <1>9, <1>10, <1>11, <1>12, <1>13, <1>14, <1>15, <1>16, <1>17 DEF Next, RunStep

\* Of an index that was not deleted, that no single-file call changed and that is below its
\* cap, a file is skipped only for a content whose chunk the index holds: for any files,
\* contents, batches, evictions of hashes, failed batches, aborts and edits.
THEOREM HashCacheHolds == Spec => []HashCacheSound
<1>1. Init => HashInv
  <2> SUFFICES ASSUME Init PROVE HashInv
    OBVIOUS
  <2>1. TypeOK /\ Exclusive
    BY CoverInit DEF CoverInv
  <2>2. (\A f \in File : hashes[f] = Absent) /\ \A r \in Run : pc[r] = "none"
    BY DEF Init, Nothing
  <2> QED BY <2>1, <2>2 DEF HashInv, RecordedAfter, SkipIsSound
<1>2. HashInv => HashCacheSound
  BY DEF HashInv, RecordedAfter, HashCacheSound, SkipsOnlyIndexed
<1> QED BY <1>1, <1>2, HashNext, PTL DEF Spec
=============================================================================
