------------------------------ MODULE Reindex ------------------------------
(***************************************************************************)
(* Reindexing one index: the requests that queue, the run that holds the   *)
(* machine-wide permit, its batches, the memory poller that may abort it,  *)
(* the content-hash cache that lets it skip unchanged files, and the       *)
(* progress entry it leaves behind.                                        *)
(*                                                                         *)
(* The hash cache belongs to the process and is keyed by index id: it      *)
(* outlives the chunks it speaks of, which single-file calls remove and a  *)
(* deleted index takes with it. Meanwhile files change on disk.            *)
(*                                                                         *)
(* A content is one chunk. Chunk ids are made of a path and a line range,  *)
(* so the chunk of a new content may replace an older one of the file, or  *)
(* stand beside it: nothing removes what a reindex no longer finds. An     *)
(* incarnation is one CodeIndexer: a create after a delete makes the next. *)
(*                                                                         *)
(* The queue is one index's; the runs of other indexes only hold the       *)
(* permit for a while. A restart empties every variable here but `disk'.   *)
(***************************************************************************)
EXTENDS Naturals, FiniteSets

CONSTANTS File,
          Content,      \* contents a file may have
          Minified,     \* contents should_skip_content rejects
          Absent,       \* no file, or no hash
          Run, NoRun,   \* reindex requests
          BatchSize,    \* REINDEX_BATCH_SIZE
          MaxHashes,    \* MAX_FILE_HASHES_PER_INDEX
          Cap,          \* max_chunks_per_index()
          MaxEdits,     \* bound on changes of files on disk
          MaxCalls,     \* bound on index-file and remove-file calls
          MaxGen        \* bound on incarnations of the index

ASSUME ReindexAssumption ==
    /\ IsFiniteSet(File)
    /\ Minified \subseteq Content /\ Absent \notin Content
    /\ NoRun \notin Run
    /\ BatchSize \in Nat \ {0} /\ MaxHashes \in Nat \ {0} /\ Cap \in Nat
    /\ MaxEdits \in Nat /\ MaxCalls \in Nat /\ MaxGen \in Nat \ {0}

VARIABLES
    disk,       \* what each file holds
    hashes,     \* hashes_for(id): the content each file was last indexed with
    corpus,     \* of each incarnation, the chunks of each file
    gen, lastGen,       \* the registered incarnation, 0 if none; the newest
    pc, force, target,  \* of each request: where it is, its flag, its CodeIndexer
    todo,       \* files of the walk still to come
    payload,    \* BatchPayload: the content read of each file to index
    memAbort, memHit,   \* the poller's flag and the loop's
    status, event,      \* of each run: progress.status, the terminal event's status
    gaps,       \* the run had an error or the cap dropped a chunk
    touched,    \* files changed, indexed or removed by others since the run began
    cooldown,   \* last_reindex_aborted_at
    progress,   \* whose entry reindex_progress holds
    timers,     \* runs whose cleanup is scheduled
    edits, calls

files    == <<disk, edits>>
index    == <<corpus, gen, lastGen>>
requests == <<force, target>>
loop     == <<todo, payload, memAbort, memHit, gaps>>
outcome  == <<status, event>>
tracking == <<cooldown, progress, timers>>
vars == <<files, index, hashes, pc, requests, loop, outcome, touched, tracking, calls>>

MaybeContent == Content \cup {Absent}
Gen == 1..MaxGen
Label == {"none", "queued", "batch", "commit", "record", "graph", "stop",
          "status", "event", "end", "done"}

TypeOK ==
    /\ disk \in [File -> MaybeContent] /\ hashes \in [File -> MaybeContent]
    /\ corpus \in [Gen -> [File -> SUBSET Content]]
    /\ gen \in 0..MaxGen /\ lastGen \in Gen
    /\ pc \in [Run -> Label] /\ force \in [Run -> BOOLEAN] /\ target \in [Run -> Gen]
    /\ todo \subseteq File /\ payload \in [File -> MaybeContent]
    /\ \A f \in todo : payload[f] = Absent
    /\ memAbort \in BOOLEAN /\ memHit \in BOOLEAN /\ gaps \in BOOLEAN
    /\ status \in [Run -> {"running", "complete", "aborted_memory"}]
    /\ event \in [Run -> {"none", "complete", "aborted_memory"}]
    /\ touched \subseteq File
    /\ cooldown \in {"none", "cooling", "elapsed"}
    /\ progress \in Run \cup {NoRun} /\ timers \subseteq Run
    /\ edits \in 0..MaxEdits /\ calls \in 0..MaxCalls

Nothing == [f \in File |-> Absent]

Init ==
    /\ disk \in [File -> MaybeContent] /\ hashes = Nothing
    /\ corpus = [g \in Gen |-> [f \in File |-> {}]]
    /\ gen = 1 /\ lastGen = 1
    /\ pc = [r \in Run |-> "none"]
    /\ force = [r \in Run |-> FALSE] /\ target = [r \in Run |-> 1]
    /\ todo = {} /\ payload = Nothing
    /\ memAbort = FALSE /\ memHit = FALSE /\ gaps = FALSE
    /\ status = [r \in Run |-> "running"] /\ event = [r \in Run |-> "none"]
    /\ touched = {}
    /\ cooldown = "none" /\ progress = NoRun /\ timers = {}
    /\ edits = 0 /\ calls = 0

Goto(r, label) == pc' = [pc EXCEPT ![r] = label]

\* The run holds the permit of reindex_semaphore() and its poller is alive.
Polled == {r \in Run : pc[r] \in {"batch", "commit", "record", "graph"}}
Active == {r \in Run : pc[r] \notin {"none", "queued", "done"}}

-----------------------------------------------------------------------------
(* The world outside a run.                                                *)

EditFile(f, c) ==
    /\ edits < MaxEdits /\ c # disk[f]
    /\ edits' = edits + 1
    /\ disk' = [disk EXCEPT ![f] = c]
    /\ touched' = touched \cup {f}
    /\ UNCHANGED <<index, hashes, pc, requests, loop, outcome, tracking, calls>>

\* The chunks a file can have once the chunk of c is upserted.
Upserted(old, c) ==
    IF c \in old THEN {old}
    ELSE {old \cup {c}} \cup {(old \ {d}) \cup {c} : d \in old}

ChunkCount(chunks) ==
    Cardinality({p \in File \X Content : p[2] \in chunks[p[1]]})

\* index_file and remove_file leave the hash cache alone.
IndexFile(f, c) ==
    /\ calls < MaxCalls /\ gen # 0
    /\ calls' = calls + 1
    /\ \E chunks \in Upserted(corpus[gen][f], c) :
          corpus' = IF Cardinality(chunks) > Cardinality(corpus[gen][f])
                       /\ ChunkCount(corpus[gen]) >= Cap
                      THEN corpus
                      ELSE [corpus EXCEPT ![gen][f] = chunks]
    /\ touched' = touched \cup {f}
    /\ UNCHANGED <<files, gen, lastGen, hashes, pc, requests, loop, outcome, tracking>>

RemoveFile(f) ==
    /\ calls < MaxCalls /\ gen # 0
    /\ calls' = calls + 1
    /\ corpus' = [corpus EXCEPT ![gen][f] = {}]
    /\ touched' = touched \cup {f}
    /\ UNCHANGED <<files, gen, lastGen, hashes, pc, requests, loop, outcome, tracking>>

\* delete_index_handler: the runs of the index go on with the CodeIndexer they
\* hold; the hashes and the cooldown stay.
DeleteIndex ==
    /\ gen # 0 /\ lastGen < MaxGen
    /\ gen' = 0
    /\ progress' = NoRun
    /\ UNCHANGED <<files, corpus, lastGen, hashes, pc, requests, loop, outcome,
                   touched, cooldown, timers, calls>>

CreateIndex ==
    /\ gen = 0
    /\ gen' = lastGen + 1 /\ lastGen' = lastGen + 1
    /\ UNCHANGED <<files, corpus, hashes, pc, requests, loop, outcome, touched,
                   tracking, calls>>

\* reindex_handler: refused while the cooldown lasts, queued otherwise; the new
\* progress entry replaces any other.
RequestReindex(r, forced) ==
    /\ pc[r] = "none" /\ gen # 0 /\ cooldown # "cooling"
    /\ cooldown' = "none"
    /\ progress' = r
    /\ force' = [force EXCEPT ![r] = forced]
    /\ target' = [target EXCEPT ![r] = gen]
    /\ Goto(r, "queued")
    /\ UNCHANGED <<files, index, hashes, loop, outcome, touched, timers, calls>>

CooldownElapses ==
    /\ cooldown = "cooling" /\ cooldown' = "elapsed"
    /\ UNCHANGED <<files, index, hashes, pc, requests, loop, outcome, touched,
                   progress, timers, calls>>

\* map.remove(&cleanup_id), whoever's entry it is by then.
CleanupFires(r) ==
    /\ r \in timers
    /\ timers' = timers \ {r}
    /\ progress' = NoRun
    /\ UNCHANGED <<files, index, hashes, pc, requests, loop, outcome, touched,
                   cooldown, calls>>

-----------------------------------------------------------------------------
(* spawn_reindex_with_cleanup.                                             *)

\* Mutant: --force leaves the hash cache alone.
StartKeepingHashes(r) ==
    /\ pc[r] = "queued" /\ Active = {}
    /\ todo' = {f \in File : disk[f] # Absent}
    /\ payload' = Nothing
    /\ memAbort' = FALSE /\ memHit' = FALSE /\ gaps' = FALSE /\ touched' = {}
    /\ Goto(r, "batch")
    /\ UNCHANGED <<files, index, hashes, requests, outcome, tracking, calls>>

\* The permit, the walk and, with --force, the end of the hash cache.
Start(r) ==
    /\ pc[r] = "queued" /\ Active = {}
    /\ todo' = {f \in File : disk[f] # Absent}
    /\ hashes' = IF force[r] THEN Nothing ELSE hashes
    /\ payload' = Nothing
    /\ memAbort' = FALSE /\ memHit' = FALSE /\ gaps' = FALSE /\ touched' = {}
    /\ Goto(r, "batch")
    /\ UNCHANGED <<files, index, requests, outcome, tracking, calls>>

\* The background poller sees the resident set reach the limit.
PollerTrips(r) ==
    /\ r \in Polled
    /\ memAbort' = TRUE
    /\ UNCHANGED <<files, index, hashes, pc, requests, todo, payload, memHit, gaps,
                   outcome, touched, tracking, calls>>

AbortLoop(r) ==
    /\ pc[r] = "batch" /\ todo # {} /\ memAbort
    /\ memHit' = TRUE
    /\ Goto(r, "graph")
    /\ UNCHANGED <<files, index, hashes, requests, todo, payload, memAbort, gaps,
                   outcome, touched, tracking, calls>>

EndLoop(r) ==
    /\ pc[r] = "batch" /\ todo = {}
    /\ Goto(r, "graph")
    /\ UNCHANGED <<files, index, hashes, requests, loop, outcome, touched, tracking,
                   calls>>

NextBatch ==
    {b \in SUBSET todo : Cardinality(b) =
        IF Cardinality(todo) < BatchSize THEN Cardinality(todo) ELSE BatchSize}

\* prepare_batch_payload: unreadable files are errors; minified files and files
\* whose hash is known are skipped.
PrepareBatch(r) ==
    /\ pc[r] = "batch" /\ todo # {} /\ ~memAbort
    /\ \E batch \in NextBatch :
          LET read == {f \in batch : disk[f] # Absent}
              toIndex == {f \in read : disk[f] \notin Minified /\ hashes[f] # disk[f]}
          IN  /\ todo' = todo \ batch
              /\ payload' = [f \in File |-> IF f \in toIndex THEN disk[f] ELSE Absent]
              /\ gaps' = (gaps \/ read # batch)
              /\ Goto(r, IF toIndex = {} THEN "batch" ELSE "commit")
    /\ UNCHANGED <<files, index, hashes, requests, memAbort, memHit, outcome, touched,
                   tracking, calls>>

Pending == {f \in File : payload[f] # Absent}

\* Mutant: a failed batch is put back.
BatchFailsRetry(r) ==
    /\ pc[r] = "commit"
    /\ todo' = todo \cup Pending
    /\ payload' = Nothing
    /\ gaps' = TRUE
    /\ Goto(r, "batch")
    /\ UNCHANGED <<files, index, hashes, requests, memAbort, memHit, outcome, touched,
                   tracking, calls>>

\* The embedder or upsert_batch fails: an error event, no chunk and no hash.
BatchFails(r) ==
    /\ pc[r] = "commit"
    /\ payload' = Nothing
    /\ gaps' = TRUE
    /\ Goto(r, "batch")
    /\ UNCHANGED <<files, index, hashes, requests, todo, memAbort, memHit, outcome,
                   touched, tracking, calls>>

\* commit_parsed_batch into the run's CodeIndexer; new chunks past the cap are
\* dropped.
Commit(r) ==
    /\ pc[r] = "commit"
    /\ LET old == corpus[target[r]]
       IN  \E chunks \in [Pending -> SUBSET Content] :
             /\ \A f \in Pending : chunks[f] \in Upserted(old[f], payload[f])
             /\ LET grown == {f \in Pending :
                        Cardinality(chunks[f]) > Cardinality(old[f])}
                    room == IF ChunkCount(old) < Cap THEN Cap - ChunkCount(old) ELSE 0
                IN  \E dropped \in SUBSET grown :
                      /\ Cardinality(grown) - Cardinality(dropped) =
                            IF Cardinality(grown) < room THEN Cardinality(grown) ELSE room
                      /\ corpus' = [corpus EXCEPT ![target[r]] = [f \in File |->
                            IF f \in Pending \ dropped THEN chunks[f] ELSE old[f]]]
                      /\ gaps' = (gaps \/ dropped # {})
    /\ Goto(r, "record")
    /\ UNCHANGED <<files, gen, lastGen, hashes, requests, todo, payload, memAbort,
                   memHit, outcome, touched, tracking, calls>>

\* shrink_hashes_if_needed: over the ceiling, an arbitrary tenth goes.
Shrunk(known) ==
    LET entries == {f \in File : known[f] # Absent}
    IN  IF Cardinality(entries) <= MaxHashes THEN {known}
        ELSE {[f \in File |-> IF f \in kept THEN known[f] ELSE Absent] :
                 kept \in {k \in SUBSET entries :
                              Cardinality(k) = (MaxHashes * 9) \div 10}}

\* Mutant: the hash is taken of the file as it is now.
RecordDisk(r) ==
    /\ pc[r] = "record"
    /\ hashes' \in Shrunk([f \in File |-> IF f \in Pending THEN disk[f] ELSE hashes[f]])
    /\ payload' = Nothing
    /\ Goto(r, "batch")
    /\ UNCHANGED <<files, index, requests, todo, memAbort, memHit, gaps, outcome, touched,
                   tracking, calls>>

\* apply_successful_commit, then check_post_commit_memory.
Record(r) ==
    /\ pc[r] = "record"
    /\ hashes' \in Shrunk([f \in File |-> IF f \in Pending THEN payload[f] ELSE hashes[f]])
    /\ payload' = Nothing
    /\ \/ /\ Goto(r, "batch")
          /\ UNCHANGED <<memAbort, memHit>>
       \/ /\ memAbort' = TRUE /\ memHit' = TRUE
          /\ Goto(r, "graph")
    /\ UNCHANGED <<files, index, requests, todo, gaps, outcome, touched, tracking, calls>>

\* The symbol graph is rebuilt whatever happened; then the poller is stopped.
RebuildGraph(r) ==
    /\ pc[r] = "graph"
    /\ Goto(r, "stop")
    /\ UNCHANGED <<files, index, hashes, requests, loop, outcome, touched, tracking,
                   calls>>

SetStatus(r) ==
    /\ pc[r] = "stop"
    /\ \/ /\ memHit \/ memAbort
          /\ status' = [status EXCEPT ![r] = "aborted_memory"]
          /\ cooldown' = "cooling"
       \/ /\ ~memHit /\ ~memAbort
          /\ status' = [status EXCEPT ![r] = "complete"]
          /\ UNCHANGED cooldown
    /\ Goto(r, "event")
    /\ UNCHANGED <<files, index, hashes, requests, loop, event, touched, progress,
                   timers, calls>>

EmitComplete(r) ==
    /\ pc[r] = "event"
    /\ event' = [event EXCEPT ![r] = IF memHit THEN "aborted_memory" ELSE "complete"]
    /\ Goto(r, "end")
    /\ UNCHANGED <<files, index, hashes, requests, loop, status, touched, tracking, calls>>

\* schedule_progress_cleanup, and the permit is released.
EndRun(r) ==
    /\ pc[r] = "end"
    /\ timers' = timers \cup {r}
    /\ Goto(r, "done")
    /\ UNCHANGED <<files, index, hashes, requests, loop, outcome, touched, cooldown,
                   progress, calls>>

RunStep(r) ==
    \/ AbortLoop(r) \/ EndLoop(r) \/ PrepareBatch(r) \/ BatchFails(r) \/ Commit(r)
    \/ Record(r) \/ RebuildGraph(r) \/ SetStatus(r) \/ EmitComplete(r) \/ EndRun(r)

Next ==
    \/ \E f \in File : \/ \E c \in MaybeContent : EditFile(f, c)
                       \/ \E c \in Content : IndexFile(f, c)
                       \/ RemoveFile(f)
    \/ DeleteIndex \/ CreateIndex \/ CooldownElapses
    \/ \E r \in Run : \/ \E forced \in BOOLEAN : RequestReindex(r, forced)
                      \/ Start(r) \/ PollerTrips(r) \/ RunStep(r) \/ CleanupFires(r)

Spec == Init /\ [][Next]_vars

\* The runtime polls the task that holds the permit, and tokio's semaphore
\* hands the permit out in the order it was asked for.
Fairness == \A r \in Run : WF_vars(RunStep(r)) /\ SF_vars(Start(r))

FairSpec == Spec /\ Fairness

-----------------------------------------------------------------------------
(* Properties.                                                             *)

\* A commit replaces the chunk an instant before its hash, under the permit.
SkipIsSound(f) ==
    \/ hashes[f] \in corpus[gen][f] \cup {Absent}
    \/ \E r \in Run : pc[r] = "record" /\ payload[f] # Absent

\* The hash-skip of an index that was not deleted, that no single-file call changed and
\* that is below its cap: through edits between the read and the record, failed batches,
\* aborts, forced runs and evictions, a file is skipped only for a content whose chunk
\* the index holds.
SkipsOnlyIndexed ==
    gen = 1 /\ calls = 0 /\ ChunkCount(corpus[1]) < Cap => \A f \in File : SkipIsSound(f)

\* The types, and a hash cache that hides nothing of an index it was built with.
HashCacheSound == TypeOK /\ SkipsOnlyIndexed

\* "The hash cache is a pure speed optimisation": so it is for every index, also
\* for one that was deleted and created again, or that single-file calls change.
HashMeansIndexed == gen # 0 => \A f \in File : SkipIsSound(f)

\* A forced run that reports `complete', without an error and below the cap, has
\* indexed every file nobody touched meanwhile, whatever the hash cache said and
\* whatever was removed or recreated before.
ForcedRunCovers ==
    \A r \in Run : pc[r] = "end" /\ event[r] = "complete" /\ force[r] /\ ~gaps =>
        \A f \in File \ touched : disk[f] \in Content \ Minified =>
            disk[f] \in corpus[target[r]][f]

\* Every queued run comes to its end and releases the permit, through failed
\* batches and memory aborts.
RunTerminates == \A r \in Run : pc[r] = "queued" ~> pc[r] = "done"

\* "Surface the terminal status string in the SSE payload so external callers
\* can distinguish a clean completion from a memory-abort": the event agrees
\* with the status, and with the cooldown that follows from it.
EventAgrees == \A r \in Run : event[r] \in {"none", status[r]}

\* "How long to keep a completed ReindexProgress before garbage-collecting it":
\* the cleanup of one run never takes the entry of another.
CleanupTakesOwn ==
    [][\A r \in Run : CleanupFires(r) => progress \in {r, NoRun}]_vars
=============================================================================
