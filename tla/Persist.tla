------------------------------ MODULE Persist ------------------------------
(***************************************************************************)
(* The coalescing protocol of CodeIndexer::spawn_incremental_persist.      *)
(*                                                                         *)
(* Every batch a reindex commits asks for a snapshot of the index on disk. *)
(* Two atomics, `dirty' and `in_flight' (struct PersistState), keep at     *)
(* most one background task alive and make it run again when a batch was   *)
(* committed while it was writing.                                         *)
(*                                                                         *)
(* Processes:                                                              *)
(*   - the committer: commit_parsed_batch runs under the index's outer     *)
(*     write lock, so one call at a time, and ends in the two atomic       *)
(*     operations of spawn_incremental_persist;                            *)
(*   - the persist tasks, detached tokio tasks that take no outer lock;    *)
(*   - single-file edits (index_file, remove_file) under the outer lock's  *)
(*     read side, which change the corpus and never ask for a snapshot.    *)
(* The process may be killed and restarted at any time.                    *)
(*                                                                         *)
(* A batch stands for the chunks it brings. The HNSW save is one step here *)
(* (its two files are taken apart in VectorStore).                         *)
(***************************************************************************)
EXTENDS Naturals, FiniteSets

CONSTANTS Batch,          \* batches a reindex commits
          Edit,           \* single-file contents written outside a reindex
          Task,           \* identities of the spawned tokio tasks
          None,           \* no batch
          MaxIterations,  \* MAX_COALESCED_ITERATIONS
          MaxFailures,    \* bound on I/O failures
          MaxCrashes      \* bound on kills of the daemon

ASSUME PersistAssumption ==
    /\ Batch \cap Edit = {}
    /\ None \notin Batch
    /\ MaxIterations \in Nat \ {0}
    /\ MaxFailures \in Nat
    /\ MaxCrashes \in Nat

VARIABLES
    vectors,     \* what the in-memory HNSW index holds
    chunks,      \* what the in-memory corpus map holds
    hnswFile,    \* what hnsw.usearch + hnsw.keys.json hold
    chunksFile,  \* what chunks.json holds
    dirty, inFlight,    \* PersistState
    commit,      \* program counter of the committer
    batch,       \* the batch being committed
    task,        \* program counter of each persist task
    iteration,   \* turns of the coalescing loop the live task has finished
    clone,       \* each task's clone of the corpus
    warned,      \* an error was logged since the last turn of the loop began
    failures, crashes

memory    == <<vectors, chunks>>
snapshots == <<hnswFile, chunksFile>>
persist   == <<dirty, inFlight>>
committer == <<commit, batch>>
tasks     == <<task, iteration, clone>>
counters  == <<failures, crashes>>
pvars == <<memory, snapshots, persist, committer, tasks, warned, counters>>

Content == Batch \cup Edit

Live(t) == task[t] # "none"

MemoryType ==
    /\ vectors \subseteq Content
    /\ chunks \subseteq Content
    /\ hnswFile \subseteq Content
    /\ chunksFile \subseteq Content

FlagType ==
    /\ dirty \in BOOLEAN
    /\ inFlight \in BOOLEAN
    /\ warned \in BOOLEAN
    /\ commit \in {"idle", "vectors", "corpus", "marked"}
    /\ batch \in Batch \cup {None}

TaskLabel == {"none", "paths", "clear", "hnsw", "snapshot", "write", "check", "release"}

TaskType ==
    /\ task \in [Task -> TaskLabel]
    /\ iteration \in 0..MaxIterations
    /\ clone \in [Task -> SUBSET Content]

BoundType ==
    /\ failures \in 0..MaxFailures
    /\ crashes \in 0..MaxCrashes

PersistTypeOK == MemoryType /\ FlagType /\ TaskType /\ BoundType

PersistInit ==
    /\ vectors = {} /\ chunks = {}
    /\ hnswFile = {} /\ chunksFile = {}
    /\ dirty = FALSE /\ inFlight = FALSE
    /\ commit = "idle" /\ batch = None
    /\ task = [t \in Task |-> "none"]
    /\ iteration = 0
    /\ clone = [t \in Task |-> {}]
    /\ warned = FALSE
    /\ failures = 0 /\ crashes = 0

-----------------------------------------------------------------------------
(* commit_parsed_batch: vectors first, then the corpus, then the request   *)
(* for a snapshot, which is two separate atomic operations.                *)

CommitVectors(b) ==
    /\ commit = "idle"
    /\ vectors' = vectors \cup {b}
    /\ commit' = "vectors" /\ batch' = b
    /\ UNCHANGED <<chunks, snapshots, persist, tasks, warned, counters>>

CanFail == failures < MaxFailures

\* upsert_batch fails (the cap, or the library): the commit returns the error
\* before it touches the corpus or asks for a snapshot. What it leaves of the
\* batch in the vector store is the library's.
CommitFails(b) ==
    /\ commit = "idle"
    /\ CanFail
    /\ failures' = failures + 1
    /\ vectors' \in {vectors, vectors \cup {b}, vectors \ {b}}
    /\ warned' = TRUE
    /\ UNCHANGED <<chunks, snapshots, persist, committer, tasks, crashes>>

CommitCorpus ==
    /\ commit = "vectors"
    /\ chunks' = chunks \cup {batch}
    /\ commit' = "corpus"
    /\ UNCHANGED <<vectors, snapshots, persist, batch, tasks, warned, counters>>

MarkDirty ==
    /\ commit = "corpus"
    /\ dirty' = TRUE
    /\ commit' = "marked"
    /\ UNCHANGED <<memory, snapshots, inFlight, batch, tasks, warned, counters>>

\* Mutant: the task is spawned whatever the flag says.
TryAcquireAlways ==
    /\ commit = "marked"
    /\ commit' = "idle" /\ batch' = None
    /\ inFlight' = TRUE
    /\ \E t \in Task : ~Live(t) /\ task' = [task EXCEPT ![t] = "paths"]
    /\ UNCHANGED <<iteration, clone, memory, snapshots, dirty, warned, counters>>

\* compare_exchange(false, true) on in_flight; the winner spawns the task.
TryAcquire ==
    /\ commit = "marked"
    /\ commit' = "idle" /\ batch' = None
    /\ \/ /\ inFlight
          /\ UNCHANGED <<inFlight, tasks>>
       \/ /\ ~inFlight
          /\ inFlight' = TRUE
          /\ \E t \in Task :
                /\ ~Live(t)
                /\ task' = [task EXCEPT ![t] = "paths"]
          /\ UNCHANGED <<iteration, clone>>
    /\ UNCHANGED <<memory, snapshots, dirty, warned, counters>>

\* index_file and remove_file mutate the same structures under the outer read
\* lock, so never during a commit, and end without spawn_incremental_persist.
IndexFile(e) ==
    /\ commit = "idle"
    /\ vectors' = vectors \cup {e}
    /\ chunks' = chunks \cup {e}
    /\ UNCHANGED <<snapshots, persist, committer, tasks, warned, counters>>

RemoveFile(c) ==
    /\ commit = "idle"
    /\ c \in chunks
    /\ vectors' = vectors \ {c}
    /\ chunks' = chunks \ {c}
    /\ UNCHANGED <<snapshots, persist, committer, tasks, warned, counters>>

-----------------------------------------------------------------------------
(* The body of the spawned task.                                           *)

TaskGoto(t, label) == task' = [task EXCEPT ![t] = label]

\* chunks_path / hnsw_path: an unresolvable data dir ends the task at once.
ResolvePaths(t) ==
    /\ task[t] = "paths"
    /\ iteration' = 0
    /\ \/ /\ TaskGoto(t, "clear")
          /\ UNCHANGED <<inFlight, failures>>
       \/ /\ CanFail
          /\ failures' = failures + 1
          /\ inFlight' = FALSE
          /\ TaskGoto(t, "none")
    /\ UNCHANGED <<memory, snapshots, dirty, committer, clone, warned, crashes>>

ClearDirty(t) ==
    /\ task[t] = "clear"
    /\ dirty' = FALSE
    /\ warned' = FALSE
    /\ TaskGoto(t, "hnsw")
    /\ UNCHANGED <<memory, snapshots, inFlight, committer, iteration, clone, counters>>

SaveHnsw(t) ==
    /\ task[t] = "hnsw"
    /\ TaskGoto(t, "snapshot")
    /\ \/ /\ hnswFile' = vectors
          /\ UNCHANGED <<warned, failures>>
       \/ /\ CanFail
          /\ failures' = failures + 1
          /\ warned' = TRUE
          /\ UNCHANGED hnswFile
    /\ UNCHANGED <<memory, chunksFile, persist, committer, iteration, clone, crashes>>

SnapshotCorpus(t) ==
    /\ task[t] = "snapshot"
    /\ clone' = [clone EXCEPT ![t] = chunks]
    /\ TaskGoto(t, "write")
    /\ UNCHANGED <<memory, snapshots, persist, committer, iteration, warned, counters>>

\* Mutant: the flag is cleared once the snapshot is written, not before it is taken.
WriteChunksThenClear(t) ==
    /\ task[t] = "write"
    /\ TaskGoto(t, "check")
    /\ clone' = [clone EXCEPT ![t] = {}]
    /\ chunksFile' = clone[t] /\ dirty' = FALSE
    /\ UNCHANGED <<memory, hnswFile, inFlight, committer, iteration, warned, counters>>

WriteChunks(t) ==
    /\ task[t] = "write"
    /\ TaskGoto(t, "check")
    /\ clone' = [clone EXCEPT ![t] = {}]
    /\ \/ /\ chunksFile' = clone[t]
          /\ UNCHANGED <<warned, failures>>
       \/ /\ CanFail
          /\ failures' = failures + 1
          /\ warned' = TRUE
          /\ UNCHANGED chunksFile
    /\ UNCHANGED <<memory, hnswFile, persist, committer, iteration, crashes>>

\* Mutant: no cap on the turns.
CheckDirtyUncapped(t) ==
    /\ task[t] = "check"
    /\ TaskGoto(t, IF dirty THEN "clear" ELSE "release")
    /\ UNCHANGED <<memory, snapshots, persist, committer, iteration, clone, warned, counters>>

\* Mutant: one turn, whatever was committed during it.
CheckDirtyOnce(t) ==
    /\ task[t] = "check"
    /\ iteration' = iteration + 1
    /\ TaskGoto(t, "release")
    /\ UNCHANGED <<memory, snapshots, persist, committer, clone, warned, counters>>

\* Loop while `dirty' was set again, at most MAX_COALESCED_ITERATIONS turns.
CheckDirty(t) ==
    /\ task[t] = "check"
    /\ iteration' = iteration + 1
    /\ TaskGoto(t, IF dirty /\ iteration + 1 < MaxIterations THEN "clear" ELSE "release")
    /\ UNCHANGED <<memory, snapshots, persist, committer, clone, warned, counters>>

Release(t) ==
    /\ task[t] = "release"
    /\ inFlight' = FALSE
    /\ iteration' = 0
    /\ TaskGoto(t, "none")
    /\ UNCHANGED <<memory, snapshots, dirty, committer, clone, warned, counters>>

TaskStep(t) ==
    \/ ResolvePaths(t) \/ ClearDirty(t) \/ SaveHnsw(t) \/ SnapshotCorpus(t)
    \/ WriteChunks(t) \/ CheckDirty(t) \/ Release(t)

-----------------------------------------------------------------------------
(* SIGKILL, an OOM kill or a power cut, and the warm restart that follows: *)
(* restore_indexes loads both files and every in-process flag is new.      *)

Restart ==
    /\ crashes < MaxCrashes
    /\ crashes' = crashes + 1
    /\ vectors' = hnswFile
    /\ chunks' = chunksFile
    /\ dirty' = FALSE /\ inFlight' = FALSE
    /\ commit' = "idle" /\ batch' = None
    /\ task' = [t \in Task |-> "none"]
    /\ iteration' = 0
    /\ clone' = [t \in Task |-> {}]
    /\ warned' = FALSE
    /\ UNCHANGED <<snapshots, failures>>

CommitStep == CommitCorpus \/ MarkDirty \/ TryAcquire

PersistNext ==
    \/ \E b \in Batch : CommitVectors(b) \/ CommitFails(b)
    \/ CommitStep
    \/ \E e \in Edit : IndexFile(e)
    \/ \E c \in Content : RemoveFile(c)
    \/ \E t \in Task : TaskStep(t)
    \/ Restart

PersistSpec == PersistInit /\ [][PersistNext]_pvars

\* The runtime keeps polling a spawned task and a commit that has begun; it
\* owes nothing to new commits, edits or kills.
Fairness ==
    /\ WF_pvars(CommitStep)
    /\ \A t \in Task : WF_pvars(TaskStep(t))

FairSpec == PersistSpec /\ Fairness

-----------------------------------------------------------------------------
(* Properties.                                                             *)

\* At most one persist task is alive per index, whatever the commits do: each
\* one clones the whole corpus, and stacked tasks got the daemon OOM-killed.
AtMostOneTask == \A s, t \in Task : Live(s) /\ Live(t) => s = t

Quiet == commit = "idle" /\ \A t \in Task : ~Live(t)

\* When no call and no task is running, `dirty' is clear and no error was logged
\* since the last save began, every batch in memory is in the files: a clear flag
\* never hides a batch that a snapshot missed.
CleanIsDurable ==
    Quiet /\ ~dirty /\ ~warned =>
        /\ vectors \cap Batch \subseteq hnswFile
        /\ chunks \cap Batch \subseteq chunksFile

\* The iteration cap and the release on every exit path: a persist task ends,
\* even under commits that never stop, so a later commit can start another.
TaskTerminates == \A t \in Task : Live(t) ~> ~Live(t)

\* The task has yet to clone the corpus: in the turn it is in, or in the one that a
\* batch marked since the flag was cleared makes it take, if the cap leaves a turn.
ClonesAhead(t) ==
    \/ task[t] \in {"paths", "clear", "hnsw", "snapshot"}
    \/ task[t] \in {"write", "check"} /\ dirty /\ iteration + 1 < MaxIterations

\* Coalescing: a batch whose commit finds `in_flight' taken starts no task, so the one
\* that runs must save it. A batch in the corpus while that task is ahead of a clone,
\* be it one marked after the last clone was taken, reaches chunks.json if the corpus
\* keeps it and no I/O fails.
CoalescedCommitSaved ==
    \A b \in Batch :
        (b \in chunks /\ \E t \in Task : ClonesAhead(t))
            ~> (b \in chunksFile \/ b \notin chunks \/ failures > 0)

\* PersistState's documentation: coalescing guarantees that "the on-disk file
\* converges to the latest in-memory state".
Converges == \A b \in Batch : b \in chunks ~> (b \in chunksFile \/ b \notin chunks)

\* commit_parsed_batch's comment on the snapshot it asks for: "no progress is
\* lost beyond the in-flight batch" when the daemon crashes mid-reindex. With no
\* commit in progress, at most one committed batch is missing from chunks.json.
OnlyInFlightBatchLost ==
    commit = "idle" => Cardinality((chunks \cap Batch) \ chunksFile) <= 1
=============================================================================
