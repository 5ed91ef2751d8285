-------------------------- MODULE PersistenceProofs --------------------------
(***************************************************************************)
(* Machine-checked proofs about how an index gets to disk, for every set   *)
(* of batches, edits, tasks and writers and every bound.                   *)
(*                                                                         *)
(* Of the coalescing protocol of Persist: one persist task at a time, and  *)
(* a clear `dirty' flag means saved. Of chunks.json in SnapshotFiles: as   *)
(* long as no two saves overlap, the file is absent or complete, and the   *)
(* saves are the atomic ones of AtomicSnapshot, through kills, failed      *)
(* writes and restarts.                                                    *)
(***************************************************************************)
EXTENDS Persist, SnapshotFiles, FiniteSetTheorems, TLAPS

-----------------------------------------------------------------------------
(* When the index is saved.                                                *)

\* The program counters and the locals they make meaningful.
Locals ==
    /\ commit # "idle" => batch \in Batch
    /\ \A t \in Task :
          task[t] \in {"clear", "hnsw", "snapshot", "write", "check"} =>
              iteration < MaxIterations

\* The batch a commit has put into memory without having marked it dirty yet.
Pending == IF commit \in {"vectors", "corpus"} THEN {batch} ELSE {}

\* in_flight is set exactly while a task is alive, and there is only one.
FlagMatchesTask ==
    /\ inFlight <=> \E t \in Task : Live(t)
    /\ AtMostOneTask

\* What a clear, unwarned flag promises at each point of the task's loop: the
\* save in progress has not undone it, and each file regains it as it is
\* written.
VectorsCovered ==
    (\A t \in Task : task[t] # "hnsw") =>
        (vectors \cap Batch) \ Pending \subseteq hnswFile

SnapshotCovered ==
    \A t \in Task : task[t] = "write" =>
        (chunks \cap Batch) \ Pending \subseteq clone[t]

ChunksCovered ==
    (\A t \in Task : task[t] \notin {"hnsw", "snapshot", "write"}) =>
        (chunks \cap Batch) \ Pending \subseteq chunksFile

Covered ==
    ~dirty /\ ~warned => VectorsCovered /\ SnapshotCovered /\ ChunksCovered

PersistInv == PersistTypeOK /\ Locals /\ FlagMatchesTask /\ Covered

-----------------------------------------------------------------------------

\* A fresh process keeps the invariant.
LEMMA InitPersistInv == PersistInit => PersistInv
<1> SUFFICES ASSUME PersistInit PROVE PersistInv
  OBVIOUS
<1> USE PersistAssumption DEF PersistInit
<1>1. MemoryType /\ BoundType
  BY DEF MemoryType, BoundType
<1>2. FlagType
  BY DEF FlagType
<1>3. TaskType
  BY DEF TaskType, TaskLabel
<1>4. Locals /\ FlagMatchesTask
  BY DEF Locals, FlagMatchesTask, AtMostOneTask, Live
<1>5. Covered
  BY DEF Covered, VectorsCovered, SnapshotCovered, ChunksCovered
<1> QED BY <1>1, <1>2, <1>3, <1>4, <1>5 DEF PersistInv, PersistTypeOK

-----------------------------------------------------------------------------
(* Every step preserves the types and the locals.                          *)

\* Every step preserves the types and the locals of the tasks.
LEMMA PersistTypeStep ==
    PersistTypeOK /\ Locals /\ AtMostOneTask /\ [PersistNext]_pvars => PersistTypeOK' /\ Locals'
<1> SUFFICES ASSUME PersistTypeOK, Locals, AtMostOneTask, [PersistNext]_pvars
             PROVE  PersistTypeOK' /\ Locals'
  OBVIOUS
<1> USE PersistAssumption
<1>1. ASSUME NEW b \in Batch, CommitVectors(b) PROVE PersistTypeOK' /\ Locals'
  <2> USE <1>1 DEF CommitVectors, snapshots, persist, tasks, counters
  <2>1. MemoryType'
    BY DEF PersistTypeOK, MemoryType, Content
  <2>2. FlagType'
    BY DEF PersistTypeOK, FlagType
  <2>3. TaskType'
    BY DEF PersistTypeOK, TaskType, TaskLabel, Content
  <2>4. BoundType'
    BY DEF PersistTypeOK, BoundType
  <2>5. Locals'
    BY DEF PersistTypeOK, TaskType, Locals
  <2> QED BY <2>1, <2>2, <2>3, <2>4, <2>5 DEF PersistTypeOK
<1>10. ASSUME NEW b \in Batch, CommitFails(b) PROVE PersistTypeOK' /\ Locals'
  <2> USE <1>10 DEF CommitFails, CanFail, snapshots, persist, committer, tasks
  <2>1. MemoryType'
    BY DEF PersistTypeOK, MemoryType, Content
  <2>2. FlagType'
    BY DEF PersistTypeOK, FlagType
  <2>3. TaskType'
    BY DEF PersistTypeOK, TaskType, TaskLabel, Content
  <2>4. BoundType'
    BY DEF PersistTypeOK, BoundType
  <2>5. Locals'
    BY DEF PersistTypeOK, TaskType, Locals
  <2> QED BY <2>1, <2>2, <2>3, <2>4, <2>5 DEF PersistTypeOK
<1>2. CASE CommitCorpus
  <2> USE <1>2 DEF CommitCorpus, snapshots, persist, tasks, counters
  <2>1. MemoryType'
    BY DEF PersistTypeOK, FlagType, MemoryType, Locals, Content
  <2>2. FlagType'
    BY DEF PersistTypeOK, FlagType
  <2>3. TaskType'
    BY DEF PersistTypeOK, TaskType, TaskLabel, Content
  <2>4. BoundType'
    BY DEF PersistTypeOK, BoundType
  <2>5. Locals'
    BY DEF PersistTypeOK, TaskType, Locals
  <2> QED BY <2>1, <2>2, <2>3, <2>4, <2>5 DEF PersistTypeOK
<1>3. CASE MarkDirty
  <2> USE <1>3 DEF MarkDirty, memory, snapshots, tasks, counters
  <2>1. MemoryType'
    BY DEF PersistTypeOK, MemoryType, Content
  <2>2. FlagType'
    BY DEF PersistTypeOK, FlagType
  <2>3. TaskType'
    BY DEF PersistTypeOK, TaskType, TaskLabel, Content
  <2>4. BoundType'
    BY DEF PersistTypeOK, BoundType
  <2>5. Locals'
    BY DEF PersistTypeOK, TaskType, Locals
  <2> QED BY <2>1, <2>2, <2>3, <2>4, <2>5 DEF PersistTypeOK
<1>4. CASE TryAcquire
  <2> USE <1>4 DEF TryAcquire, memory, snapshots, tasks, counters
  <2>1. MemoryType'
    BY DEF PersistTypeOK, MemoryType, Content
  <2>2. FlagType'
    BY DEF PersistTypeOK, FlagType
  <2>3. TaskType'
    BY DEF PersistTypeOK, TaskType, TaskLabel, Content
  <2>4. BoundType'
    BY DEF PersistTypeOK, BoundType
  <2>5. Locals'
    BY DEF PersistTypeOK, TaskType, Locals
  <2> QED BY <2>1, <2>2, <2>3, <2>4, <2>5 DEF PersistTypeOK
<1>5. ASSUME NEW e \in Edit, IndexFile(e) PROVE PersistTypeOK' /\ Locals'
  <2> USE <1>5 DEF IndexFile, snapshots, persist, committer, tasks, counters
  <2>1. MemoryType'
    BY DEF PersistTypeOK, MemoryType, Content
  <2>2. FlagType'
    BY DEF PersistTypeOK, FlagType
  <2>3. TaskType'
    BY DEF PersistTypeOK, TaskType, TaskLabel, Content
  <2>4. BoundType'
    BY DEF PersistTypeOK, BoundType
  <2>5. Locals'
    BY DEF PersistTypeOK, TaskType, Locals
  <2> QED BY <2>1, <2>2, <2>3, <2>4, <2>5 DEF PersistTypeOK
<1>6. ASSUME NEW c \in Content, RemoveFile(c) PROVE PersistTypeOK' /\ Locals'
  <2> USE <1>6 DEF RemoveFile, snapshots, persist, committer, tasks, counters
  <2>1. MemoryType'
    BY DEF PersistTypeOK, MemoryType, Content
  <2>2. FlagType'
    BY DEF PersistTypeOK, FlagType
  <2>3. TaskType'
    BY DEF PersistTypeOK, TaskType, TaskLabel, Content
  <2>4. BoundType'
    BY DEF PersistTypeOK, BoundType
  <2>5. Locals'
    BY DEF PersistTypeOK, TaskType, Locals
  <2> QED BY <2>1, <2>2, <2>3, <2>4, <2>5 DEF PersistTypeOK
<1>7. ASSUME NEW t \in Task, TaskStep(t) PROVE PersistTypeOK' /\ Locals'
  <2> USE DEF TaskGoto, CanFail, memory, snapshots, persist, committer, counters
  <2>1. CASE ResolvePaths(t)
    <3> USE <2>1 DEF ResolvePaths
    <3>1. MemoryType'
      BY DEF PersistTypeOK, MemoryType, Content
    <3>2. FlagType'
      BY DEF PersistTypeOK, FlagType
    <3>3. TaskType'
      BY DEF PersistTypeOK, TaskType, TaskLabel, Content
    <3>4. BoundType'
      BY DEF PersistTypeOK, BoundType
    <3>5. Locals'
      BY DEF PersistTypeOK, TaskType, Locals
    <3> QED BY <3>1, <3>2, <3>3, <3>4, <3>5 DEF PersistTypeOK
  <2>2. CASE ClearDirty(t)
    <3> USE <2>2 DEF ClearDirty
    <3>1. MemoryType'
      BY DEF PersistTypeOK, MemoryType, Content
    <3>2. FlagType'
      BY DEF PersistTypeOK, FlagType
    <3>3. TaskType'
      BY DEF PersistTypeOK, TaskType, TaskLabel, Content
    <3>4. BoundType'
      BY DEF PersistTypeOK, BoundType
    <3>5. Locals'
      BY DEF PersistTypeOK, TaskType, Locals
    <3> QED BY <3>1, <3>2, <3>3, <3>4, <3>5 DEF PersistTypeOK
  <2>3. CASE SaveHnsw(t)
    <3> USE <2>3 DEF SaveHnsw
    <3>1. MemoryType'
      BY DEF PersistTypeOK, MemoryType, Content
    <3>2. FlagType'
      BY DEF PersistTypeOK, FlagType
    <3>3. TaskType'
      BY DEF PersistTypeOK, TaskType, TaskLabel, Content
    <3>4. BoundType'
      BY DEF PersistTypeOK, BoundType
    <3>5. Locals'
      BY DEF PersistTypeOK, TaskType, Locals
    <3> QED BY <3>1, <3>2, <3>3, <3>4, <3>5 DEF PersistTypeOK
  <2>4. CASE SnapshotCorpus(t)
    <3> USE <2>4 DEF SnapshotCorpus
    <3>1. MemoryType'
      BY DEF PersistTypeOK, MemoryType, Content
    <3>2. FlagType'
      BY DEF PersistTypeOK, FlagType
    <3>3. TaskType'
      BY DEF PersistTypeOK, MemoryType, TaskType, TaskLabel, Content
    <3>4. BoundType'
      BY DEF PersistTypeOK, BoundType
    <3>5. Locals'
      BY DEF PersistTypeOK, TaskType, Locals
    <3> QED BY <3>1, <3>2, <3>3, <3>4, <3>5 DEF PersistTypeOK
  <2>5. CASE WriteChunks(t)
    <3> USE <2>5 DEF WriteChunks
    <3>1. MemoryType'
      BY DEF PersistTypeOK, TaskType, MemoryType, Content
    <3>2. FlagType'
      BY DEF PersistTypeOK, FlagType
    <3>3. TaskType'
      BY DEF PersistTypeOK, TaskType, TaskLabel, Content
    <3>4. BoundType'
      BY DEF PersistTypeOK, BoundType
    <3>5. Locals'
      BY DEF PersistTypeOK, TaskType, Locals
    <3> QED BY <3>1, <3>2, <3>3, <3>4, <3>5 DEF PersistTypeOK
  <2>6. CASE CheckDirty(t)
    <3> USE <2>6 DEF CheckDirty
    <3>1. MemoryType'
      BY DEF PersistTypeOK, MemoryType, Content
    <3>2. FlagType'
      BY DEF PersistTypeOK, FlagType
    <3>3. TaskType'
      BY DEF PersistTypeOK, TaskType, TaskLabel, Content, Locals
    <3>4. BoundType'
      BY DEF PersistTypeOK, BoundType
    <3>5. Locals'
      <4>1. ASSUME NEW s \in Task,
                   task'[s] \in {"clear", "hnsw", "snapshot", "write", "check"}
            PROVE  iteration' < MaxIterations
        <5>1. s # t => Live(s) /\ Live(t)
          BY <4>1 DEF PersistTypeOK, TaskType, Live
        <5>2. s = t
          BY <5>1 DEF AtMostOneTask
        <5>3. task'[t] = IF dirty /\ iteration + 1 < MaxIterations
                           THEN "clear" ELSE "release"
          BY DEF PersistTypeOK, TaskType
        <5> QED BY <4>1, <5>2, <5>3 DEF PersistTypeOK, TaskType
      <4>2. commit' # "idle" => batch' \in Batch
        BY DEF Locals
      <4> QED BY <4>1, <4>2 DEF Locals
    <3> QED BY <3>1, <3>2, <3>3, <3>4, <3>5 DEF PersistTypeOK
  <2>7. CASE Release(t)
    <3> USE <2>7 DEF Release
    <3>1. MemoryType'
      BY DEF PersistTypeOK, MemoryType, Content
    <3>2. FlagType'
      BY DEF PersistTypeOK, FlagType
    <3>3. TaskType'
      BY DEF PersistTypeOK, TaskType, TaskLabel, Content
    <3>4. BoundType'
      BY DEF PersistTypeOK, BoundType
    <3>5. Locals'
      BY DEF PersistTypeOK, TaskType, Locals
    <3> QED BY <3>1, <3>2, <3>3, <3>4, <3>5 DEF PersistTypeOK
  <2> QED BY <1>7, <2>1, <2>2, <2>3, <2>4, <2>5, <2>6, <2>7 DEF TaskStep
<1>8. CASE Restart
  <2> USE <1>8 DEF Restart, snapshots
  <2>1. MemoryType'
    BY DEF PersistTypeOK, MemoryType, Content
  <2>2. FlagType'
    BY DEF PersistTypeOK, FlagType
  <2>3. TaskType'
    BY DEF PersistTypeOK, TaskType, TaskLabel, Content
  <2>4. BoundType'
    BY DEF PersistTypeOK, BoundType
  <2>5. Locals'
    BY DEF PersistTypeOK, TaskType, Locals
  <2> QED BY <2>1, <2>2, <2>3, <2>4, <2>5 DEF PersistTypeOK
<1>9. CASE UNCHANGED pvars
  <2> USE <1>9 DEF pvars, memory, snapshots, persist, committer, tasks, counters
  <2>1. MemoryType'
    BY DEF PersistTypeOK, MemoryType, Content
  <2>2. FlagType'
    BY DEF PersistTypeOK, FlagType
  <2>3. TaskType'
    BY DEF PersistTypeOK, TaskType, TaskLabel, Content
  <2>4. BoundType'
    BY DEF PersistTypeOK, BoundType
  <2>5. Locals'
    BY DEF PersistTypeOK, TaskType, Locals
  <2> QED BY <2>1, <2>2, <2>3, <2>4, <2>5 DEF PersistTypeOK
<1> QED
  BY <1>1, <1>2, <1>3, <1>4, <1>5, <1>6, <1>7, <1>8, <1>9, <1>10 DEF PersistNext, CommitStep

-----------------------------------------------------------------------------
(* in_flight and the single live task.                                     *)

\* in_flight is set exactly while a task lives, after every step too.
LEMMA FlagStep ==
    PersistTypeOK /\ FlagMatchesTask /\ [PersistNext]_pvars => FlagMatchesTask'
<1> SUFFICES ASSUME PersistTypeOK, FlagMatchesTask, [PersistNext]_pvars PROVE FlagMatchesTask'
  OBVIOUS
<1> USE DEF FlagMatchesTask, AtMostOneTask, Live
<1>1. ASSUME UNCHANGED <<inFlight, task>> PROVE FlagMatchesTask'
  BY <1>1
<1>2. ASSUME NEW b \in Batch, CommitVectors(b) PROVE FlagMatchesTask'
  BY <1>1, <1>2 DEF CommitVectors, persist, tasks
<1>11. ASSUME NEW b \in Batch, CommitFails(b) PROVE FlagMatchesTask'
  BY <1>1, <1>11 DEF CommitFails, persist, tasks
<1>3. CASE CommitCorpus
  BY <1>1, <1>3 DEF CommitCorpus, persist, tasks
<1>4. CASE MarkDirty
  BY <1>1, <1>4 DEF MarkDirty, tasks
<1>5. CASE TryAcquire
  <2>1. CASE inFlight
    BY <1>1, <1>5, <2>1 DEF TryAcquire, tasks
  <2>2. CASE ~inFlight
    <3>1. PICK t \in Task : task' = [task EXCEPT ![t] = "paths"]
      BY <1>5, <2>2 DEF TryAcquire
    <3>2. inFlight' /\ \A s \in Task : ~Live(s)
      BY <1>5, <2>2 DEF TryAcquire
    <3> QED BY <3>1, <3>2 DEF PersistTypeOK, TaskType
  <2> QED BY <2>1, <2>2
<1>6. ASSUME NEW e \in Edit, IndexFile(e) PROVE FlagMatchesTask'
  BY <1>1, <1>6 DEF IndexFile, persist, tasks
<1>7. ASSUME NEW c \in Content, RemoveFile(c) PROVE FlagMatchesTask'
  BY <1>1, <1>7 DEF RemoveFile, persist, tasks
<1>8. ASSUME NEW t \in Task, TaskStep(t) PROVE FlagMatchesTask'
  <2>1. Live(t)
    BY <1>8 DEF TaskStep, ResolvePaths, ClearDirty, SaveHnsw, SnapshotCorpus,
                WriteChunks, CheckDirty, Release
  <2>2. ASSUME NEW l \in TaskLabel \ {"none"}, TaskGoto(t, l), UNCHANGED inFlight
        PROVE  FlagMatchesTask'
    BY <2>1, <2>2 DEF TaskGoto, PersistTypeOK, TaskType, TaskLabel
  <2>3. ASSUME TaskGoto(t, "none"), inFlight' = FALSE
        PROVE  FlagMatchesTask'
    BY <2>1, <2>3 DEF TaskGoto, PersistTypeOK, TaskType
  <2>4. CASE ResolvePaths(t)
    BY <2>2, <2>3, <2>4 DEF ResolvePaths, TaskLabel
  <2>5. CASE ClearDirty(t)
    BY <2>2, <2>5 DEF ClearDirty, TaskLabel
  <2>6. CASE SaveHnsw(t)
    BY <2>2, <2>6 DEF SaveHnsw, TaskLabel, persist
  <2>7. CASE SnapshotCorpus(t)
    BY <2>2, <2>7 DEF SnapshotCorpus, TaskLabel, persist
  <2>8. CASE WriteChunks(t)
    BY <2>2, <2>8 DEF WriteChunks, TaskLabel, persist
  <2>9. CASE CheckDirty(t)
    BY <2>2, <2>9 DEF CheckDirty, TaskLabel, persist
  <2>10. CASE Release(t)
    BY <2>3, <2>10 DEF Release
  <2> QED
    BY <1>8, <2>4, <2>5, <2>6, <2>7, <2>8, <2>9, <2>10 DEF TaskStep
<1>9. CASE Restart
  BY <1>9 DEF Restart
<1>10. CASE UNCHANGED pvars
  BY <1>1, <1>10 DEF pvars, persist, tasks
<1> QED
  BY <1>2, <1>3, <1>4, <1>5, <1>6, <1>7, <1>8, <1>9, <1>10, <1>11 DEF PersistNext, CommitStep

-----------------------------------------------------------------------------
(* A clear flag keeps its promise.                                         *)

\* A clear flag keeps its promise in every step.
LEMMA CoveredStep ==
    PersistTypeOK /\ Locals /\ FlagMatchesTask /\ Covered /\ [PersistNext]_pvars => Covered'
<1> SUFFICES ASSUME PersistTypeOK, Locals, FlagMatchesTask, Covered, [PersistNext]_pvars
             PROVE  Covered'
  OBVIOUS
<1> USE DEF Covered, VectorsCovered, SnapshotCovered, ChunksCovered
<1>1. ASSUME NEW b \in Batch, CommitVectors(b) PROVE Covered'
  BY <1>1 DEF CommitVectors, Pending, snapshots, persist, tasks
<1>10. ASSUME NEW b \in Batch, CommitFails(b) PROVE Covered'
  BY <1>10 DEF CommitFails
<1>2. CASE CommitCorpus
  BY <1>2 DEF CommitCorpus, Pending, snapshots, persist, tasks
<1>3. CASE MarkDirty
  BY <1>3 DEF MarkDirty
<1>4. CASE TryAcquire
  <2>1. UNCHANGED <<vectors, chunks, hnswFile, chunksFile, dirty, warned, clone>>
        /\ Pending' = Pending
    BY <1>4 DEF TryAcquire, Pending, memory, snapshots, tasks
  <2>2. \A t \in Task : task'[t] = task[t] \/ (task[t] = "none" /\ task'[t] = "paths")
    BY <1>4 DEF TryAcquire, PersistTypeOK, TaskType, Live, tasks
  <2> QED BY <2>1, <2>2
<1>5. ASSUME NEW e \in Edit, IndexFile(e) PROVE Covered'
  <2>1. e \notin Batch
    BY <1>5, PersistAssumption
  <2> QED BY <1>5, <2>1 DEF IndexFile, Pending, snapshots, persist, committer, tasks
<1>6. ASSUME NEW c \in Content, RemoveFile(c) PROVE Covered'
  BY <1>6 DEF RemoveFile, Pending, snapshots, persist, committer, tasks
<1>7. ASSUME NEW t \in Task, TaskStep(t) PROVE Covered'
  <2> USE DEF TaskGoto
  <2>1. \A s \in Task : s # t => task'[s] = task[s] /\ task[s] = "none"
    BY <1>7 DEF TaskStep, ResolvePaths, ClearDirty, SaveHnsw, SnapshotCorpus,
                WriteChunks, CheckDirty, Release, FlagMatchesTask, AtMostOneTask,
                Live, PersistTypeOK, TaskType
  <2>2. UNCHANGED <<vectors, chunks, Pending>>
    BY <1>7 DEF TaskStep, ResolvePaths, ClearDirty, SaveHnsw, SnapshotCorpus,
                WriteChunks, CheckDirty, Release, Pending, memory, committer
  <2> USE <2>1, <2>2 DEF PersistTypeOK, TaskType
  <2>3. CASE ResolvePaths(t)
    BY <2>3 DEF ResolvePaths, snapshots
  <2>4. CASE ClearDirty(t)
    BY <2>4 DEF ClearDirty, snapshots
  <2>5. CASE SaveHnsw(t)
    BY <2>5 DEF SaveHnsw, persist
  <2>6. CASE SnapshotCorpus(t)
    BY <2>6 DEF SnapshotCorpus, snapshots, persist
  <2>7. CASE WriteChunks(t)
    BY <2>7 DEF WriteChunks, persist
  <2>8. CASE CheckDirty(t)
    BY <2>8 DEF CheckDirty, snapshots, persist
  <2>9. CASE Release(t)
    BY <2>9 DEF Release, snapshots
  <2> QED BY <1>7, <2>3, <2>4, <2>5, <2>6, <2>7, <2>8, <2>9 DEF TaskStep
<1>8. CASE Restart
  BY <1>8 DEF Restart, snapshots
<1>9. CASE UNCHANGED pvars
  BY <1>9 DEF pvars, memory, snapshots, persist, committer, tasks, Pending
<1> QED
  BY <1>1, <1>2, <1>3, <1>4, <1>5, <1>6, <1>7, <1>8, <1>9, <1>10 DEF PersistNext, CommitStep

-----------------------------------------------------------------------------

\* The inductive invariant, from which the results below follow.
THEOREM Inductive == PersistSpec => []PersistInv
<1>1. PersistInit => PersistInv
  BY InitPersistInv
<1>2. PersistInv /\ [PersistNext]_pvars => PersistInv'
  BY PersistTypeStep, FlagStep, CoveredStep DEF PersistInv, FlagMatchesTask
<1> QED BY <1>1, <1>2, PTL DEF PersistSpec

\* Every reachable state has the types the code's declarations give it.
THEOREM TypeCorrect == PersistSpec => []PersistTypeOK
<1>1. PersistInv => PersistTypeOK
  BY DEF PersistInv
<1> QED BY <1>1, Inductive, PTL

\* spawn_incremental_persist never has two persist tasks alive for an index.
THEOREM SingleTask == PersistSpec => []AtMostOneTask
<1>1. PersistInv => AtMostOneTask
  BY DEF PersistInv, FlagMatchesTask
<1> QED BY <1>1, Inductive, PTL

\* A clear `dirty' flag at rest, after a save that did not fail, means every
\* committed batch is in both files.
THEOREM CleanFlagIsDurable == PersistSpec => []CleanIsDurable
<1>1. PersistInv => CleanIsDurable
  <2> SUFFICES ASSUME PersistInv, Quiet, ~dirty, ~warned
               PROVE  /\ vectors \cap Batch \subseteq hnswFile
                      /\ chunks \cap Batch \subseteq chunksFile
    BY DEF CleanIsDurable
  <2>1. Pending = {} /\ \A t \in Task : task[t] = "none"
    BY DEF Quiet, Pending, Live
  <2> QED BY <2>1 DEF PersistInv, Covered, VectorsCovered, ChunksCovered
<1> QED BY <1>1, Inductive, PTL
-----------------------------------------------------------------------------
(* How the file is written.                                                *)

saved == Loaded(file, content)

\* Bytes that are there come from some snapshot, so that a file that parses is a version.
Written == \A i \in Inode : content[i] # {} => content[i] \cap Version # {}

\* The two names never lead to one inode: a save does not truncate what is published.
TwoInodes == tmp # NoInode => tmp # file

\* What a save that is alone knows of the temporary file, step by step, and that what it
\* has cloned is between the file and the corpus.
Solo == \A v, w \in Writer : Saving(v) /\ Saving(w) => v = w
Opened == \A w \in Writer : pc[w] = "write" =>
              fd[w] = tmp /\ tmp # NoInode /\ content[tmp] = {}
Filled == \A w \in Writer : pc[w] = "rename" => tmp # NoInode /\ content[tmp] = {snap[w]}
Published == file # NoInode => \E v \in Version : content[file] = {v}
Newer == saved <= corpus /\ \A w \in Writer : Saving(w) => saved <= snap[w] /\ snap[w] <= corpus
Alone == Solo /\ Opened /\ Filled /\ Published /\ Newer

IInv == TypeOK /\ Written /\ TwoInodes /\ (~overlapped => Alone)

-----------------------------------------------------------------------------

\* A complete file loads as the version it holds.
LEMMA LoadsVersion ==
    ASSUME NEW i \in Inode, NEW c, NEW v \in Version, c[i] = {v}
    PROVE  Loaded(i, c) = v
<1>1. Cardinality(c[i]) = 1
  BY FS_Singleton
<1>2. i # NoInode
  BY SnapshotAssumption
<1>3. (CHOOSE u \in Version : c[i] = {u}) = v
  OBVIOUS
<1> QED BY <1>1, <1>2, <1>3 DEF Loaded

\* Whatever the file holds, what loads is a version: the empty corpus, if it does not parse.
LEMMA LoadsSome ==
    ASSUME TypeOK, Written PROVE saved \in Version
<1>1. CASE file # NoInode /\ Cardinality(content[file]) = 1
  <2>1. content[file] \in SUBSET (Version \cup {Partial})
    BY <1>1 DEF TypeOK
  <2>2. IsFiniteSet(Version \cup {Partial})
    <3>1. IsFiniteSet(Version)
      BY SnapshotAssumption, FS_Interval DEF Version
    <3> QED BY <3>1, FS_AddElement, FS_Union, FS_Singleton
  <2>3. IsFiniteSet(content[file])
    BY <2>1, <2>2, FS_Subset
  <2>4. PICK v : content[file] = {v}
    BY <1>1, <2>3, FS_Singleton
  <2>5. v \in Version
    BY <1>1, <2>4 DEF Written, TypeOK
  <2>6. saved = v
    BY <1>1, <2>4, <2>5, LoadsVersion DEF TypeOK, saved
  <2> QED BY <2>5, <2>6
<1>2. CASE ~(file # NoInode /\ Cardinality(content[file]) = 1)
  BY <1>2, SnapshotAssumption DEF saved, Loaded, Version
<1> QED BY <1>1, <1>2

\* What loads depends on the inode the name leads to, and on no other.
LEMMA LoadsSame ==
    ASSUME file' = file, file # NoInode => content'[file] = content[file]
    PROVE  saved' = saved
<1> DEFINE Held(set) == CHOOSE v \in Version : set = {v}
           Parses(i, set) == i # NoInode /\ Cardinality(set) = 1
<1>1. saved = IF Parses(file, content[file]) THEN Held(content[file]) ELSE 0
  BY DEF saved, Loaded
<1>2. saved' = IF Parses(file', content'[file']) THEN Held(content'[file']) ELSE 0
  BY DEF saved, Loaded
<1>3. CASE file = NoInode
  BY <1>1, <1>2, <1>3
<1>4. CASE file # NoInode
  <2> HIDE DEF Held, Parses
  <2>1. content'[file'] = content[file] /\ file' = file
    BY <1>4
  <2> QED BY <1>1, <1>2, <2>1
<1> QED BY <1>3, <1>4

\* The invariant holds of a daemon that found any complete file or none.
LEMMA InitIInv == Init => IInv
<1> SUFFICES ASSUME Init PROVE IInv
  OBVIOUS
<1> USE SnapshotAssumption DEF Init
<1>1. TypeOK
  <2>1. 0 \in Version /\ 0 \in 0..MaxBoots /\ 0 \in 0..MaxFaults
    BY DEF Version
  <2>2. /\ pc \in [Writer -> {"idle", "create", "write", "rename", "done"}]
        /\ fd \in [Writer -> Inode \cup {NoInode}]
        /\ \A w \in Writer : fd[w] # NoInode <=> pc[w] = "write"
    OBVIOUS
  <2>3. /\ content \in [Inode -> SUBSET (Version \cup {Partial})]
        /\ snap \in [Writer -> Version]
    BY <2>1
  <2> QED BY <2>1, <2>2, <2>3 DEF TypeOK
<1>2. Written /\ TwoInodes
  BY DEF Written, TwoInodes
<1>3. saved = 0
  BY DEF saved, Loaded
<1>4. Alone
  BY <1>3 DEF Alone, Solo, Opened, Filled, Published, Newer, Saving
<1> QED BY <1>1, <1>2, <1>4 DEF IInv

-----------------------------------------------------------------------------
(* Steps.                                                                  *)

\* Every step preserves the types; a boot needs that what a file holds is a version.
LEMMA TypeStep == TypeOK /\ Written /\ [Next]_vars => TypeOK'
<1> SUFFICES ASSUME TypeOK, Written, [Next]_vars PROVE TypeOK'
  OBVIOUS
<1> USE SnapshotAssumption DEF TypeOK
<1> USE DEF daemon, disk, writers, bounds
<1>1. CASE Change
  BY <1>1 DEF Change, Version
<1>2. CASE Terminate \/ Exit \/ Exited \/ Kill
  BY <1>2 DEF Terminate, Exit, Exited, Kill, Version
<1>3. CASE Boot
  <2>1. saved \in Version
    BY LoadsSome
  <2>2. corpus' \in Version /\ phase' = "running" /\ flushed' \in Version
    BY <1>3, <2>1 DEF Boot, saved, Version
  <2>3. boots' \in 0..MaxBoots
    BY <1>3 DEF Boot
  <2>4. /\ pc' \in [Writer -> {"idle", "create", "write", "rename", "done"}]
        /\ fd' \in [Writer -> Inode \cup {NoInode}]
        /\ \A w \in Writer : fd'[w] # NoInode <=> pc'[w] = "write"
        /\ snap' \in [Writer -> Version]
    BY <1>3 DEF Boot, Version
  <2> QED BY <1>3, <2>2, <2>3, <2>4 DEF Boot
<1>4. ASSUME NEW w \in Writer, Snapshot(w) PROVE TypeOK'
  BY <1>4 DEF Snapshot, Goto
<1>5. ASSUME NEW w \in Writer, Create(w) PROVE TypeOK'
  <2>1. content' \in [Inode -> SUBSET (Version \cup {Partial})] /\ tmp' \in Inode \cup {NoInode}
    BY <1>5 DEF Create
  <2>2. PICK i \in Inode : fd' = [fd EXCEPT ![w] = i]
    BY <1>5 DEF Create
  <2>3. /\ pc' \in [Writer -> {"idle", "create", "write", "rename", "done"}]
        /\ fd' \in [Writer -> Inode \cup {NoInode}]
        /\ \A v \in Writer : fd'[v] # NoInode <=> pc'[v] = "write"
    BY <1>5, <2>2 DEF Create, Goto
  <2> QED BY <1>5, <2>1, <2>3 DEF Create
<1>6. ASSUME NEW w \in Writer, Write(w) PROVE TypeOK'
  <2>1. fd[w] \in Inode
    BY <1>6 DEF Write
  <2>2. content' \in [Inode -> SUBSET (Version \cup {Partial})]
    BY <1>6, <2>1 DEF Write
  <2>3. /\ pc' \in [Writer -> {"idle", "create", "write", "rename", "done"}]
        /\ fd' \in [Writer -> Inode \cup {NoInode}]
        /\ \A v \in Writer : fd'[v] # NoInode <=> pc'[v] = "write"
    BY <1>6 DEF Write, Goto, Close
  <2> QED BY <1>6, <2>2, <2>3 DEF Write
<1>7. ASSUME NEW w \in Writer, WriteFails(w) PROVE TypeOK'
  <2>1. fd[w] \in Inode
    BY <1>7 DEF WriteFails
  <2>2. content' \in [Inode -> SUBSET (Version \cup {Partial})]
    BY <1>7, <2>1 DEF WriteFails
  <2>3. /\ pc' \in [Writer -> {"idle", "create", "write", "rename", "done"}]
        /\ fd' \in [Writer -> Inode \cup {NoInode}]
        /\ \A v \in Writer : fd'[v] # NoInode <=> pc'[v] = "write"
    BY <1>7 DEF WriteFails, Goto, Close, Finish
  <2>4. faults' \in 0..MaxFaults
    BY <1>7 DEF WriteFails
  <2> QED BY <1>7, <2>2, <2>3, <2>4 DEF WriteFails
<1>8. ASSUME NEW w \in Writer, Rename(w) PROVE TypeOK'
  <2>1. /\ pc' \in [Writer -> {"idle", "create", "write", "rename", "done"}]
        /\ \A v \in Writer : fd'[v] # NoInode <=> pc'[v] = "write"
    BY <1>8 DEF Rename, Goto, Finish
  <2>2. tmp' \in Inode \cup {NoInode} /\ file' \in Inode \cup {NoInode} /\ flushed' \in Version
    BY <1>8 DEF Rename
  <2> QED BY <1>8, <2>1, <2>2 DEF Rename
<1>9. CASE UNCHANGED vars
  BY <1>9 DEF vars
<1> QED BY <1>1, <1>2, <1>3, <1>4, <1>5, <1>6, <1>7, <1>8, <1>9 DEF Next, Step

\* What holds of the names and the bytes, whether or not saves overlap.
LEMMA DiskStep ==
    TypeOK /\ Written /\ TwoInodes /\ [Next]_vars => Written' /\ TwoInodes'
<1> SUFFICES ASSUME TypeOK, Written, TwoInodes, [Next]_vars PROVE Written' /\ TwoInodes'
  OBVIOUS
<1> USE SnapshotAssumption DEF TypeOK, Written, TwoInodes, daemon, disk, writers, bounds
<1>1. CASE UNCHANGED disk
  BY <1>1
<1>2. ASSUME NEW w \in Writer, Create(w) PROVE Written' /\ TwoInodes'
  BY <1>2 DEF Create
<1>3. ASSUME NEW w \in Writer, Write(w) PROVE Written' /\ TwoInodes'
  BY <1>3 DEF Write
<1>4. ASSUME NEW w \in Writer, WriteFails(w) PROVE Written' /\ TwoInodes'
  BY <1>4 DEF WriteFails
<1>5. ASSUME NEW w \in Writer, Rename(w) PROVE Written' /\ TwoInodes'
  BY <1>5 DEF Rename
<1>6. ASSUME NEW w \in Writer, Snapshot(w) PROVE UNCHANGED disk
  BY <1>6 DEF Snapshot
<1>7. CASE Change \/ Terminate \/ Exit \/ Exited \/ Kill \/ Boot
  BY <1>1, <1>7 DEF Change, Terminate, Exit, Exited, Kill, Boot
<1> QED BY <1>1, <1>2, <1>3, <1>4, <1>5, <1>6, <1>7 DEF Next, Step, vars

\* Overlapping is for ever, so that a save that is alone after a step was alone before.
LEMMA OverlapStays == TypeOK /\ [Next]_vars /\ ~overlapped' => ~overlapped
  BY DEF TypeOK, Next, Step, Change, Terminate, Exit, Exited, Kill, Boot, Snapshot, Create, Write,
         WriteFails, Rename, vars

\* While no two saves overlap, each step of a save knows the temporary file as its own.
LEMMA AloneStep == IInv /\ [Next]_vars /\ ~overlapped' => Alone'
<1> SUFFICES ASSUME IInv, [Next]_vars, ~overlapped' PROVE Alone'
  OBVIOUS
<1> USE SnapshotAssumption DEF daemon, disk, writers, bounds
<1>t. TypeOK /\ Written /\ TwoInodes /\ Alone
  BY OverlapStays DEF IInv
<1>v. /\ saved \in Version /\ Version \subseteq Nat /\ corpus \in Version
      /\ snap \in [Writer -> Version]
  BY <1>t, LoadsSome DEF TypeOK, Version
\* A step that leaves the disk and the writers alone.
<1>a. ASSUME UNCHANGED <<disk, writers>>, corpus <= corpus', corpus' \in Nat PROVE Alone'
  <2>1. saved' = saved
    BY <1>a, LoadsSame
  <2>2. Solo' /\ Opened' /\ Filled' /\ Published'
    BY <1>t, <1>a DEF Alone, Solo, Opened, Filled, Published, Saving
  <2>3. Newer'
    <3>1. saved' <= corpus'
      BY <1>t, <1>v, <1>a, <2>1 DEF Alone, Newer
    <3>2. ASSUME NEW w \in Writer, Saving(w)' PROVE saved' <= snap'[w] /\ snap'[w] <= corpus'
      <4>1. snap'[w] = snap[w] /\ snap[w] \in Nat
        BY <1>a, <1>v
      <4>2. Saving(w)
        BY <1>a, <3>2 DEF Saving
      <4>3. saved <= snap[w] /\ snap[w] <= corpus
        BY <1>t, <4>2 DEF Alone, Newer
      <4> QED BY <1>a, <1>v, <2>1, <4>1, <4>3
    <3> QED BY <3>1, <3>2 DEF Newer
  <2> QED BY <2>2, <2>3 DEF Alone
<1>1. CASE Change \/ Terminate \/ Exit \/ Exited \/ Kill \/ UNCHANGED vars
  BY <1>1, <1>a, <1>v DEF Change, Terminate, Exit, Exited, Kill, vars
<1>2. CASE Boot
  <2>1. saved' = saved
    BY <1>2, LoadsSame DEF Boot
  <2>2. \A w \in Writer : pc'[w] = "idle"
    BY <1>2 DEF Boot
  <2>3. Solo' /\ Opened' /\ Filled' /\ Published'
    BY <1>2, <1>t, <2>2 DEF Alone, Solo, Opened, Filled, Published, Saving, Boot
  <2>4. corpus' = saved
    BY <1>2 DEF Boot, saved
  <2>5. Newer'
    BY <1>v, <2>1, <2>2, <2>4 DEF Newer, Saving
  <2> QED BY <2>3, <2>5 DEF Alone
<1>3. ASSUME NEW w \in Writer, Snapshot(w) PROVE Alone'
  <2>1. saved' = saved
    BY <1>3, LoadsSame DEF Snapshot
  <2>2. \A v \in Writer \ {w} : ~Saving(v)
    BY <1>3 DEF Snapshot
  <2>3. \A v \in Writer \ {w} : pc'[v] = pc[v] /\ ~Saving(v)'
    BY <1>3, <1>t, <2>2 DEF Snapshot, Goto, Saving, TypeOK
  <2>4. pc'[w] = "create" /\ snap'[w] = corpus
    BY <1>3, <1>t DEF Snapshot, Goto, TypeOK
  <2>5. Solo' /\ Opened' /\ Filled'
    BY <2>3, <2>4 DEF Solo, Opened, Filled, Saving
  <2>6. Published'
    BY <1>3, <1>t DEF Alone, Published, Snapshot
  <2>7. Newer'
    <3>1. corpus' = corpus /\ saved' <= corpus' /\ corpus <= corpus
      BY <1>3, <1>t, <1>v, <2>1 DEF Alone, Newer, Snapshot
    <3>2. ASSUME NEW v \in Writer, Saving(v)' PROVE saved' <= snap'[v] /\ snap'[v] <= corpus'
      <4>1. v = w
        BY <2>3, <3>2
      <4> QED BY <2>4, <3>1, <4>1
    <3> QED BY <3>1, <3>2 DEF Newer
  <2> QED BY <2>5, <2>6, <2>7 DEF Alone
\* Creating and writing happen in the temporary file only.
<1>b. ASSUME NEW w \in Writer, Saving(w), UNCHANGED <<snap, corpus, file>>,
             file # NoInode => content'[file] = content[file],
             \A v \in Writer \ {w} : pc'[v] = pc[v],
             pc'[w] = "write" => fd'[w] = tmp' /\ tmp' # NoInode /\ content'[tmp'] = {},
             pc'[w] = "rename" => tmp' # NoInode /\ content'[tmp'] = {snap'[w]}
      PROVE  Alone'
  <2>1. saved' = saved
    BY <1>b, LoadsSame
  <2>2. \A v \in Writer \ {w} : ~Saving(v) /\ ~Saving(v)'
    BY <1>b, <1>t DEF Alone, Solo, Saving
  <2>3. Solo' /\ Opened' /\ Filled'
    BY <1>b, <2>2 DEF Solo, Opened, Filled, Saving
  <2>4. Published'
    BY <1>b, <1>t DEF Alone, Published
  <2>5. Newer'
    BY <1>b, <1>t, <2>1, <2>2 DEF Alone, Newer
  <2> QED BY <2>3, <2>4, <2>5 DEF Alone
<1>4. ASSUME NEW w \in Writer, Create(w) PROVE Alone'
  <2>1. Saving(w) /\ UNCHANGED <<snap, corpus, file>> /\ pc'[w] = "write"
    BY <1>4, <1>t DEF Create, Saving, Goto, TypeOK
  <2>2. \A v \in Writer \ {w} : pc'[v] = pc[v]
    BY <1>4, <1>t DEF Create, Goto, TypeOK
  <2>3. file # NoInode => content'[file] = content[file]
    BY <1>4, <1>t DEF Create, TypeOK, TwoInodes
  <2>4. fd'[w] = tmp' /\ tmp' # NoInode /\ content'[tmp'] = {}
    BY <1>4, <1>t DEF Create, TypeOK
  <2> QED BY <1>b, <2>1, <2>2, <2>3, <2>4
<1>5. ASSUME NEW w \in Writer, Write(w) PROVE Alone'
  <2>1. Saving(w) /\ UNCHANGED <<snap, corpus, file, tmp>> /\ pc'[w] = "rename"
    BY <1>5, <1>t DEF Write, Saving, Goto, TypeOK
  <2>2. \A v \in Writer \ {w} : pc'[v] = pc[v]
    BY <1>5, <1>t DEF Write, Goto, TypeOK
  <2>3. fd[w] = tmp /\ tmp # NoInode /\ tmp # file /\ content[tmp] = {}
    BY <1>5, <1>t DEF Write, Alone, Opened, TwoInodes
  <2>4. file # NoInode => content'[file] = content[file]
    BY <1>5, <1>t, <2>3 DEF Write, TypeOK
  <2>5. content'[tmp'] = {snap'[w]}
    BY <1>5, <1>t, <2>1, <2>3 DEF Write, TypeOK
  <2> QED BY <1>b, <2>1, <2>2, <2>3, <2>4, <2>5
<1>6. ASSUME NEW w \in Writer, WriteFails(w) PROVE Alone'
  <2>1. Saving(w) /\ UNCHANGED <<snap, corpus, file>> /\ pc'[w] \in {"done", "idle"}
    BY <1>6, <1>t DEF WriteFails, Saving, Goto, Finish, TypeOK
  <2>2. \A v \in Writer \ {w} : pc'[v] = pc[v]
    BY <1>6, <1>t DEF WriteFails, Goto, Finish, TypeOK
  <2>3. fd[w] = tmp /\ tmp # file
    BY <1>6, <1>t DEF WriteFails, Alone, Opened, TwoInodes
  <2>4. file # NoInode => content'[file] = content[file]
    BY <1>6, <1>t, <2>3 DEF WriteFails, TypeOK
  <2> QED BY <1>b, <2>1, <2>2, <2>4
<1>7. ASSUME NEW w \in Writer, Rename(w) PROVE Alone'
  <2>1. tmp \in Inode /\ content[tmp] = {snap[w]} /\ snap[w] \in Version
    BY <1>7, <1>t DEF Rename, Alone, Filled, TypeOK
  <2>2. file' = tmp /\ content' = content /\ snap' = snap /\ corpus' = corpus
    BY <1>7, <2>1 DEF Rename
  <2>3. saved' = snap[w]
    BY <2>1, <2>2, LoadsVersion DEF saved
  <2>4. \A v \in Writer : ~Saving(v)'
    <3>1. \A v \in Writer \ {w} : ~Saving(v)
      BY <1>7, <1>t DEF Rename, Alone, Solo, Saving
    <3>2. \A v \in Writer \ {w} : pc'[v] = pc[v]
      BY <1>7, <1>t DEF Rename, Finish, Goto, TypeOK
    <3>3. pc'[w] \in {"done", "idle"}
      BY <1>7, <1>t DEF Rename, Finish, Goto, TypeOK
    <3> QED BY <3>1, <3>2, <3>3 DEF Saving
  <2>5. Solo' /\ Opened' /\ Filled'
    BY <2>4 DEF Solo, Opened, Filled, Saving
  <2>6. Published'
    BY <2>1, <2>2 DEF Published
  <2>7. Newer'
    BY <1>7, <1>t, <2>2, <2>3, <2>4 DEF Newer, Alone, Rename, Saving
  <2> QED BY <2>5, <2>6, <2>7 DEF Alone
<1> QED BY <1>1, <1>2, <1>3, <1>4, <1>5, <1>6, <1>7 DEF Next, Step

\* The parts together.
LEMMA StepIInv == IInv /\ [Next]_vars => IInv'
  BY TypeStep, DiskStep, AloneStep DEF IInv

\* A step of a save that is alone publishes nothing older and nothing unseen.
LEMMA SaveStep ==
    ASSUME IInv, IInv', ~overlapped', NEW w \in Writer,
           Create(w) \/ Write(w) \/ WriteFails(w) \/ Rename(w)
    PROVE  Abstract!Save
<1> USE SnapshotAssumption DEF daemon, disk, writers, bounds
<1>t. TypeOK /\ Written /\ TwoInodes /\ Alone
  BY DEF IInv, Create, Write, WriteFails, Rename
<1>v. saved \in Nat /\ corpus \in Nat /\ saved <= corpus
  BY <1>t, LoadsSome DEF TypeOK, Version, Alone, Newer
<1>c. corpus' = corpus
  BY DEF Create, Write, WriteFails, Rename
<1>1. CASE Create(w)
  <2>1. file' = file /\ (file # NoInode => content'[file] = content[file])
    BY <1>1, <1>t DEF Create, TypeOK, TwoInodes
  <2>2. saved' = saved
    BY <2>1, LoadsSame
  <2> QED BY <1>v, <1>c, <2>2 DEF Abstract!Save, saved
<1>2. CASE Write(w) \/ WriteFails(w)
  <2>1. fd[w] = tmp /\ tmp # file
    BY <1>2, <1>t DEF Write, WriteFails, Alone, Opened, TwoInodes
  <2>2. file' = file /\ (file # NoInode => content'[file] = content[file])
    BY <1>2, <1>t, <2>1 DEF Write, WriteFails, TypeOK
  <2>3. saved' = saved
    BY <2>2, LoadsSame
  <2> QED BY <1>v, <1>c, <2>3 DEF Abstract!Save, saved
<1>3. CASE Rename(w)
  <2>1. tmp \in Inode /\ content[tmp] = {snap[w]} /\ snap[w] \in Version
    BY <1>3, <1>t DEF Rename, Alone, Filled, TypeOK
  <2>2. file' = tmp /\ content' = content
    BY <1>3, <2>1 DEF Rename
  <2>3. saved' = snap[w]
    BY <2>1, <2>2, LoadsVersion DEF saved
  <2>4. saved <= snap[w] /\ snap[w] <= corpus /\ snap[w] \in Nat
    BY <1>3, <1>t, <2>1 DEF Rename, Alone, Newer, Saving, Version
  <2> QED BY <1>v, <1>c, <2>3, <2>4 DEF Abstract!Save, saved
<1> QED BY <1>1, <1>2, <1>3

\* Every step is a step of AtomicSnapshot or leaves its variables, until saves overlap.
LEMMA StepRefines ==
    IInv /\ IInv' /\ [Next]_vars => [Abstract!Next \/ overlapped']_<<corpus, file, content>>
<1> SUFFICES ASSUME IInv, IInv', [Next]_vars, ~overlapped'
             PROVE  Abstract!Next \/ UNCHANGED <<corpus, file, content>>
  OBVIOUS
<1> USE DEF daemon, disk, writers, bounds
<1>1. CASE Change
  <2>1. saved' = saved
    BY <1>1, LoadsSame DEF Change
  <2> QED BY <1>1, <2>1 DEF Change, Abstract!Next, Abstract!Change, saved
<1>2. CASE Boot
  <2>1. saved' = saved /\ corpus' = saved
    BY <1>2, LoadsSame DEF Boot, saved
  <2> QED BY <2>1 DEF Abstract!Next, Abstract!Boot, saved
<1>3. CASE Terminate \/ Exit \/ Exited \/ Kill \/ UNCHANGED vars
  BY <1>3 DEF Terminate, Exit, Exited, Kill, vars
<1>4. ASSUME NEW w \in Writer, Snapshot(w) PROVE UNCHANGED <<corpus, file, content>>
  BY <1>4 DEF Snapshot
<1>5. ASSUME NEW w \in Writer, Create(w) \/ Write(w) \/ WriteFails(w) \/ Rename(w)
      PROVE  Abstract!Next
  BY <1>5, SaveStep DEF Abstract!Next
<1> QED BY <1>1, <1>2, <1>3, <1>4, <1>5 DEF Next, Step

\* The initial states map to initial states.
LEMMA InitRefines == Init => Abstract!Init
  BY DEF Init, Abstract!Init, Loaded

-----------------------------------------------------------------------------
(* Theorems.                                                               *)

\* "Writes JSON atomically via tmp + rename" (save_chunks_to_disk): while no two saves
\* overlap, chunks.json is absent or complete, whenever the process is killed or a write
\* fails.
THEOREM FilesAreSound == Spec => []FilesSound
<1>1. IInv => FilesSound
  <2> SUFFICES ASSUME IInv, ~overlapped, file # NoInode PROVE Cardinality(content[file]) = 1
    BY DEF IInv, FilesSound, Readable, Complete
  <2>1. PICK v \in Version : content[file] = {v}
    BY DEF IInv, Alone, Published
  <2> QED BY <2>1, FS_Singleton
<1> QED BY InitIInv, StepIInv, <1>1, PTL DEF Spec

\* While no two saves overlap, the saves of the persist task and of the shutdown flush are
\* those of AtomicSnapshot: each is one step, publishes a corpus between the one before and
\* the present one, and a boot resumes from it.
THEOREM SavesAreAtomic == Spec => SavesAtomically
<1>1. Spec => []IInv
  BY InitIInv, StepIInv, PTL DEF Spec
<1> QED BY <1>1, InitRefines, StepRefines, PTL DEF Spec, SavesAtomically
=============================================================================
