--------------------------- MODULE SnapshotFiles ---------------------------
(***************************************************************************)
(* How chunks.json is written: to a temporary name, which is then renamed. *)
(* Every writer uses the same temporary name. Two pieces of code write it: *)
(*   - the persist task, whose spawn_blocking closure does the I/O;        *)
(*   - flush_all_indexes_on_shutdown, after SIGTERM, which neither looks   *)
(*     at in_flight nor waits for the task.                                *)
(*                                                                         *)
(* A file is an inode, so that a writer that opened a name goes on writing *)
(* to the same file after another writer renamed it. The content of an     *)
(* inode is the set of snapshots its bytes come from: {} is an empty file, *)
(* {v} the complete snapshot v, and anything larger does not parse. The    *)
(* corpus is abstracted to the number of changes it has seen.              *)
(*                                                                         *)
(* Exiting is the drop of the tokio runtime: it waits for a closure that   *)
(* runs and may drop one that was only queued. Kill is SIGKILL or an OOM   *)
(* kill; what the kernel was given stays (no power cut is modelled).       *)
(***************************************************************************)
EXTENDS Naturals, FiniteSets

CONSTANTS Persister,   \* persist tasks of one index (Persist: at most one)
          Flusher,     \* shutdown flushes
          Inode, NoInode,
          MaxVersion,  \* bound on the changes of the corpus
          MaxBoots,    \* bound on restarts of the daemon
          MaxFaults    \* bound on failed writes

Writer == Persister \cup Flusher

ASSUME SnapshotAssumption ==
    /\ NoInode \notin Inode
    /\ IsFiniteSet(Writer) /\ IsFiniteSet(Inode)
    /\ Cardinality(Inode) >= Cardinality(Writer) + 2
    /\ MaxVersion \in Nat /\ MaxBoots \in Nat /\ MaxFaults \in Nat

VARIABLES
    corpus,    \* version of the in-memory corpus
    phase,     \* life of the daemon
    tmp, file, \* the inodes named chunks.json.tmp and chunks.json
    content,   \* of each inode
    pc, fd, snap,   \* of each writer
    flushed,   \* the version the shutdown flush reported saved
    overlapped,\* two writers have been saving at the same time (history)
    boots, faults

daemon  == <<corpus, phase, flushed>>
disk    == <<tmp, file, content>>
writers == <<pc, fd, snap>>
bounds  == <<boots, faults>>
vars == <<daemon, disk, writers, bounds, overlapped>>

Version == 0..MaxVersion
Partial == MaxVersion + 1   \* marks bytes that stop in the middle of a snapshot

TypeOK ==
    /\ corpus \in Version /\ flushed \in Version
    /\ phase \in {"running", "flushing", "exiting", "down"}
    /\ tmp \in Inode \cup {NoInode} /\ file \in Inode \cup {NoInode}
    /\ content \in [Inode -> SUBSET (Version \cup {Partial})]
    /\ pc \in [Writer -> {"idle", "create", "write", "rename", "done"}]
    /\ fd \in [Writer -> Inode \cup {NoInode}]
    /\ \A w \in Writer : fd[w] # NoInode <=> pc[w] = "write"
    /\ snap \in [Writer -> Version]
    /\ overlapped \in BOOLEAN
    /\ boots \in 0..MaxBoots /\ faults \in 0..MaxFaults

Init ==
    /\ corpus = 0 /\ flushed = 0 /\ phase = "running"
    /\ tmp = NoInode /\ file = NoInode
    /\ content = [i \in Inode |-> {}]
    /\ pc = [w \in Writer |-> "idle"]
    /\ fd = [w \in Writer |-> NoInode]
    /\ snap = [w \in Writer |-> 0]
    /\ overlapped = FALSE
    /\ boots = 0 /\ faults = 0

Goto(w, label) == pc' = [pc EXCEPT ![w] = label]
Close(w) == fd' = [fd EXCEPT ![w] = NoInode]
Finish(w) == Goto(w, IF w \in Flusher THEN "done" ELSE "idle")

\* The version a complete file holds; a file that is missing or does not parse
\* loads as the empty corpus.
Loaded(i, c) ==
    IF i # NoInode /\ Cardinality(c[i]) = 1 THEN CHOOSE v \in Version : c[i] = {v} ELSE 0

-----------------------------------------------------------------------------
(* The corpus, and the life of the daemon.                                 *)

\* A commit takes the index's write lock, and the flush holds its read lock.
Change ==
    /\ phase \in {"running", "flushing"}
    /\ \A w \in Flusher : pc[w] \in {"idle", "done"}
    /\ corpus < MaxVersion
    /\ corpus' = corpus + 1
    /\ UNCHANGED <<phase, flushed, disk, writers, bounds, overlapped>>

\* SIGTERM: axum's graceful shutdown returns and the flush begins.
Terminate ==
    /\ phase = "running"
    /\ phase' = "flushing"
    /\ UNCHANGED <<corpus, flushed, disk, writers, bounds, overlapped>>

\* run_daemon returns once the flush is done.
Exit ==
    /\ phase = "flushing"
    /\ \A w \in Flusher : pc[w] = "done"
    /\ phase' = "exiting"
    /\ UNCHANGED <<corpus, flushed, disk, writers, bounds, overlapped>>

\* Mutant: the runtime is dropped without waiting for running closures.
ExitedAtOnce ==
    /\ phase = "exiting"
    /\ phase' = "down"
    /\ UNCHANGED <<corpus, flushed, disk, writers, bounds, overlapped>>

\* The runtime is dropped; no closure is running any more.
Exited ==
    /\ phase = "exiting"
    /\ \A w \in Persister : pc[w] \in {"idle", "create"}
    /\ phase' = "down"
    /\ UNCHANGED <<corpus, flushed, disk, writers, bounds, overlapped>>

Kill ==
    /\ phase # "down"
    /\ phase' = "down"
    /\ flushed' = 0
    /\ UNCHANGED <<corpus, disk, writers, bounds, overlapped>>

\* Mutant: the daemon comes up without loading the file.
BootEmpty ==
    /\ phase = "down"
    /\ boots < MaxBoots
    /\ boots' = boots + 1
    /\ corpus' = 0
    /\ phase' = "running" /\ flushed' = 0
    /\ pc' = [w \in Writer |-> "idle"]
    /\ fd' = [w \in Writer |-> NoInode]
    /\ snap' = [w \in Writer |-> 0]
    /\ UNCHANGED <<disk, faults, overlapped>>

Boot ==
    /\ phase = "down"
    /\ boots < MaxBoots
    /\ boots' = boots + 1
    /\ corpus' = Loaded(file, content)
    /\ phase' = "running" /\ flushed' = 0
    /\ pc' = [w \in Writer |-> "idle"]
    /\ fd' = [w \in Writer |-> NoInode]
    /\ snap' = [w \in Writer |-> 0]
    /\ UNCHANGED <<disk, faults, overlapped>>

-----------------------------------------------------------------------------
(* One save: clone the corpus, then open, write and rename.                *)

Alive == phase # "down"
Saving(w) == pc[w] \in {"create", "write", "rename"}

Snapshot(w) ==
    /\ pc[w] = "idle"
    /\ phase \in (IF w \in Flusher THEN {"flushing"} ELSE {"running", "flushing"})
    /\ snap' = [snap EXCEPT ![w] = corpus]
    /\ Goto(w, "create")
    /\ overlapped' = (overlapped \/ \E v \in Writer \ {w} : Saving(v))
    /\ UNCHANGED <<fd, daemon, disk, bounds>>

\* Mutant: an existing temporary file is opened without truncating it.
CreateKeep(w) ==
    /\ Alive /\ pc[w] = "create"
    /\ \/ /\ tmp # NoInode
          /\ fd' = [fd EXCEPT ![w] = tmp]
          /\ UNCHANGED <<content, tmp>>
       \/ /\ tmp = NoInode
          /\ \E i \in Inode :
                /\ i # file /\ \A v \in Writer : fd[v] # i
                /\ tmp' = i
                /\ fd' = [fd EXCEPT ![w] = i]
                /\ content' = [content EXCEPT ![i] = {}]
    /\ Goto(w, "write")
    /\ UNCHANGED <<file, snap, daemon, bounds, overlapped>>

\* File::create: an existing temporary file is truncated, not replaced.
Create(w) ==
    /\ Alive /\ pc[w] = "create"
    /\ \/ /\ tmp # NoInode
          /\ fd' = [fd EXCEPT ![w] = tmp]
          /\ content' = [content EXCEPT ![tmp] = {}]
          /\ UNCHANGED tmp
       \/ /\ tmp = NoInode
          /\ \E i \in Inode :
                /\ i # file /\ \A v \in Writer : fd[v] # i
                /\ tmp' = i
                /\ fd' = [fd EXCEPT ![w] = i]
                /\ content' = [content EXCEPT ![i] = {}]
    /\ Goto(w, "write")
    /\ UNCHANGED <<file, snap, daemon, bounds, overlapped>>

\* The bytes go to the start of the inode the writer opened; whatever longer
\* content another writer put there in between sticks out behind them.
Write(w) ==
    /\ Alive /\ pc[w] = "write"
    /\ \E kept \in {{}, content[fd[w]]} :
          content' = [content EXCEPT ![fd[w]] = kept \cup {snap[w]}]
    /\ Close(w)
    /\ Goto(w, "rename")
    /\ UNCHANGED <<tmp, file, snap, daemon, bounds, overlapped>>

\* A failed write (a full disk) returns before the rename and leaves the
\* temporary file, with some of the bytes or none.
WriteFails(w) ==
    /\ Alive /\ pc[w] = "write"
    /\ faults < MaxFaults
    /\ faults' = faults + 1
    /\ \/ UNCHANGED content
       \/ content' = [content EXCEPT ![fd[w]] = {snap[w], Partial}]
    /\ Close(w) /\ Finish(w)
    /\ UNCHANGED <<snap, daemon, tmp, file, boots, overlapped>>

Rename(w) ==
    /\ Alive /\ pc[w] = "rename"
    /\ \/ /\ tmp # NoInode
          /\ file' = tmp /\ tmp' = NoInode
          /\ flushed' = IF w \in Flusher THEN snap[w] ELSE flushed
       \/ /\ tmp = NoInode
          /\ UNCHANGED <<file, tmp, flushed>>
    /\ Finish(w)
    /\ UNCHANGED <<corpus, phase, content, fd, snap, bounds, overlapped>>

Step(w) == Snapshot(w) \/ Create(w) \/ Write(w) \/ WriteFails(w) \/ Rename(w)

Next ==
    \/ Change \/ Terminate \/ Exit \/ Exited \/ Kill \/ Boot
    \/ \E w \in Writer : Step(w)

Spec == Init /\ [][Next]_vars

-----------------------------------------------------------------------------
(* Properties.                                                             *)

Complete == file # NoInode => Cardinality(content[file]) = 1

\* "Writes JSON atomically via tmp + rename": as long as one writer saves at a
\* time, the next boot finds no chunks.json or a complete one, whenever the
\* process dies.
Readable == ~overlapped => Complete

\* The types, and a chunks.json that parses.
FilesSound == TypeOK /\ Readable

\* The same, also when the shutdown flush meets a persist task.
AlwaysReadable == Complete

\* As long as one writer saves at a time, the saves of an index, the task's and
\* the flush's, are the atomic, ever newer saves of AtomicSnapshot, through
\* kills, failed writes and restarts.
Abstract == INSTANCE AtomicSnapshot WITH saved <- Loaded(file, content)
SavesAtomically ==
    Abstract!Init /\ [][Abstract!Next \/ overlapped']_<<corpus, file, content>>

\* A clean exit does not leave chunks.json empty: a writer may truncate the file
\* the flush has published, but run_daemon's caller outlives that writer.
ExitLeavesContent ==
    [][Exited /\ faults = 0 /\ file # NoInode => content[file] # {}]_vars

\* "Persist its HNSW snapshot + chunk corpus to disk so the next daemon boot
\* warm-starts": after a clean exit the file is no older than what the flush
\* reported saved.
FlushSurvives ==
    phase = "down" => flushed <= Loaded(file, content)
=============================================================================
