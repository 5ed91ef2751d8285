----------------------------- MODULE WatchLoop -----------------------------
(***************************************************************************)
(* Keeping an index in step with files that change: the debounced watcher, *)
(* the loop that handles its events one after another, the map from files  *)
(* to the ids of their chunks, and the reindex runs that share the index   *)
(* but not the map.                                                        *)
(*                                                                         *)
(* A chunk's id is its file and lines, so contents of a file share ids:    *)
(* the index keeps under an id the content that was stored last.           *)
(***************************************************************************)
EXTENDS Walker, FiniteSets

CONSTANTS File,             \* files that may exist, records as in Walker
          Content, Absent, NoFile,
          ChunksOf,         \* the ids of the chunks of a content
          Big, Unreadable,  \* contents over MAX_FILE_BYTES; that are not UTF-8
          Minified,         \* contents that look minified
          Handles,          \* roots and filters of the index
          MaxEdits, MaxRuns, MaxRestarts, MaxFaults

ASSUME WatchAssumption ==
    /\ Absent \notin Content /\ NoFile \notin File
    /\ Big \cup Unreadable \cup Minified \subseteq Content
    /\ \A c \in Content : 0 \notin ChunksOf[c]
    /\ \A f \in File : f.dirs \in Seq(STRING)
    /\ \A h \in Handles : h.include_paths \subseteq Seq(STRING)
    /\ MaxEdits \in Nat /\ MaxRuns \in Nat /\ MaxRestarts \in Nat /\ MaxFaults \in Nat

VARIABLES
    handle,         \* root and filters, as registered
    disk,           \* what each file holds
    touched,        \* files with a change the debouncer still holds back
    queue,          \* the channel of WatchEvents
    at, path, content,      \* the loop: its step, the event's file, what it read of it
    indexed_files,  \* of each file, the ids recorded, or none
    index,          \* of each file, the content stored under each id
    payload,        \* a run's file and the content it read
    followed,       \* files that changed since the watch began
    reindexed,      \* files a run has stored
    outdated,       \* files a run has stored after they had changed
    broken,         \* files whose indexing failed
    edits, runs, restarts, faults

loop == <<at, path, content>>
ghosts == <<followed, reindexed, outdated, broken>>
bounds == <<edits, runs, restarts, faults>>
wvars == <<handle, disk, touched, queue, loop, indexed_files, index, payload, ghosts, bounds>>

Id == UNION {ChunksOf[c] : c \in Content}
Readable == Content \ Unreadable
NotRecorded == {0}
NothingRecorded == [f \in File |-> NotRecorded]

WatchInit ==
    /\ handle \in Handles
    /\ disk \in [File -> {Absent} \cup {c \in Content : c \in Readable \ (Big \cup Minified)}]
    /\ touched = {} /\ queue = <<>>
    /\ at = "recv" /\ path = NoFile /\ content = Absent
    /\ indexed_files = NothingRecorded
    /\ index = [f \in File |-> [i \in Id |-> Absent]]
    /\ payload = <<NoFile, Absent>>
    /\ followed = {} /\ reindexed = {} /\ outdated = {} /\ broken = {}
    /\ edits = 0 /\ runs = 0 /\ restarts = 0 /\ faults = 0

-----------------------------------------------------------------------------
(* The files and the watcher.                                              *)

Edit(f, c) ==
    /\ edits < MaxEdits /\ c # disk[f]
    /\ edits' = edits + 1
    /\ disk' = [disk EXCEPT ![f] = c]
    /\ touched' = touched \cup {f} /\ followed' = followed \cup {f}
    /\ UNCHANGED <<handle, queue, loop, indexed_files, index, payload, reindexed, outdated,
                   broken, runs, restarts, faults>>

\* The closure given to the debouncer: whether the file exists decides the event.
Debounced(f) ==
    /\ f \in touched /\ touched' = touched \ {f}
    /\ queue' = Append(queue, <<IF disk[f] = Absent THEN "Removed" ELSE "Modified", f>>)
    /\ UNCHANGED <<handle, disk, loop, indexed_files, index, payload, ghosts, bounds>>

-----------------------------------------------------------------------------
(* The loop.                                                               *)

remove_chunks(f, ids) == [index EXCEPT ![f] = [i \in Id |-> IF i \in ids THEN Absent ELSE @[i]]]
store_chunks(f, ids, c) == [index EXCEPT ![f] = [i \in Id |-> IF i \in ids THEN c ELSE @[i]]]

\* Mutant: the ids are read, not taken.
GetStale(f) ==
    /\ index' = remove_chunks(f, indexed_files[f])
    /\ UNCHANGED indexed_files

\* IndexedFiles::take and the removal of what it gives.
TakeStale(f) ==
    /\ index' = remove_chunks(f, indexed_files[f])
    /\ indexed_files' = [indexed_files EXCEPT ![f] = NotRecorded]

handle_removed ==
    /\ at = "recv" /\ queue # <<>> /\ Head(queue)[1] = "Removed"
    /\ queue' = Tail(queue)
    /\ TakeStale(Head(queue)[2])
    /\ UNCHANGED <<handle, disk, touched, loop, payload, ghosts, bounds>>

\* The file as it is now, whatever it was when the event was made.
handle_modified ==
    /\ at = "recv" /\ queue # <<>> /\ Head(queue)[1] = "Modified"
    /\ queue' = Tail(queue)
    /\ LET f == Head(queue)[2]
       IN IF Watched(handle, f, disk[f] \in Big) /\ disk[f] \in Readable
          THEN at' = "take" /\ path' = f /\ content' = disk[f]
          ELSE UNCHANGED loop
    /\ UNCHANGED <<handle, disk, touched, indexed_files, index, payload, ghosts, bounds>>

DropStale ==
    /\ at = "take" /\ at' = "index"
    /\ TakeStale(path)
    /\ UNCHANGED <<handle, disk, touched, queue, path, content, payload, ghosts, bounds>>

IndexFile ==
    /\ at = "index" /\ at' = "record"
    /\ index' = store_chunks(path, ChunksOf[content], content)
    /\ UNCHANGED <<handle, disk, touched, queue, path, content, indexed_files, payload, ghosts,
                   bounds>>

\* Mutant: the loop's task ends with the error.
IndexFailsEnds ==
    /\ at = "index" /\ faults < MaxFaults
    /\ \E ids \in SUBSET ChunksOf[content] : index' = store_chunks(path, ids, content)
    /\ at' = "ended"
    /\ broken' = broken \cup {path} /\ faults' = faults + 1
    /\ UNCHANGED <<handle, disk, touched, queue, path, content, indexed_files, payload, followed,
                   reindexed, outdated, edits, runs, restarts>>

\* The embedder fails at one of the chunks; those before it stay, and are not recorded.
IndexFails ==
    /\ at = "index" /\ faults < MaxFaults
    /\ \E ids \in SUBSET ChunksOf[content] : index' = store_chunks(path, ids, content)
    /\ at' = "recv" /\ path' = NoFile /\ content' = Absent
    /\ broken' = broken \cup {path} /\ faults' = faults + 1
    /\ UNCHANGED <<handle, disk, touched, queue, indexed_files, payload, followed, reindexed,
                   outdated, edits, runs, restarts>>

Record ==
    /\ at = "record"
    /\ indexed_files' = [indexed_files EXCEPT ![path] = ChunksOf[content]]
    /\ at' = "recv" /\ path' = NoFile /\ content' = Absent
    /\ UNCHANGED <<handle, disk, touched, queue, index, payload, ghosts, bounds>>

-----------------------------------------------------------------------------
(* A run of the reindexer, for one file, and a restart of the daemon.      *)

RunReads(f) ==
    /\ payload[1] = NoFile /\ runs < MaxRuns /\ runs' = runs + 1
    /\ collect_files_to_index(handle, f, disk[f] \in Big)
    /\ disk[f] \in Readable /\ ~should_skip_content(f, disk[f] \in Minified)
    /\ payload' = <<f, disk[f]>>
    /\ UNCHANGED <<handle, disk, touched, queue, loop, indexed_files, index, ghosts, edits,
                   restarts, faults>>

RunCommits ==
    LET f == payload[1]
        c == payload[2]
    IN /\ f # NoFile /\ payload' = <<NoFile, Absent>>
       /\ index' = store_chunks(f, ChunksOf[c], c)
       /\ reindexed' = reindexed \cup {f}
       /\ outdated' = IF c # disk[f] THEN outdated \cup {f} ELSE outdated \ {f}
       /\ UNCHANGED <<handle, disk, touched, queue, loop, indexed_files, followed, broken, bounds>>

\* The index is loaded from disk, the map and the events are gone.
Restart ==
    /\ restarts < MaxRestarts /\ restarts' = restarts + 1
    /\ touched' = {} /\ queue' = <<>> /\ at' = "recv" /\ path' = NoFile /\ content' = Absent
    /\ indexed_files' = NothingRecorded /\ payload' = <<NoFile, Absent>>
    \* What the index holds of any file comes from an earlier process.
    /\ followed' = {} /\ reindexed' = {f \in File : \E i \in Id : index[f][i] # Absent}
    /\ UNCHANGED <<handle, disk, index, outdated, broken, edits, runs, faults>>

WatchNext ==
    \/ \E f \in File : (\E c \in Content \cup {Absent} : Edit(f, c)) \/ Debounced(f) \/ RunReads(f)
    \/ handle_removed \/ handle_modified \/ DropStale \/ IndexFile \/ IndexFails \/ Record
    \/ RunCommits \/ Restart

\* The debouncer's timer runs, and the loop's task is polled.
WatchFairness ==
    /\ \A f \in File : WF_wvars(Debounced(f))
    /\ WF_wvars(handle_removed \/ handle_modified \/ DropStale \/ IndexFile \/ IndexFails \/ Record)

WatchSpec == WatchInit /\ [][WatchNext]_wvars /\ WatchFairness

-----------------------------------------------------------------------------
(* Properties.                                                             *)

Step == {"recv", "take", "index", "record"}
WatchTypeOK ==
    /\ handle \in Handles /\ disk \in [File -> Content \cup {Absent}]
    /\ touched \subseteq File /\ queue \in Seq({"Removed", "Modified"} \X File)
    /\ at \in Step /\ path \in File \cup {NoFile} /\ content \in Readable \cup {Absent}
    /\ at = "recv" <=> path = NoFile
    /\ indexed_files \in [File -> (SUBSET Id) \cup {NotRecorded}]
    /\ index \in [File -> [Id -> Content \cup {Absent}]]
    /\ payload \in (File \X Readable) \cup {<<NoFile, Absent>>}

\* No change of f is on its way into the index.
Settled(f) ==
    f \notin touched /\ f # path /\ f # payload[1] /\ \A i \in DOMAIN queue : queue[i][2] # f

Stored(f) == {i \in Id : index[f][i] # Absent}
Holds(f, c) == Stored(f) = ChunksOf[c] /\ \A i \in ChunksOf[c] : index[f][i] = c

\* Of a file only the watch has stored, the index has the chunks of what is on disk and
\* no other: an edit replaces them all and a deletion leaves none (handle_modified,
\* handle_removed), in whatever order changes, events and the handling of them come.
Synced ==
    \A f \in followed \ (reindexed \cup broken) :
        Settled(f) =>
            /\ disk[f] = Absent => Stored(f) = {}
            /\ disk[f] \in Readable /\ Watched(handle, f, disk[f] \in Big) => Holds(f, disk[f])

\* A file that a run would collect and that changes while it is watched is found as it is
\* now, also when runs stored it before, during or after, unless one stored what it had
\* read before the change. Roots and subtrees in a directory to skip are excepted.
Clean(h) == \A d \in {h.above} \cup h.include_paths : Range(d) \cap SKIP_DIRS = {}
Fresh ==
    \A f \in followed \ (outdated \cup broken) :
        Settled(f) /\ disk[f] \in Readable /\ Clean(handle)
        /\ collect_files_to_index(handle, f, disk[f] \in Big) =>
            \A i \in ChunksOf[disk[f]] : index[f][i] = disk[f]

\* What the map has recorded is in the index: an id nobody would remove is in no list and
\* an id in a list is removed with the file (IndexedFiles::record, take).
RecordedExist ==
    \A f \in File : indexed_files[f] # NotRecorded =>
        \A i \in indexed_files[f] : index[f][i] # Absent

\* The loop comes to the end of its events, whatever fails (spawn_watch_loop).
Drains == []<>(\A f \in File : f \notin touched /\ f # path /\ queue = <<>>)

\* What the watch alone stored is exact, what it has recorded is in the index, and what
\* runs and the watch stored together is current.
WatchSound == WatchTypeOK /\ Synced /\ Fresh /\ RecordedExist

-----------------------------------------------------------------------------
(* What comments say and the code does not do; see the README.             *)

\* FileWatcher: "keep its in-memory HNSW + chunk corpus in sync with disk", also for
\* files that a run stored.
InSync == \A f \in followed \ broken : Settled(f) /\ disk[f] = Absent => Stored(f) = {}

\* handle_modified: "the same exclusions as the recursive walker".
SameExclusions ==
    \A f \in File : Stored(f) # {} =>
        \E big \in BOOLEAN : collect_files_to_index(handle, f, big)

\* "a minified/binary/large file must not enter the index": it keeps what was there.
LargeLeaves == \A f \in followed : Settled(f) /\ disk[f] \in Big => Stored(f) = {}

\* A file the walk collects is followed, wherever the root is.
CollectedFollowed ==
    \A f \in followed \ (outdated \cup broken) :
        Settled(f) /\ disk[f] \in Readable
        /\ collect_files_to_index(handle, f, disk[f] \in Big) =>
            \A i \in ChunksOf[disk[f]] : index[f][i] = disk[f]

\* IndexConfig: "Restrict to these language identifiers". A name not in the table of
\* language_to_exts restricts nothing.
LanguagesRestrict ==
    \A f \in reindexed : handle.languages # {} =>
        f.ext \in UNION {language_to_exts(l) : l \in handle.languages}
=============================================================================
