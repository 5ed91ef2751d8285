------------------------------ MODULE Registry ------------------------------
(***************************************************************************)
(* The registry of a daemon: the in-memory map of indexes, indexes.toml,   *)
(* the data directory of every index, and the embedder without which no    *)
(* index is built. HTTP handlers run at the same time and take no lock     *)
(* around "look up, build, write the file, register"; the task that loads  *)
(* the embedder restores the registered indexes while they do.             *)
(*                                                                         *)
(* An indexer (a CodeIndexer behind its Arc) is its id and a number that   *)
(* tells it from the others of the id that are still referred to. What     *)
(* Indexer and Persist model inside of one is here only: a run or persist  *)
(* task holds it, and in the end writes the files of its id.               *)
(***************************************************************************)
EXTENDS Naturals, FiniteSets

CONSTANTS Id, NoId, Root, NoRoot,
          Directory, DirOf,  \* data directories; what sanitize_id makes of an id
          Handler,           \* HTTP requests in flight
          MaxIndexers,       \* bound on the indexers of an id that are referred to
          MaxOps,            \* bound on mutating requests
          MaxBoots,          \* bound on the starts of the daemon
          MaxFaults          \* bound on failed writes of indexes.toml

ASSUME RegistryAssumption ==
    /\ IsFiniteSet(Id) /\ Id # {} /\ IsFiniteSet(Handler)
    /\ NoRoot \notin Root /\ "torn" \notin Root \cup {NoRoot} /\ NoId \notin Id
    /\ DirOf \in [Id -> Directory]
    /\ MaxIndexers \in Nat /\ MaxOps \in Nat /\ MaxBoots \in Nat /\ MaxFaults \in Nat

None == 0
Indexer == 1..MaxIndexers
Inode == 1..(Cardinality(Handler) + 2)
Empty == [i \in Id |-> NoRoot]
Torn == [i \in Id |-> "torn"]   \* a file truncated or written in part

VARIABLES
    indexes,   \* the DashMap: id to [indexer, root], indexer None if absent
    busy,      \* indexers, as <<id, number>>, held by a run or a persist task
    disk,      \* data directory to the id whose indexer wrote it last, or NoId
    toml, tmp, inode,  \* the files' inodes, and the contents of inodes
    embedder,  \* progress of the task that loads it
    failed,    \* embedder_error is set
    todo,      \* entries restore_indexes still has to register
    restoring, \* the entry it builds an indexer for, with that indexer
    pc, req,   \* of each handler
    boots, ops, faults,
    \* history
    overlap,   \* two mutating requests (or one and the restore) were in flight at once
    missed,    \* a write of indexes.toml failed, or a kill cut a request off
    moved,     \* ids a reindex gave another root
    leftover   \* ids deleted while a run or task still held their indexer

memory == <<indexes, busy, embedder, failed, todo, restoring, pc, req>>
files == <<disk, toml, tmp, inode>>
history == <<overlap, missed, moved, leftover>>
bounds == <<boots, ops, faults>>
vars == <<memory, files, history, bounds>>

\* The directory name made of an id; different ids may get the same.
sanitize_id(i) == DirOf[i]

NoEntry == [indexer |-> None, root |-> NoRoot]
NoReq == [kind |-> "none", id |-> CHOOSE i \in Id : TRUE, root |-> NoRoot,
          indexer |-> None, entries |-> Empty, fd |-> None]
Labels == {"idle", "build", "load", "open", "write", "rename", "register", "rmdir",
           "override"}

RegistryTypeOK ==
    /\ indexes \in [Id -> [indexer : Indexer \cup {None}, root : Root \cup {NoRoot}]]
    /\ \A i \in Id : indexes[i].indexer = None <=> indexes[i] = NoEntry
    /\ busy \subseteq Id \X Indexer
    /\ disk \in [Directory -> Id \cup {NoId}]
    /\ toml \in Inode \cup {None} /\ tmp \in Inode \cup {None}
    /\ toml = tmp => toml = None
    /\ embedder \in {"loading", "slot", "list", "restoring", "done", "failed"}
    /\ pc \in [Handler -> Labels]
    /\ \A h \in Handler : pc[h] \in {"write", "rename"} => req[h].fd \in Inode
    /\ todo \subseteq Id

Registered == {i \in Id : indexes[i].indexer # None}
Listed(entries) == {i \in Id : entries[i] # NoRoot}
\* Numbers of the indexers of id i that something refers to.
Referred(i) ==
    {n \in Indexer : \/ n = indexes[i].indexer \/ <<i, n>> \in busy
                     \/ \E g \in Handler : req[g].id = i /\ req[g].indexer = n
                     \/ restoring.id = i /\ restoring.indexer = n}
Unused(i) == Indexer \ Referred(i)
Fresh(i) == CHOOSE n \in Unused(i) : TRUE
Mutating == {h \in Handler : pc[h] # "idle"}
Goto(h, label) == pc' = [pc EXCEPT ![h] = label]
Finish(h) == pc' = [pc EXCEPT ![h] = "idle"] /\ req' = [req EXCEPT ![h] = NoReq]

Init ==
    /\ indexes = [i \in Id |-> NoEntry]
    /\ busy = {} /\ disk = [d \in Directory |-> NoId]
    /\ toml = None /\ tmp = None /\ inode = [k \in Inode |-> Torn]
    /\ embedder = "loading" /\ failed = FALSE /\ todo = {} /\ restoring = NoReq
    /\ pc = [h \in Handler |-> "idle"] /\ req = [h \in Handler |-> NoReq]
    /\ boots = 1 /\ ops = 0 /\ faults = 0
    /\ overlap = FALSE /\ missed = FALSE
    /\ moved = {} /\ leftover = {}

-----------------------------------------------------------------------------
(* indexes.toml                                                             *)

\* load_index_registry: a missing file is empty, and so is one that does not parse.
Load == IF toml = None \/ inode[toml] = Torn THEN Empty ELSE inode[toml]

\* Mutant: the file is written in place.
OpenInPlace(h) ==
    /\ pc[h] = "open"
    /\ LET k == IF toml # None THEN toml
                ELSE CHOOSE j \in Inode : j # tmp /\ \A g \in Handler : req[g].fd # j
       IN /\ toml' = k /\ UNCHANGED tmp
          /\ inode' = [inode EXCEPT ![k] = Torn]
          /\ req' = [req EXCEPT ![h].fd = k]
    /\ Goto(h, "write")
    /\ UNCHANGED <<indexes, busy, embedder, failed, todo, restoring, disk,
                   history, bounds>>

\* fs::write opens and truncates: the file now called indexes.toml.tmp, or a new one.
Open(h) ==
    /\ pc[h] = "open"
    /\ LET k == IF tmp # None THEN tmp
                ELSE CHOOSE j \in Inode : j # toml /\ \A g \in Handler : req[g].fd # j
       IN /\ tmp' = k /\ UNCHANGED toml
          /\ inode' = [inode EXCEPT ![k] = Torn]
          /\ req' = [req EXCEPT ![h].fd = k]
    /\ Goto(h, "write")
    /\ UNCHANGED <<indexes, busy, embedder, failed, todo, restoring, disk,
                   history, bounds>>

Write(h) ==
    /\ pc[h] = "write"
    /\ inode' = [inode EXCEPT ![req[h].fd] = req[h].entries]
    /\ Goto(h, "rename")
    /\ UNCHANGED <<indexes, busy, embedder, failed, todo, restoring, req, disk, toml,
                   tmp, history, bounds>>

AfterSave(h) ==
    /\ IF req[h].kind = "create" THEN Goto(h, "register") ELSE Goto(h, "rmdir")
    /\ req' = [req EXCEPT ![h].fd = None, ![h].entries = Empty]

\* The write fails: the caller logs it and goes on.
WriteFails(h) ==
    /\ pc[h] = "write" /\ faults < MaxFaults
    /\ faults' = faults + 1 /\ missed' = TRUE
    /\ AfterSave(h)
    /\ UNCHANGED <<indexes, busy, embedder, failed, todo, restoring, files,
                   overlap, moved, leftover, boots, ops>>

\* The rename fails if another save has renamed the temporary file away.
Rename(h) ==
    /\ pc[h] = "rename"
    /\ IF tmp = None THEN UNCHANGED <<toml, tmp, inode>>
       ELSE /\ toml' = tmp /\ tmp' = None
            /\ inode' = [k \in Inode |->
                            IF k = toml /\ \A g \in Handler : req[g].fd # k THEN Torn
                            ELSE inode[k]]
    /\ AfterSave(h)
    /\ UNCHANGED <<indexes, busy, embedder, failed, todo, restoring, disk, history,
                   bounds>>

\* upsert_index_registry_entry and remove_index_registry_entry.
Changed(r, entries) ==
    [entries EXCEPT ![r.id] = IF r.kind = "create" THEN r.root ELSE NoRoot]

\* The file is read; a removal of an entry it does not list saves nothing.
LoadToml(h) ==
    /\ pc[h] = "load"
    /\ req' = [req EXCEPT ![h].entries = Changed(req[h], Load)]
    /\ IF req[h].kind = "delete" /\ Load[req[h].id] = NoRoot
       THEN Goto(h, "rmdir") ELSE Goto(h, "open")
    /\ UNCHANGED <<indexes, busy, embedder, failed, todo, restoring, files,
                   history, bounds>>

-----------------------------------------------------------------------------
(* Handlers                                                                 *)

Begin(h, label, kind, i, r) ==
    /\ pc[h] = "idle" /\ ops < MaxOps
    /\ ops' = ops + 1
    /\ Goto(h, label)
    /\ req' = [req EXCEPT ![h] = [NoReq EXCEPT !.kind = kind, !.id = i, !.root = r,
                                               !.indexer = indexes[i].indexer]]
    /\ overlap' = (overlap \/ Mutating # {} \/ embedder \in {"list", "restoring"})

HasEmbedder == embedder \notin {"loading", "failed"}

\* create_index_handler: 503 as long as there is no embedder, "already exists" if
\* the id is registered; neither changes anything.
Create(h) ==
    \E i \in Id, r \in Root :
        /\ i \notin Registered /\ HasEmbedder
        /\ Begin(h, "build", "create", i, r)
        /\ UNCHANGED <<indexes, busy, embedder, failed, todo, restoring, files,
                       missed, moved, leftover, boots, faults>>

\* build_indexer_with_persisted_state: a new indexer, with what the data directory
\* of the id holds.
CreateBuild(h) ==
    /\ pc[h] = "build" /\ Unused(req[h].id) # {}
    /\ req' = [req EXCEPT ![h].indexer = Fresh(req[h].id)]
    /\ Goto(h, "load")
    /\ UNCHANGED <<indexes, busy, embedder, failed, todo, restoring, files, history,
                   bounds>>

\* Whatever is registered under the id by now is replaced.
Register(h) ==
    /\ pc[h] = "register"
    /\ indexes' = [indexes EXCEPT ![req[h].id] =
                     [indexer |-> req[h].indexer, root |-> req[h].root]]
    /\ moved' = moved \ {req[h].id}
    /\ Finish(h)
    /\ UNCHANGED <<busy, embedder, failed, todo, restoring, files, overlap, missed, leftover, bounds>>

\* delete_index_handler: the rest is done only if the id was registered.
Delete(h) ==
    \E i \in Registered :
        /\ Begin(h, "load", "delete", i, NoRoot)
        /\ indexes' = [indexes EXCEPT ![i] = NoEntry]
        /\ leftover' = IF <<i, indexes[i].indexer>> \in busy THEN leftover \cup {i}
                       ELSE leftover
        /\ UNCHANGED <<busy, embedder, failed, todo, restoring, files,
                       missed, moved, boots, faults>>

\* Mutant: the data directory is left.
RemoveDataDirNot(h) ==
    /\ pc[h] = "rmdir"
    /\ Finish(h)
    /\ UNCHANGED <<indexes, busy, embedder, failed, todo, restoring, files,
                   history, bounds>>

RemoveDataDir(h) ==
    /\ pc[h] = "rmdir"
    /\ disk' = [disk EXCEPT ![sanitize_id(req[h].id)] = NoId]
    /\ Finish(h)
    /\ UNCHANGED <<indexes, busy, embedder, failed, todo, restoring, toml, tmp, inode,
                   history, bounds>>

\* reindex_handler with another root: the handle is read ...
Reindex(h) ==
    \E i \in Registered, r \in Root :
        /\ r # indexes[i].root
        /\ Begin(h, "override", "reindex", i, r)
        /\ UNCHANGED <<indexes, busy, embedder, failed, todo, restoring, files,
                       missed, moved, leftover, boots, faults>>

\* ... and registered again with the root, whoever removed or replaced it since.
\* indexes.toml keeps the old root. The run that is spawned holds the indexer.
Override(h) ==
    /\ pc[h] = "override"
    /\ indexes' = [indexes EXCEPT ![req[h].id] =
                     [indexer |-> req[h].indexer, root |-> req[h].root]]
    /\ busy' = busy \cup {<<req[h].id, req[h].indexer>>}
    /\ moved' = moved \cup {req[h].id}
    /\ Finish(h)
    /\ UNCHANGED <<embedder, failed, todo, restoring, files, overlap, missed, leftover, bounds>>

\* A run or a persist task of a registered index holds its indexer, ...
Work ==
    \E i \in Registered :
        /\ <<i, indexes[i].indexer>> \notin busy
        /\ busy' = busy \cup {<<i, indexes[i].indexer>>}
        /\ UNCHANGED <<indexes, embedder, failed, todo, restoring, pc, req, files,
                       history, bounds>>

\* ... and saves it, if the index is still registered or not: the paths are made
\* from the id, and making them creates the directory again.
Save ==
    \E n \in busy :
        /\ busy' = busy \ {n}
        /\ disk' = [disk EXCEPT ![sanitize_id(n[1])] = n[1]]
        /\ UNCHANGED <<indexes, embedder, failed, todo, restoring, pc, req, toml, tmp,
                       inode, history, bounds>>

-----------------------------------------------------------------------------
(* The embedder                                                             *)

\* install_embedder: the slot, then the cleared error and the readiness flag.
InstallSlot ==
    /\ embedder = "loading"
    /\ embedder' = "slot"
    /\ UNCHANGED <<indexes, busy, failed, todo, restoring, pc, req, files,
                   history, bounds>>

InstallReady ==
    /\ embedder = "slot"
    /\ embedder' = "list" /\ failed' = FALSE
    /\ UNCHANGED <<indexes, busy, todo, restoring, pc, req, files, history,
                   bounds>>

\* Mutant: the thread that is leaked on a time-out installs its embedder after all.
InitFailsOpen ==
    /\ embedder = "loading" /\ ~failed
    /\ failed' = TRUE
    /\ UNCHANGED <<indexes, busy, embedder, todo, restoring, pc, req, files,
                   history, bounds>>

\* The initialisation fails, panics or times out; the task ends with the error, and
\* what the leaked thread still produces is dropped.
InitFails ==
    /\ embedder = "loading"
    /\ embedder' = "failed" /\ failed' = TRUE
    /\ UNCHANGED <<indexes, busy, todo, restoring, pc, req, files, history,
                   bounds>>

\* restore_indexes, in the same task.
RestoreList ==
    /\ embedder = "list"
    /\ todo' = Listed(Load)
    /\ restoring' = [NoReq EXCEPT !.entries = Load]
    /\ embedder' = "restoring"
    /\ overlap' = (overlap \/ Mutating # {})
    /\ UNCHANGED <<indexes, busy, failed, pc, req, files, missed,
                   moved, leftover, bounds>>

\* An entry that a request has registered meanwhile is skipped.
RestoreBuild ==
    /\ embedder = "restoring" /\ restoring.indexer = None
    /\ \E i \in todo :
          \/ /\ i \in Registered
             /\ todo' = todo \ {i} /\ UNCHANGED <<restoring>>
          \/ /\ i \notin Registered /\ Unused(i) # {}
             /\ restoring' = [restoring EXCEPT !.id = i, !.indexer = Fresh(i),
                                               !.root = restoring.entries[i]]
             /\ UNCHANGED todo
    /\ UNCHANGED <<indexes, busy, embedder, failed, pc, req, files, history, bounds>>

RestoreRegister ==
    /\ embedder = "restoring" /\ restoring.indexer # None
    /\ indexes' = [indexes EXCEPT ![restoring.id] =
                     [indexer |-> restoring.indexer, root |-> restoring.root]]
    /\ todo' = todo \ {restoring.id}
    /\ restoring' = [restoring EXCEPT !.indexer = None]
    /\ UNCHANGED <<busy, embedder, failed, pc, req, files, history, bounds>>

RestoreDone ==
    /\ embedder = "restoring" /\ restoring.indexer = None /\ todo = {}
    /\ embedder' = "done"
    /\ restoring' = NoReq
    /\ UNCHANGED <<indexes, busy, failed, todo, pc, req, files, history,
                   bounds>>

\* health_handler: what it says of the embedder.
Health == IF HasEmbedder THEN "ready" ELSE IF failed THEN "error" ELSE "initializing"

-----------------------------------------------------------------------------
\* The process ends, at any point, and is started again.
Restart ==
    /\ boots < MaxBoots
    /\ boots' = boots + 1
    /\ indexes' = [i \in Id |-> NoEntry] /\ busy' = {}
    /\ embedder' = "loading" /\ failed' = FALSE /\ todo' = {} /\ restoring' = NoReq
    /\ pc' = [h \in Handler |-> "idle"] /\ req' = [h \in Handler |-> NoReq]
    /\ missed' = (missed \/ Mutating # {})
    /\ moved' = {}
    /\ UNCHANGED <<files, overlap, leftover, ops, faults>>

HandlerStep(h) ==
    \/ CreateBuild(h) \/ LoadToml(h) \/ Open(h) \/ Write(h) \/ WriteFails(h)
    \/ Rename(h) \/ Register(h) \/ RemoveDataDir(h) \/ Override(h)

EmbedderStep ==
    \/ InstallSlot \/ InstallReady \/ InitFails \/ RestoreList \/ RestoreBuild
    \/ RestoreRegister \/ RestoreDone

Next ==
    \/ \E h \in Handler : Create(h) \/ Delete(h) \/ Reindex(h) \/ HandlerStep(h)
    \/ EmbedderStep \/ Work \/ Save \/ Restart

Spec == Init /\ [][Next]_vars

-----------------------------------------------------------------------------
(* Properties.                                                             *)

AtRest == Mutating = {} /\ embedder \in {"done", "failed"}

\* "Persist the registry atomically" (persistence.rs:162): as long as requests do
\* not overlap, indexes.toml is complete at every moment, kills included, and at
\* rest lists what is registered, with the root of everything a reindex has not
\* moved; so that a restart brings back all of it and nothing else.
TomlIsRegistry ==
    ~overlap =>
        /\ toml # None => inode[toml] # Torn
        /\ AtRest /\ embedder = "done" /\ ~missed =>
              /\ Registered = Listed(Load)
              /\ \A i \in Registered \ moved : indexes[i].root = Load[i]

\* An index that is deleted while no run or task holds its indexer leaves no files
\* behind: what is created under its id later starts empty.
DeletedIsGone ==
    ~overlap /\ ~missed /\ AtRest /\ embedder = "done" =>
        \A i \in Id \ leftover : i \notin Registered => disk[sanitize_id(i)] = NoId

\* Indexers of an id that can still write its files: the registered one, and those
\* that a run or task holds.
Writers(i) ==
    {n \in Indexer : <<i, n>> \in busy \/ n = indexes[i].indexer}

\* Two indexers never write the files of one id, unless a delete found the indexer
\* held by a run, or requests overlapped.
OneWriter == ~overlap => \A i \in Id \ leftover : Cardinality(Writers(i)) <= 1

\* The files in the data directory of a registered index are its own.
OwnData == \A i \in Registered : disk[sanitize_id(i)] \in {NoId, i}

\* The files of an index are written by one indexer, the index's own, and go with it.
FilesOwned == RegistryTypeOK /\ OneWriter /\ OwnData /\ DeletedIsGone

\* Within one life, a client that is told "ready" or "error" is never told otherwise
\* later, so that it may stop polling.
HealthIsFinal ==
    [][boots' = boots /\ Health \in {"ready", "error"} => Health' = Health]_vars
=============================================================================
