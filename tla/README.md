# Formal models of trusty-search

TLA+ models of the trusty-search daemon: what each part keeps, what its
operations do step by step, and what must stay true when commits, searches,
snapshots, reindexes, subscribers, file events, starts, stops, failures and kills
interleave. TLC checks the models on small instances; TLAPS proves some of the
properties for every instance. All paths below are relative to the repository
(`src/core/...` is the directory `src/` of the crate).

## 1. The system

trusty-search is a code-search daemon. A client registers an index (an id and a
root directory), asks for a reindex, and searches. The daemon walks the tree,
cuts files into chunks, embeds them, and keeps every chunk in several
structures at once: a map of chunks, an HNSW vector index, a BM25 index, a
symbol graph and a few caches. Snapshots of two of them go to disk, so that the
next start is warm.

### 1.1 Components, their state and their operations

| Component | Source | State | Operations |
|---|---|---|---|
| Code indexer | `core/indexer/*.rs` | `chunks`, `bm25`, `store`, `chunk_embeddings`, `symbol_graph`, `entities`: one `RwLock` each; the indexer itself is behind an outer `RwLock` | `add_chunk`, `index_file`, `remove_file`, `remove_chunk`, `parse_and_embed_files`, `commit_parsed_batch`, `rebuild_symbol_graph`, `search` |
| Incremental persistence | `core/indexer/persist.rs`, `PersistState` in `mod.rs` | flags `dirty`, `in_flight`; `chunks.json`, `hnsw.usearch`, `hnsw.keys.json` | `spawn_incremental_persist`, `save_chunks_to_disk`, `load_chunks_from_disk` |
| Vector store | `core/store.rs` | usearch index, `id_to_key`, `key_to_id`, `next_key` | `upsert`, `upsert_batch`, `remove`, `search`, `save`, `load_from` |
| BM25 index | `core/bm25.rs` | slots, free list, posting lists, document frequencies, lengths | `upsert_document`, `remove_document`, `score_query_all` |
| Reindex | `service/reindex.rs` | one machine-wide permit, hash cache per index id, progress, memory flag | `spawn_reindex_with_cleanup` and its helpers |
| Progress stream | `ReindexProgress`, `reindex_stream_handler` | replay buffer, broadcast channel, status | `push`, subscribe, clean-up after a minute |
| Reindex client | `commands/reindex_engine.rs`, `commands/reindex.rs` | counters, deadline | kickoff, read the stream, verify |
| Registry | `core/registry.rs`, `service/persistence.rs` | map of live indexes, `indexes.toml`, data directories | create, delete, restore at start |
| HTTP server | `service/server.rs` | `SearchAppState`: registry, progress map, cooldowns, embedder slot | the handlers |
| Daemon lifecycle | `service/daemon.rs`, `commands/{start,stop,daemon_guard,daemon_utils}.rs` | lock, pid, port and address files | start, ensure running, flush at shutdown, stop |
| Memory policy | `core/memory_policy.rs`, `service/daemon.rs`, `commands/start.rs` | `TRUSTY_*` variables, `daemon.env` | resolve, apply, save, load, retune |
| Watch loop | `service/{watch_loop,watcher,indexed_files}.rs` | debounced channel, tracked files | handle created, modified, removed; exported, started by no command |
| File walker | `service/walker.rs` | none | which files belong to an index |
| Chunker | `core/chunker/*.rs` | none | documents by format, source files by syntax tree |
| Search | `core/indexer/search.rs`, `core/search/rrf.rs`, `core/mmr.rs`, `core/classifier.rs` | none | hybrid search, fusion, graph expansion, boosts, diversification; `global_search_handler` over all indexes |
| Symbol graph | `core/symbol_graph.rs` | nodes, edges | build under a cap, walks |
| Context inference, clusters | `core/context_inference.rs`, `core/concept_cluster.rs` | cached embedding | routing weights |
| MCP server | `mcp/*` | none | `initialize`, `tools/list`, `tools/call`: one HTTP request per tool call |
| Web UI | `service/ui.rs` | the chat provider, chosen once | chat, list of providers, static files |
| Maintenance commands | `commands/{integrate,migrate,convert}.rs` and others | the editors' configuration files | write an entry into them; register and queue the projects of another tool; diagnose |

### 1.2 How they interact

- `reindex_handler` puts a progress entry into a shared map and spawns a task.
  The task waits for the one permit, walks the tree and, batch by batch, calls
  `parse_and_embed_files` under the indexer's outer read lock and
  `commit_parsed_batch` under its write lock. Its events go to the progress
  entry, from which any number of SSE streams read; the command line is one of
  their readers.
- `commit_parsed_batch` writes the vectors, the postings, the embedding cache
  and the corpus, in that order and under separate inner locks, then asks for a
  snapshot: it sets `dirty` and, if nobody holds `in_flight`, spawns the persist
  task, which outlives the commit and takes only inner read locks.
- `index_file`, `remove_file` and `remove_chunk` change the same structures
  under the outer *read* lock, beside each other and beside searches; they ask
  for no snapshot and leave the reindex hash cache alone. The watch loop calls
  them too and keeps a map of its own from files to chunk ids.
- On SIGTERM `flush_all_indexes_on_shutdown` writes the same files as a persist
  task that may still be running.
- A delete removes the registry entry; runs and persist tasks of the index go on
  with the `Arc` they hold. Create, delete and the restore at start each load,
  change and save the whole of `indexes.toml`.
- The MCP server turns a tool call into one request of the daemon, beside other
  clients. `convert` and `migrate` send two requests per project, several projects at a
  time. `integrate` and `migrate` rewrite files that editors and users write too.
- `start` writes the variables of its shell to `daemon.env` and reads that file;
  `service install` puts those of its shell into the plist with which launchd starts
  the daemon again.
- Starts, stops and clients see each other only through files, the flock, the
  process table and the ports.

### 1.3 What is hard

Interleavings of lock sections in the vector store and in the indexer; coalesced
background saves; two writers of one file name; kills between two renames; a
cache (hashes) whose truth other calls change; a bounded buffer and a bounded
channel read by late and slow subscribers; flags read in two places at two
moments; timers that fire for something newer; caps reached by concurrent
writers; slots and keys that must not be mixed up when recycled; a registry whose
file and map are changed without a common lock; a daemon found through files that
kills leave behind; settings that pass through a file that is rewritten before it
is read; scanners and tree walks whose tables must agree in nine languages; a
ranking that is reordered in five passes; pages cut from a corpus that changes
between them; replies that must be true whatever the daemon did before it died; files
that belong to somebody else and change under the command's hands; what a restart forgets,
and what a start that is refused has changed all the same. `PROJECT.json` lists each at its line
under `hazards`, with the properties aimed at it.

### 1.4 What makes each part correct

| Part | Properties |
|---|---|
| Persistence | one task per index; a clear flag hides no unsaved batch; a task ends; a coalesced batch is saved |
| Vector store | the maps are inverse; a hit is never another chunk's; the cap is passed by less than one batch, however often the daemon restarts; fresh keys are empty; a restored pair of files mixes no chunks |
| Snapshot files | `chunks.json` is absent or complete while saves do not overlap, and those saves are atomic; a clean exit leaves no empty file |
| BM25 | equal to a capped map from chunk to terms; postings exact; the average current |
| Indexer | the structures agree on every chunk nobody works on; the cap is passed by at most the racing writers; at rest the graph is the corpus's; a search is exact for settled chunks |
| Reindex | a file is skipped only if indexed; a forced run covers the tree; every run ends |
| Progress stream, client | the replay is the latest events; streams are in order; `complete` arrives; the command ends, and says what is true of the run |
| Registry | `indexes.toml` is the registry; what is deleted leaves nothing; an index's files have one writer; `/health` does not take back "ready" |
| Daemon | one daemon at a time, named by its lock file; clients find it; `stop` ends it |
| Memory policy | the supervisor's restarts run alike, with what the operator's start saved where the agent has nothing of its own; the embedding arena stays within the limit; the tier's cap holds; the readers of the variables follow the policy |
| Chunkers | every line of a document in one chunk and no more; a declaration is never cut or lost, a call has one owner, pieces cover, ids differ |
| Watch loop | the index holds what is on disk once events are handled; events are all handled |
| Symbol graph, search | an edge has a witness, a call that resolves is an edge, walks are exact; results are the best candidates in order, with true reasons; a merge over indexes loses and invents nothing |
| Handlers that read | pages of an unchanged corpus have each chunk once; similar chunks are others, each once; the chat shows no part of an answer as the whole |
| MCP server | success is what the daemon carried out once; what is refused as malformed was never sent; a read tool changes nothing |
| Maintenance commands | a file is never torn and keeps everything of its user's; the backup holds what is replaced; the summary is true; a project reported as queued is queued for its root, which its index keeps while the daemon lives |

## 2. Plan

| # | Module | Models | State |
|---|---|---|---|
| 1 | `Persist` | dirty / in-flight protocol | checked, `PersistenceProofs` |
| 2 | `VectorStore` | lock sections, keys, two-file snapshot | checked, `VectorStoreProofs` |
| 3 | `Bm25Index` implements `Bm25Corpus` | slots and postings | checked, `SearchProofs` |
| 4 | `SnapshotFiles` implements `AtomicSnapshot` | inodes, rename, flush | checked, `PersistenceProofs` |
| 5 | `Reindex` | runs, hash cache, abort, clean-up | checked, `ReindexProofs` |
| 6 | `ProgressStream`, `ReindexClient` on top of it | buffer, channel, handler, command | checked, `CommandProofs` |
| 7 | `Indexer` | the structures among each other | checked, `IndexerProofs` |
| 8 | `Registry` | create, delete, restore, `indexes.toml`, directories, embedder | checked, `RegistryProofs` |
| 9 | `DaemonLifecycle`, `DaemonEnv` on top of `MemoryPolicy` | start, stop, discovery; caps | checked, `DaemonProofs` |
| 10 | `WatchLoop` on top of `Walker` | events, tracker, filters | checked, `DaemonProofs` |
| 11 | `DocChunker`, `AstChunker` | chunk boundaries, ids, calls | checked, `DaemonProofs` |
| 12 | `Search` on top of `SymbolGraph`, `Classifier`, `Fusion`; `GlobalSearch` | ranking | checked, `SearchProofs` |
| 13 | `HttpApi`, `McpServer` on top of it | pages, similar chunks, chat; tool calls | checked, `SearchProofs` |
| 14 | `EditorConfig`, `Conversion` | files of editors; conversion of projects | checked, `CommandProofs` |
| 15 | handlers of status, graph export and dashboard events; `doctor`, `service` | shapes of answers | only if a property is found worth its run |

Modules that are proved about use no recursive operator; each has its
parameters as `CONSTANTS` with a named assumption, one action per operation and
invariants as conjunctions of named parts.

## 3. Modules

Conventions: `MaxX` constants that the code does not have are bounds for TLC and
are commented as such; a definition whose comment begins with "Mutant:" is a
deliberately wrong variant of the definition that follows it and is used by no
specification (it shows which mistake a property would catch). Variables under
"history" in a module record what has happened, are read by no action's guard and
stand for nothing in the code.

### Persist

`dirty`, `inFlight` are `PersistState`. The committer's program counter `commit`
walks through `commit_parsed_batch`: vectors, corpus, `dirty.store`, then the
`compare_exchange` on `in_flight` that spawns a task. `task[t]` walks through the
body of the spawned task: paths, clear `dirty`, save the HNSW index, clone the
corpus, write `chunks.json`, look at `dirty` again, release. Memory and files are
sets of contents. `IndexFile` and `RemoveFile` change memory without asking for a
snapshot. A write may fail (`failures`), a path may not resolve, and `Restart` is a
kill at any point followed by a warm start. `MaxIterations` is
`MAX_COALESCED_ITERATIONS` (8 in the code, 2 in the runs: the second turn is the
first one that a flag set during a save causes, and the cap is reached). `ClonesAhead`
says that the task will clone the corpus again: it has yet to do so in the turn it is in,
or a batch was marked since the flag was cleared and the cap leaves it another. That is
what a commit that finds `in_flight` taken relies on (`CoalescedCommitSaved`).

### VectorStore

The three structures of `UsearchStore` have a lock each. One action is one lock
section: `upsert` is `UpsertResolve`, `UpsertAdd`; `upsert_batch` is
`BatchAssign` and then `BatchInsert` or `BatchRefuse`; `remove` is `RemoveId`,
`RemoveKey`, `RemoveVector`; `search` is `SearchIndex`, `SearchResolve`; `save` is
`SaveKeyMap`, `SaveIndex`, `RenameIndex`, `WriteKeys`, `RenameKeys`. A vector is
the chunk id whose text it embeds, which is all that a wrong hit is about;
distances are left out, so a search may return any stored vector. The usearch
library is external: it is taken to keep one vector per key, and to have room for what was
reserved. `upsert_batch` compares the size with the cap once and then adds item after item;
what happens to an item beyond the cap is up to the capacity that the library has, so
`InsertMapped` lets the adds stop at any point from the cap on, or go through to the last.
`LiveSpec` is one life of the process, `Spec` adds `Restart`: any end of it, and a start
that loads the pair of files whatever its size, or an empty store where a file is missing
or cannot be loaded, with another value of `TRUSTY_MAX_CHUNKS` (`maxElem`, out of `Caps`).
History: `loaded` is the size a life began with, `highest` the highest cap so far.

### AtomicSnapshot, SnapshotFiles

`AtomicSnapshot` says what `save_chunks_to_disk` promises: the file holds one
complete snapshot, each save makes it newer, a boot resumes from it.
`SnapshotFiles` has inodes, so that a writer goes on writing to a file another
writer has renamed, and a content per inode from which a torn file can be told.
The persist task and the flush share the temporary name, as they do in the code;
`overlapped` remembers that two saves have been under way at once, and
`SavesAtomically` is the refinement of `AtomicSnapshot` up to that moment.
Exiting waits for the blocking closure that runs, as the drop of the tokio
runtime does. No power cut is modelled (the code does not `fsync`, and a rename
that reached the disk before the data would be lost: a limit of the model).

### Bm25Corpus, Bm25Index

`Bm25Corpus` is a map from chunk to terms, bounded by the cap. `Bm25Index` is the
struct as a record and each `&mut self` method as a function on it: slots, the
last-in-first-out free list, posting lists (`retain_others` is the `retain` that takes
one slot out of a list), frequencies and the average length (`Total` is the sum of the
lengths). `tokenize` sorts and removes duplicates, so a document is a finite set of
terms. What is said of an index is a predicate of an index value, because an upsert of a
known id is a removal and an insertion in one step. The refinement mapping reads the map
back from the slots.

### Indexer

The corpus, the vectors, the postings, the LRU of embeddings, the entity lists
and the symbol graph, each a map from chunk id (or file) to the version of the
content it holds. A writer walks through one operation (`index_file`,
`add_chunk`, `remove_file`, `remove_chunk`) by lock section, `commit_parsed_batch`
is one step because it holds the outer lock for writing; a searcher reads its
lanes, the graph and the corpus at different moments. The embedder and the store
may fail (`faults`). `contested`, `torn`, `overlap`, `raced` and `settled` are
history: they say for which chunks the properties promise exactness. A search is
taken to ask for at least as many hits as there are.

`CapOvershoot` counts the chunks on their way into the corpus, not the writers that
bring them. With two writers the two bounds are the same; with three, two may be
bringing one chunk, which both were let through for because the corpus had it, while
the third takes it out and gives its room away, and a bound that counts it twice does
not hold. It is the attempt to prove the bound for every number of writers that showed
it; the code is the same.

### Reindex

One index and the runs asked of it. `RequestReindex` is `reindex_handler` with
its cooldown; `Start` takes the permit, walks the tree and, if forced, clears the
hash cache; `PrepareBatch`, `Commit`, `Record` and `BatchFails` are the steps of
`process_one_batch`; `AbortLoop`, `PollerTrips` and half of `Record` are the memory
protection; `RebuildGraph`, `SetStatus`, `EmitComplete`, `EndRun` finish the run.
Around it, files change on disk, single-file calls change the corpus, and the
index is deleted and created again (`gen` is the registered incarnation; each has
a corpus of its own and a run keeps the one it was started for). A file's content
is one chunk; as chunk ids are made of a path and a line range, the chunk of a new
content may replace an old one or stand beside it. Runs of other indexes appear
only as delays. The root override of `reindex_handler` is in `Registry`; timings and
counters are left out.

### ProgressStream, ReindexClient

One run pushes numbered events: `AppendEvent` (under the buffer's lock) and
`SendEvent` (to the channel) are separate steps, and the status becomes final
before the last event. A subscriber's handler takes the entry, the snapshot of the
buffer, the status and the subscription in four steps. The broadcast channel is
external and modelled by what tokio documents: it keeps the latest `Capacity`
events, tells a slow receiver how many it lost, and closes when every sender is
dropped. Lag frames are counted in `lag`.

`ReindexClient` extends it with the command that is one of the subscribers:
`Kickoff` (or `KickoffLost`, when the answer misses the five seconds and the run
goes on), `Connect`, `ReadFrame` for each frame, `Deadline` (only with a limit),
`StreamBreaks`, the end of the stream, and the health check of `index --force`. Where a
newer run's entry has taken the place of this run's, `reindex_stream_handler` attaches to
the newer run; the module has the events of one run only, and there refuses the stream.
What the terminal shows is reduced to `indexed_now` and `chunks_now`, the two
counters of `reindex_engine.rs`.

### Registry

Handlers walk through create (with its build, the load, change and save of
`indexes.toml` through one `indexes.toml.tmp`, and the registration), the root
override of a reindex, and delete (registry, file, data directory); the task that
loads the embedder installs it and restores entry after entry beside them. `inode`
tells a torn temporary file from a complete one, as in `SnapshotFiles`. `busy`
holds the indexers that runs or persist tasks still refer to: in the end they
write the files of their id, into a directory that `sanitize_id` chooses (`DirOf`;
`const_DirCollide` in `MCRegistry` maps two ids to one directory). An indexer is a
number that nothing refers to when it is made (`Unused`, `Fresh`); when `MaxIndexers`
of an id are in use none is built. History:
`overlap` (two mutating requests, or one and the restore, at once), `missed` (a
write of the file failed), `leftover` (a delete found the indexer held), `moved`.

### DaemonLifecycle

Every `start --foreground` goes through the pid check, the reaping of orphans, the
open and the flock of `daemon.lock` (a flock is on the inode, not on the name,
which others unlink), the pid, the walk over ports, the port and address files,
serving and, after SIGTERM, draining, flush and clean-up. `stop` signals what it
finds, waits, kills and removes the files; a client resolves an address from the
files, probes it, starts a daemon if there is none and polls. Foreign programs take
and leave ports; SIGKILL may come at any moment. The wait of `stop` is bounded by
five seconds in the code; here its end is a step that may come at any time.

### MemoryPolicy, DaemonEnv

`MemoryPolicy` is arithmetic: tiers, caps, what each reader makes of an unset, a
garbled, a zero and a proper variable, in megabytes. `DaemonEnv` goes through a
start: which variables the shell sets, the `--device` flag, `Save` and `Write` (open and
truncate, then write: a kill in between leaves an empty file, and `SaveFails` leaves it as
it is at that point), `Load`, the policy, `EmbedderUp` with the retuning for a GPU. A
supervisor starts the daemon again with what its agent has (`Respawn`): `agent` is the
plist, which `InstallService` fills with the variables of its shell; a systemd unit, and a
plist that was installed from a shell without variables, has none. A start that finds the
daemon running is refused only after it has written `daemon.env` (`RefusedStart`,
`RefusedWrites`, or `RefusedDies` before it has written what it truncated the file for); one
whose daemon ends before it looks goes on as a start of its own, and is one in the model.
The RAM may change between starts. History: `lasts` says that the supervisor's restarts
are to run as this daemon does, `seen` with which caps the first of those ran that came up,
`pin` which device an operator's start saved. `HF_HOME` in the plist and the removal
of the agent are left out.

### Walker, WatchLoop

`Walker` has the predicates that decide whether a file belongs to an index: names
of directories and files, extensions, globs, include paths, languages, the look of
the content. Each long list stands for itself by one member. `WatchLoop` has
the files on disk, what is touched and not yet debounced, the channel, the loop's
program counter inside `handle_modified` and `handle_removed`, the map of indexed
files and the chunks of the index; runs read and commit beside it without telling
the map, failures leave a file half done, and a restart forgets the map.

### DocChunker, AstChunker

A document is a sequence of lines; a line is what the scanners look at. One step of
`DocChunker` adds a line or ends the file, and the scanner of the extension is a
fold over the lines with the variables of its loop. `AstChunker` has the tree that
the grammar would build as a sequence of nodes with parents, spans and kinds (the
grammars are external), and the walk with its tables of kinds per language, the
line numbers from byte offsets, the collection of calls, the ids, and the pieces of
long chunks.

### SymbolGraph, Classifier, Fusion, Search, GlobalSearch

`SymbolGraph` is the construction of nodes and edges under the node cap and the
walks; a name is a sequence of parts so that resolution by suffix is what the code
does with strings. `Classifier` is the order of the tests, a text being the set of
patterns it has. `Fusion` is RRF in integers, exact for the first ranks (`RankUnit`); a list sorted by an
order is the sequence of its members by their number of predecessors (`Arranged`). `Search`
is one search, stage by stage, from the lanes (any rankings, a stale id included) to
the results. `GlobalSearch` is `global_search_handler`: the list, the context
weights, the routing, one future per index with deletions in between, the pairwise
fusion (`FusedUpTo`, a recursive function of the number of lists).

### HttpApi, McpServer

`HttpApi` has the handlers that read beside the clients that change: a pager that asks
for page after page (each a sorted copy of the corpus, cut), `search_similar` in its five
steps (find the chunk, take the embedding, ask the vector store, collect from the
corpus, answer), and the chat, whose provider is resolved once and kept, with the
stream of its answer. A handle is one life of an index; the corpus is a sequence because
a hash map yields some order, which insertions and restarts may change. What a loop takes
from a sequence is given by the positions it takes (`Picked`).

`McpServer` puts the tools in front of it. A message goes through the checks of
`dispatch` in their order; `SendFails`, `Carry`, `DaemonKilled` are what may become of the
request, and `Reply` makes the answer of what came back. Names are put into the path of a
URL as they are; `Segment` says which index such a path leads to. The framing of stdio
and SSE is external.

### EditorConfig

A file is missing, garbled, something that is no object, or an object with its servers
and the rest. A command takes its files one by one: read and decide, create and fill
the backup, create and fill the temporary file, rename. Between any two of these the
user or an editor may write the file (`EditConfig`), a call may fail, the command may be
killed. History: `yours` (what the user wrote last), `raced` (files edited between the
command's read and its rename).

### Conversion

`convert` and the index phase of `migrate`: each project is a task that takes a permit,
parses its configuration, asks for the index, asks for the reindex. The daemon is
reduced to what these two requests read and write: the roots of its indexes, `recorded` (the
same in `indexes.toml`), the embedder, the cooldowns. A create looks for the id, awaits the
build, reads the file, writes it, registers. A reindex with another root registers the
index again and leaves the file as it is (`Override`). When the daemon dies its indexes,
cooldowns and unfinished requests go with it; the next one restores entry after entry from
the file (`RestoreLooks`, `RestoreRegisters`) once it has its embedder, beside creates
that may be ahead of it. Others create and delete indexes meanwhile (`touched`; each of
these in one step, as the races of two requests for the file are the subject of
`Registry`), and replies are lost. `steady` is history: the daemon has had all its indexes
since the command began.

## 4. Runs

Every run sets `CHECK_DEADLOCK FALSE`: each model is finite by its bounds, or comes to
rest when nobody asks for anything, as the daemon does.

Components that do not interact share a run: `MCSearch`, `MCFiles`, `MCDaemon` and
`MCCommands` extend several modules, and a part moves only while the others are at their
beginning, so that each part is explored completely and the states add up instead
of multiplying. Several invariants are conjunctions of named parts (`WatchSound ==
WatchTypeOK /\ Synced /\ Fresh /\ RecordedExist`), the type invariant among them;
each part is stated and commented on its own, and a definition marked "Mutant:"
stands near the code it would break.

| Run | Bounds | Shows |
|---|---|---|
| `persist` | 1 batch that may be committed again and again, 1 edit, 2 task slots, 2 turns, 1 I/O failure, 1 kill | one task at a time; a clear flag hides nothing; tasks end; a coalesced batch is saved |
| `vector_store` | 3 ids, 2 writers, 1 searcher, 2 savers, caps 1 and 2, batches of up to 2, 4 keys, 1 kill (races of writers and searchers without saves, and one writer with two overlapping saves, a kill, and what a writer does under the cap of the next life) | maps, hits and fresh keys under interleaved calls; the cap, which a batch and a saved index may pass, within one batch; any pair of files that one life leaves is safe to load |
| `snapshot` | persister and flush, 2 changes, 2 boots, 1 failed write; 4 configuration files from 4 beginnings, 2 commands, 1 edit, 1 fault, 2 seconds; 4 projects, two of one name and one unreadable, 1 or 2 permits, 2 moves of others or kills, or 1 of these and 1 lost reply or failed write | `chunks.json` complete and saves atomic while they do not overlap; a clean exit leaves no empty file even when they do; editors' files; statuses and summary of a conversion are what the daemon took, through a restart and its restore |
| `snapshot_torn` | persister and flush, 3 changes | **violated**: `AlwaysReadable` |
| `reindex` | 2 files, 3 contents, 2 runs, batches of 1, 1 hash kept, 1 edit, 2 incarnations | a file is skipped only if its content is indexed |
| `reindex_force` | 2 files, 2 runs, batches of 2, cap 2, 1 single-file call | a forced run covers the tree; every run ends |
| `stream` | 6 events of which 3 are batches, buffer 2, channel 2, the command as subscriber | replay and order; what the command shows and returns; both ends |
| `indexer` | 3 chunks of 2 files, 2 writers, 1 searcher, cap 2, cache 1, graph 2, 3 operations (2 with a search), 1 failure | the structures, the graph and a search |
| `registry` | 2 ids, 2 roots, 2 handlers, 3 operations, 2 boots, 1 failed write | file, registry, directories, health |
| `daemon` | 2 starts, 1 `stop`, 1 client, 2 ports, 2 foreign moves, 1 kill; 5 shells, 3 sizes of RAM, 3 starts and installs after any first install | one daemon, found and stopped; restarts run alike, and the caps |
| `files` | documents of up to 5 lines in all formats; trees of up to 3 nodes in 6 languages; 2 files, 4 contents, 5 configurations, 3 edits, 1 run, 1 restart, 1 failure | chunk boundaries; the watched index |
| `search` | BM25: 4 ids, 2 terms, cap 3; graphs of all corpora of 4 chunks out of 9; 9 requests; global: 3 indexes, 7 requests; readers: 3 names, 2 lives of an index, 3 changes, pages of at most 2, an LRU of 2; 2 tool calls | lexical index, graph, results, merge; pages, similar chunks, chat; replies to tools |

Why the bounds are enough: two actors of a role give every race of two; the
caps are below the number of things that compete for them, so that they are
reached, passed over and left again (`Cap`, `Caps`, `MaxReplay`, `Capacity`,
`MaxHashes`, `CacheCap`, `SnapshotCap`, `LruCap`, `MAX_CHUNKS_LIMIT`); three ids over a cap of two recycle a slot
under an id that did not have it; one kill separates what is durable from what is
not, and two boots let a damaged file meet the code that writes the next one. In
`vector_store` a batch is larger than the room the lower cap leaves, and the two caps let a
life find an index beyond its own. In a conversion two moves are a kill and what another
client does before or after it; of the caps three starts are an operator's, one that is
refused or an install, and the restart that shows what these have changed, on RAM just
below the least, at it, and in the next tier. Five
lines let every scanner open, close and reopen its state; three nodes are a
declaration in a declaration with a call; four chunks are a cycle of two symbols,
one beyond the cap and one that is no symbol; two commands let the second meet what the
first one, killed or failed, left. In `reindex` the cap is
out of reach and no single-file call is made, because both make the hash cache
wrong (section 6); `reindex_force` has both. Symmetry is used only in
runs without liveness properties, and over sets whose members are only compared
for equality; in `snapshot` a new file gets the first inode that is free (`NextFree`) instead. The
`--device` flag of `daemon` asks for a CPU or for nothing, a GPU is asked for by a shell.

### Fairness

- `Persist`: weak fairness of a commit that has begun and of each spawned task: the
  tokio runtime polls them until they finish. Nothing is assumed of new commits,
  edits and kills.
- `Reindex`: weak fairness of the steps of the run that holds the permit; strong
  fairness of `Start`, since tokio's semaphore is a queue: a waiter gets the permit
  after those before it. No fairness of the poller, of clients or of edits.
- `ProgressStream`, `ReindexClient`: weak fairness of the run, of the clean-up timer,
  of a handler that has begun, of a stream whose client reads, and of the command's
  own loop. No fairness of the deadline (there may be none), of a lost answer or of a
  broken connection.
- `WatchLoop`: weak fairness of the debouncer for each file and of the loop. Edits
  come at will.
- `DaemonLifecycle`: weak fairness of a start and of a shutdown that can go on, and of
  a `stop` that has begun (it waits for a bounded time). None of clients, kills,
  foreign programs, or of the end of a stream that keeps the daemon from draining.

No other module states liveness.

## 5. Proofs

Checked by TLAPS for every value of the constants that satisfies the modules'
assumptions.

**PersistenceProofs**, of `Persist` (`PersistSpec`, kills and failures included).
`TypeCorrect`, `SingleTask` (`AtMostOneTask`), `CleanFlagIsDurable` (`CleanIsDurable`).
`AtMostOneTask` is not inductive: nothing in it forbids a free flag beside a live
task. `FlagMatchesTask` adds that `in_flight` is set exactly while a task is alive.
`CleanIsDurable` speaks of quiet states only; `Covered` says what a clear,
unwarned flag promises at each point of the task's loop: which of the two files is
already current, and whether the clone of the corpus is, except for the one batch
(`Pending`) that the committer has put into memory and not yet marked. Clearing
the flag *before* the save begins is what makes it inductive.

**PersistenceProofs**, of `SnapshotFiles` (`Spec`, kills, failed writes and
restarts included). `FilesAreSound` (`FilesSound`) and `SavesAreAtomic` (`SavesAtomically`, the refinement of
`AtomicSnapshot`). `Readable` says nothing of the temporary file, and a rename makes it
the published one; the invariant adds that the two names never lead to one inode
(`TwoInodes`: so truncating the temporary file cannot hurt the published one), what a
save that is alone knows of the temporary file after each of its steps (`Opened`,
`Filled`), that its clone is neither older than the file nor newer than the corpus
(`Newer`), and, whether or not saves overlap, that bytes come from some snapshot
(`Written`: a file that parses loads as a version). `Opened` and `Filled` fail as soon
as a second save opens the same name, which is the counterexample of `snapshot_torn`.

**VectorStoreProofs** (`Spec`, restarts included). `TypeCorrect`, `MapsAgree`
(`KeyMapsAgree`) and `Bounded` (`SizeBounded`) hold in every life of the process. The
forward map has an inverse entry below `next_key`, an inverse entry without forward entry
is one a `remove` is about to drop (`Forward`, `Backward`, `Removing`), and, since a start
reads what a save left at any of its steps, the same holds of every map that is cloned,
written or renamed (`SoundMap`). The size is bounded because one add of `upsert`, or one
batch, begins under the lock with an index below the cap, and adds no more than its items;
`SizeInv` carries this to what is saved (`SavedSize`: below the highest cap by what one
batch adds), from where a life with a lower cap may start beyond its own, and stay there.
`SearchNeverMixes` (`HitsBelong`, of `LiveSpec`), `KeysAreFresh` (`FreshKeysEmpty`) and
`RoundTrips` (`RestoreRoundTrips`) rest on more, which only one life has: every key has
one owner for ever. `Owned` names a function from keys to owners and says that the current
maps, the saved maps, the index, the saved index and what every upsert and search
remembers between two lock sections agree with it; handing out a key extends it and no
step changes it, so that index and sidecar of different saves go together. A kill between
the renames of the two hands out owned keys again, and the invariant, like `NeverReused`
(section 6), ends there (`OneLife`).

**SearchProofs**. `Bm25Sound` (`IndexSound`) and `Bm25ImplementsCorpus`
(`ImplementsCorpus`, the refinement of `Bm25Corpus`), for any ids, any finite vocabulary
and any cap. `IndexInv` adds to the properties what a removal reads of the slots: that a
free slot has no terms and no length left (`SlotContents`), without which the next
document in it would inherit postings. The insertion and the removal are shown to keep
it and to change the documents as the abstract map does, and an upsert of a known id is
the one after the other. The lemmas are about posting lists (taking one slot out of a
list without repetition leaves such a list, `RetainOthers`) and about the sum of the
lengths after one of them changes.

The same module has `AgentsTold` (`ToolsSound` of `McpServer`, whose steps go on beside
every step of the daemon's other clients), for any names, any contents of the indexes and
any number of messages. The properties speak of a call that was answered; the invariant
`CallInv` follows it from its first check. While it is under way (`Underway`) it is not
sent unless it is the call of a tool with all that the tool needs, it is carried out once,
for the index its name addresses, and it touches an index only if the tool may; the reply
says what has become of it (`Replied`). That an answer with 200 and a body is the only one
told as success is `ReplyKeeps`; that each handler changes the index of a writing tool
only is `Handled`, over every answer the daemon can give.

`ReadersAreTold` (`ApiSound` of `HttpApi`) is about the other clients, for any indexes, files
and contents, sizes of a page and of the LRU, and any number of changes, failed batches and
restarts in between. Each page is cut from a new sorted copy of a map whose order may have
changed, so the invariant names what all copies have in common: where no two chunks have
the same file, first and last line, the copy is the one sequence in which every chunk
stands at its rank (`InOrder`; `OrderedIs`, from `RankBijection`: in a strict total order of a
finite set every rank is taken once), and the pages so far are its beginning (`Pages`). Of
a request for similar chunks it says that the hits are the first of a ranking of vectors
nobody has changed since, or that somebody was at work (`Following`); that the loop then
takes as many as there are is a matter of counting positions (`CollectIs`,
`WantedMany`). Of a chat: whose key it takes was settled when it began (`Payer`), and the
reply is what was said so far (`ChatOK`).

`AnswersMerge` (`GlobalSound` of `GlobalSearch`) is for any indexes, contexts, requests,
lists that the searches bring, and deletions at any moment. Of the constants it assumes
that two ranks the fusion compares have two scores (`RanksDiffer`; with `f32` scores of
`1 / (60 + rank)` they do far beyond any `top_k`). That what is routed away weighs no more
than what stays is a matter of the ranks of a strict order (`RankBijection` again). The
pairwise fusion is a recursive function of the number of lists. What it has kept after `n`
of them is, up to the oversample, a merge of the first `n` (`FusedOK`); one more list keeps
it so (`FusedGoesOn`), because the scores of two disjoint lists fall along each of
them; and, since induction over data is out of reach, `FusedIs` takes the least number
of lists for which it would fail (`LeastMember`). The last cut, at `top_k`, is below the
oversample, so the answer has `top_k` chunks, or all that were brought if they are fewer.

`GraphIsSound` (`GraphSound`, of `SearchSpec`) is for any corpora, caps and hops, and for
every table of last parts that a build may come to, the order of a hash map being
arbitrary. The invariant is that the graph is one a build makes (`GraphInv`); what there is
to prove is what builds and walks do. The recursive functions of a natural number are
reached by a least counterexample (`UpTo`), for which a function that satisfies the
recursion must be shown to exist (`Recursion`). So a fold of lists has the members of its
parts (`FlattenIs`) and a filter those of the list that it lets through (`KeptIs`);
registration keeps each name once and within the cap, and leaves out a name only if it is
empty or the graph was full (`NodesAre`); the edges are the ones the chunks account for,
not more (`GraphsAreBuilt`). Of a walk, `WalkFits` says that it has visited what it has noted, each
node once; one more level adds what the steps from all visited nodes lead to, although it
expands the newest only, because a level is closed under the steps of earlier ones
(`Levels`). The callers of a symbol are those it is a callee of since n steps may be split
at the first as well as at the last (`ReachFirst`, `ReachTurned`).

`ResultsAreSound` (`ResultsSound`, of `SearchSpec`) is for any corpora, rankings of the
lanes and weights, and any requests that are a `SearchQuery`, which `SearchAssumption`
asks of them. The invariant `HitsInv` says stage by stage what lanes, candidates and graph
ids are: the lanes are of the corpus (`LanesFit`), the candidates have scores and stand in
the order of these (`HitsFit`, `InTurn`). The diversity pass, a recursive function, is
reached by a least counterexample and keeps what it is given (`RerankIs`, `OneIsLeft`).
One step of a walk along calls notes exactly the nodes a call joins to one of the
seeds (`NearIs`, `ExpandedIs`), and each is added at the best score a seed gives
it (`KgExpandIs`, `Added`). Whoever is ahead of a chunk of the branch with the boost is
ahead of it without (`BoostMoves`, by `Scaled`); the place of a chunk in a sorted list
counts who is ahead, so by an injection (`NoLater`) the boost takes no chunk of the branch
back, neither among all nor among those that still have a chunk (`KeepsPlace`, `BoostIs`).

**CommandProofs** (`ClientSpec`, the stream and the command together). `StreamOrder`
(`StreamsInOrder`), `CommandTold` (`ClientTold`), `ShownForward` (`ProgressForward`, an
action property). That a stream repeats at most what lies between snapshot and
subscription follows from where the subscription started and how far the channel has got
(`Subscribed`), that the snapshot itself has no repetition (`Replayed`), and what a stream
that closes has seen (`Finished`). The command's counters are off by at most the one event
that came twice (`Counted`). `ClientRunsStream` shows that the composition implements the
specification of the stream, so that the stream's invariant need not be proved twice.

The same module has `ConversionsTold` (`ConversionSound` of `Conversion`), for any projects,
among them some of one name, any number of permits, lost replies, other clients and lives
of the daemon. The property speaks of projects that are done; `ConvInv` says what the stage
of each knows of the daemon (`TaskOK`): that a create which is about to register found no
index there, that an answer "already registered" goes back to an index from before the
job, in both cases of names nobody else had to do with. Which root an index may have after
a restart depends on every copy of the file that somebody has read and will still use: the
file itself, what the restore has left to do, and what each create has loaded (`Filed`). In
each, and in memory (`RootsKept`), a root is of a project whose create has come far enough
(`Ours`) or is from before the command; while the daemon has had its indexes all the time
(`Steady`: none restores then) the file's old root is ruled out. The summary adds up because each project of the job ends with one of
four statuses (`Summed`, by `TwoAddUp`).

`UsersFilesKept` (`ConfigsSound` of `EditorConfig`) is for any contents the files may have
(`ConfigAssumption`: each is missing, garbled, something that is no object, rules, or an
object), and any number of commands, edits, failed calls and kills. The property speaks of
the file at its rename; `ConfigInv` follows it from the read (`AtHand`): the command holds
what is there, or somebody edited the file since and it counts as edited; from its
backup's end on the backup holds the same, and the temporary file what is written of it.
What is written keeps what the read document kept (`RewriteKeeps`). What the summary will
say is true from the moment a file is reported (`SaidOf`), since no list has a file twice.

**ReindexProofs**. `ForcedCovers` (`ForcedRunCovers`) and `HashCacheHolds`
(`HashCacheSound`). Only one run is at work at a time (`Exclusive`); what a forced run has
not indexed is still in its walk or in its batch (`Covered`), for which a batch must be
what the disk had (`BatchIsDisk`), no hash of a file ahead may be known (`FreshHashes`),
and the way the loop ended must be known (`LoopEnds`). For the hash cache: a commit comes
before its record (`RecordedAfter`), and what the cap drops shows in the number of chunks
for ever after (`CommitGrows`), since in that life nothing removes chunks.

**IndexerProofs**. `InSync` (`StructuresInSync`) and `Exact` (`SearchExact`), for any number
of chunks, operations in flight, searches and failures. The property speaks of moments of
rest; the invariant `SyncInv` says what holds between any two lock sections: two
operations share only contested chunks (`Owners`); each structure holds of a clean chunk
what the stage of its operation says (`During`); while operations do not overlap, the
room that was checked is still there (`Progress`), so that `Bm25Index` refuses nothing
that the corpus takes and the postings follow the corpus; the chunks of the corpus and
those on their way fit into the cap and one chunk for each other writer; and a snapshot
of the graph taken alone stays current until it is installed (`Rebuilt`). One lemma per
lock section shows that the step keeps it; what the steps share is in `ChunkNext` (a step
touches of another's chunk at most the cached embedding), `SerialNext`, `CapNext` and
`RebuiltNext`. The caps of a commit are `CappedIs`: what a cap kept once it keeps again,
so the second cap of a batch takes nothing. For searches, `Searched` adds that the vector
lane alone makes a search complete about the chunks nobody works on.

**RegistryProofs**. `TomlTrue` (`TomlIsRegistry`), `FilesTrue` (`FilesOwned`, for a
`sanitize_id` that gives no two ids one directory, and its other parts for any),
`HealthTrue` (`HealthIsFinal`, an action property). The properties speak of moments of
rest; the invariant `RegistryInv` says what a request that is alone may count on between
two of its steps, and nothing of requests that overlap, for which the code promises
nothing: its id is not registered and the temporary file is its own (`Sole`); what it
writes is what it read with its change (`Ahead`); registry and file differ by the request
under way, or by what the restore still has to register (`Listing`). `Held` is what makes
one writer of many: an indexer that is held is the registered one, but for ids whose
delete found theirs held. `Gone` lets the files of an id outlive its entry in the file only
for the delete that is about to remove them. `QuietStep` is the step common to a request
that changes neither registry nor listing.

**DaemonProofs**. `OneDaemonFound` (`DaemonSound` of `DaemonLifecycle`) and `CapsAreSound`
(`CapsSound` of `DaemonEnv`). `Singleton` says nothing of a process that has not locked
yet, and two of those may be waiting with different inodes in hand. The invariant
`LifeInv` separates what is so however starts interleave from what is so while they do
not. Always: who is past the lock has its flock and, later, its pid in the inode it
locked (`Process`), and a flock is held by who has the inode open (`Locks`). While no two
starts are under way at once (`Alone`): one process at most is anywhere between its pid
check and its end, and the name daemon.lock leads to what it opened. That is what the pid
check is for: a process past the lock is named by the file and alive, so the check of
another fails (`PidCheckStep`), and the removals of a reaping or of a stale lock find
nobody whom they rob (`ReapStep`, `StaleStep`). A new lock file needs an inode nobody has
open, of which there is one for any number of processes (`FreeInode`). What follows for
clients is `PortKnown`: the port file has the port of whoever is about to serve, until a
`stop` takes it. For the caps, what a restart will find is
either the agent's variables or, where it has none, those of the file (`Back`). `Boots`
says that while a start is under way that may write the file restarts go by, nothing has
been seen, and that a daemon which lasts has, when its policy is resolved, exactly the
persisted variables of `Back`; `SeenTrue` that what was seen is what these lead to
(`EffectiveCaps`); the policy gives the same to two environments that differ in what is not
persisted (`Alike`), but for the switch. Installs, refused starts and failed writes end
`lasts` or clear `seen`, as the property says they do. `Resolved` keeps what the
embedder's arena and the readers rest on.

The same module has `FollowsFiles` (`WatchSound` of `WatchLoop`), for any files, contents,
filters and number of edits, runs, failures and restarts. The property speaks of files with
nothing on their way; `WatchInv` says what holds between two steps: the last event of a
file in the channel is true of it unless the file has changed again (`EventsTrue`), so what
the loop has read is what is on disk, or another event follows (`ReadTrue`); of a file that
only the watch has stored the index has what is recorded, and what is recorded are the
chunks of one content, but for the moment between storing and recording (`Owned`,
`Recorded`). `InStep` and `Current` are `Synced` and `Fresh` without regard to a run that
has read and not yet stored. That the walk finds only what the watch lets in, where no
root or subtree has a name to skip, is `WalkedIsWatched`.

`DocsAreExact` (`DocChunksExact` of `DocChunker`) is for files of any number of lines in
each of the formats, any names and any sizes of windows and paragraphs that fit
`DocAssumption`. The property speaks of the whole file; since a step reads one line,
induction over the lines is the invariant `DocInv`. What has been cut lies, in order,
before the scanner's cursor (`Cursor`). The open section of a document starts with its
header and under its name, every header before it has its chunk, and `in_code_fence` is
the parity of the fences read (`SectionInv`); an open paragraph has no blank line
(`PlainInv`); where a line has one tag at most, `depth` is the number of open elements, the
open child began one below the root and has not come back to it, and the chunks are the
children that have (`XmlInv`). What follows the loop closes what is open
(`SectionClosed`, `PlainEnds`, `XmlEnds`), and a file that gave no chunk had nothing it
could be cut at, and so becomes one (`WholeEnds`). That windows and the pieces of a
paragraph leave no line out is arithmetic (`WindowsAre`, `PiecesAre`); ids differ because first
lines do.

`AstChunksAreExact` (`AstChunksExact` of `AstChunker`) is for every tree of every language,
any bytes of the file and any limits. It assumes of the extensions that each has a
language (`ExtensionAssumption`: `language_for` sends a file without one to the other
chunkers). The invariant `AstInv` is short: a node of the tree comes after its parent and
spans bytes of the file (`TreeInv`), and the chunks are the cutting of what the walk finds in
the tree as it is. The argument is in what these compute. Of two nodes that a node is in,
one is in the other (`AboveIs`). The tables of the fourteen languages agree (`Tables`, one
lemma for each): a node whose chunk is a function stops the walk, in Ruby ends the
collection of calls, and nothing else stops the walk; so a call is in one function at most
and no function is in another chunk (`FunctionsApart`). The binary search of a byte among the line
offsets counts the line ends before it (`LineIs`). What was found is listed once each,
in the order of the tree (`FoundAre`), and flattening gives each its place after its pieces
(`Flattened`, `LaidOut`), which the number of windows makes reach its last line (`WindowsEnd`,
`SplitIs`).

Only model-checked: every liveness property (fairness and ENABLED are out of the
prover's reach). Induction over data as such is out of reach; a recursive function of a
natural number is reached through a least counterexample, as the fusion, the diversity
pass, the walks of the graph, the nodes of the syntax tree and the flattening of chunks
are, and the scanner of documents through its steps. No module declares a recursive
operator.

## 6. Known divergences between code and documentation

One is checked by a run and recorded as a finding: `AlwaysReadable`
(`snapshot_torn`). The save is documented as atomic; the shutdown flush and the
persist task share `chunks.json.tmp`, and one may rename the file that the other has
just truncated.

The modules state further properties that documentation or comments claim and
that the code does not have. TLC refutes each when it is put under `INVARIANT` (or
`PROPERTY`, marked P) of the configuration named:

| Property | Configuration | What happens |
|---|---|---|
| `Converges` (P) | `MCPersist.cfg` | a commit that sets `dirty` after the task's last look at it and before the release of `in_flight` starts no task and is seen by none (`PersistState`: "converges to the latest in-memory state") |
| `OnlyInFlightBatchLost` | `MCPersist.cfg` with `Batch = {b1, b2}`, `Edit = {}`, no faults or crashes | saves coalesce, so a kill loses every batch committed since the last clone, not only the one in flight (`ingest.rs:501-502`) |
| `NeverPastCap` | `MCVectorStore.cfg` | a batch that begins below the cap goes past it where the library has the capacity: "once the index would grow past this many vectors, subsequent inserts return an error" (`store.rs:34-37`) is checked once per batch |
| `NeverReused` | `MCVectorStore.cfg` | a kill between the renames of index and sidecar makes `next_key` hand out keys that the restored index still holds (`store.rs:120-121`) |
| `NoOrphanAtRest` | `MCVectorStore.cfg` | an upsert and a remove of one id leave a vector that no id leads to |
| `UpdatesNeverRefused` (P) | `MCVectorStore.cfg` | near the cap `upsert_batch` refuses a batch of updates (`ingest.rs:416-419`) |
| `FlushSurvives` | `MCCommands.cfg` | a persist task renames its older snapshot over the one the flush published (`daemon.rs:514-515`) |
| `HashMeansIndexed` | `MCReindex.cfg`; with `MaxCalls = 1` or `Cap = 1` in one life of the index too | the hash cache, documented as "a pure speed optimisation", survives the delete of its index; a remove-file call, or the cap, takes the chunks of a file whose hash stays or is recorded: the next run skips it |
| `EventAgrees` | `MCReindex.cfg` | the poller trips after the last batch: status and cooldown say `aborted_memory`, the event says `complete` (`reindex.rs:802-808`) |
| `CleanupTakesOwn` (P) | `MCReindex.cfg` | the timer of an ended run removes the entry of a newer one (`reindex.rs:392`) |
| `NothingBetween` | `MCReindexClient.cfg` | an event between snapshot and subscription is in neither (`server.rs:1695-1700`) |
| `ReplayHasComplete` | `MCReindexClient.cfg` | the status is final before `complete` is in the buffer (`server.rs:1708-1710`) |
| `DuplicatesHarmless` | `MCReindexClient.cfg` | a batch that is replayed and sent is counted twice by the command ("duplicates are harmless for SSE consumers") |
| `EndReported` | `MCReindexClient.cfg` | a run that ends between status and `complete`, or between the handler's look at the status and its subscription, makes the command report that it did not complete |
| `AbortReported` | `MCReindexClient.cfg` | the command ignores `status: aborted_memory` (`commands/reindex.rs`) |
| `ForcedChecked` | `MCReindexClient.cfg` | `index --force` that runs into its deadline returns success without the health check |
| `CodeIsNoHeading` | `MCFiles.cfg` | a fence of tildes inside one of backticks ends it, and a `#` line of code becomes a heading |
| `CommentsWithNextKey` | `MCFiles.cfg` | the comments above a YAML key go with the section before it |
| `EachChildChunked` | `MCFiles.cfg` | a child of the XML root that opens and closes on one line is no chunk |
| `IdsUnique`, `NestedEmitted`, `OwnCallsOnly` | `MCFiles.cfg` | two declarations of one name that begin on one line share an id; a function in a function is neither emitted nor are its calls counted; a JavaScript class claims the calls of its methods |
| `InSync` | `MCFiles.cfg` | chunks of a file that a run stored stay when the file is deleted: the watch loop's map does not know them |
| `SameExclusions`, `CollectedFollowed`, `LanguagesRestrict` | `MCFiles.cfg` | the walk and the watch loop let different files in; an unknown language restricts nothing |
| `LargeLeaves` | `MCFiles.cfg` | a file that grows beyond the size limit keeps its old chunks |
| `ExactReturned` | `MCSearch.cfg` | the chunk injected for an exact name may be pushed out of the results |
| `ContainsOwnFile` | `MCSearch.cfg` | containment joins symbols of two files |
| `LanesEqual`, `WeightsCount` | `MCSearch.cfg` | folding the lanes pairwise favours the later ones (`server.rs:1051`), and in "all" mode the weights do not count (`server.rs:896`) |
| `NeutralKept` | `MCSearch.cfg` | a threshold above 1 drops the indexes without a context, whose weight is 1 (`server.rs:1168`, `2160`) |
| `EmptyMeansAll` | `MCSearch.cfg` | `indexes: []` searches nothing (`server.rs:883`) |
| `PagesTotal` | `MCSearch.cfg` | chunks with the same lines stay in the order of the map, so that pages may repeat one and skip another (`files.rs:60`) |
| `SimilarFound` | `MCSearch.cfg` | an embedding that the LRU forgot, or that a restart did not load, is answered as if there were none (`search.rs:83-84`) |
| `SimilarBounded` | `MCSearch.cfg` | a request for no similar chunk may be given one (`files.rs:88`) |
| `EnvKeyWins`, `AvailableIsActive` | `MCSearch.cfg` | the key of the request goes before the one of the environment (`ui.rs:160`); a provider that became available after the first question is listed and not used (`ui.rs:343`) |
| `AlwaysResponds` | `MCSearch.cfg` | the log line about a search is cut after 80 bytes, inside a character too, which panics (`mcp/tools.rs:65-67`) |
| `ActsOnNamed` | `MCSearch.cfg` | a name with `?` or `/` in it addresses another index or none (`mcp/tools.rs:9`) |
| `ChatDeclared` | `MCSearch.cfg` | the descriptor of `chat` requires less than the dispatcher (`mcp/tools.rs:615`) |
| `OriginalsKept` | `MCCommands.cfg` | two files of one name in one second share a backup, and the first original is gone (`integrate.rs:425`) |
| `EditsKept` | `MCCommands.cfg` | an edit between the command's read and its rename is lost (`integrate.rs:222`) |
| `CreatesIfAbsent` | `MCCommands.cfg` | the file is not created when its directory is missing (`integrate.rs:221`) |
| `OneIndexEach` | `MCCommands.cfg` | two projects with one directory name are both reported as converted and share one index, which has the root of the last (`convert.rs:116`) |
| `RootSurvives` | `MCCommands.cfg` | a reindex with another root changes it in memory (`server.rs:1626-1649`) and not in `indexes.toml`, which is to let a restart re-register the index (`server.rs:729`): afterwards the old root is back |
| `RegisteredBeforeSaid` | `MCCommands.cfg` | a conversion while the daemon restores creates what was registered before, and reports it as new |
| `Precedence` (P) | `MCDaemon.cfg` | `daemon.env` is saved before it is loaded, with only the variables the shell has: the others are lost (`start.rs:257`) |
| `PinSurvives` | `MCDaemon.cfg` | each start that has some persisted variable replaces `daemon.env` by its own, a refused one too (`start.rs:258` before `316`) and one by a LaunchAgent with the variables of its install (`service.rs:94`): a pinned CPU does not "survive every restart" (`daemon.rs:94`) |

Properties of `Registry` and `DaemonLifecycle` are stated for requests and starts
that do not overlap (`overlap`), because the code takes no lock around "look up,
build, write, register" and around "check the pid, open, lock". What the models
show when they do overlap: `indexes.toml` loses one of two updates, or is torn
through the shared temporary name; an override or a create after a concurrent
delete brings the index back; a delete during a run leaves or recreates files; the
restore overwrites what a create registered between its check and its own
registration; two starts reap each other, and `stop` may remove the files of a
daemon that started behind its back.

Met while modelling and not stated as properties: the doc of `delete_index_handler` says
that the store on disk stays, the code removes it (`server.rs:805`); registering an
index again with other filters never reaches the upsert that `persistence.rs:184`
describes; the order that MMR gives the candidates is undone by the later sort by score; only
queries of the intent `Usage` expand through the graph; `AlreadyRunning` exits with 1
where `start.rs` says 0; `build_embedder` is documented to exit on failure and the
daemon stays up.

## 7. Not modelled

- **`doctor`, the rest of `service`, log rotation, static files of the web UI**: they read and print,
  call other programs, or serve embedded files; they keep no state a step could get
  wrong.
- **Handlers of status, graph export and dashboard events**: one read of one lock each,
  rendered.
- **Framing of MCP over stdio and SSE**: done by a library.
- **Entities, SCIP input, named-entity recognition, concept clusters, context
  inference**: text and numerics over external models. `GlobalSearch` takes the
  similarity of a query with an index's context as any number.
- **Project detection and git helpers**: one-shot questions to the file system and to
  `git`.
- **Embedding models, usearch, tree-sitter grammars, tokio**: libraries, modelled by
  what the code relies on and marked external in `PROJECT.json`.
- Abstracted everywhere: wording, logging, timings, scores (except in `Fusion` and
  `Search`), distances.
