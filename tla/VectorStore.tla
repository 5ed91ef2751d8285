---------------------------- MODULE VectorStore ----------------------------
(***************************************************************************)
(* UsearchStore: an HNSW index over u64 keys, with two maps that give each *)
(* chunk id its key and each key its chunk id.                             *)
(*                                                                         *)
(* The three structures have a lock each and no operation holds all three, *)
(* so operations of concurrent callers interleave between lock sections:   *)
(* one action below is one lock section. A vector is abstracted to the     *)
(* chunk id whose text it embeds; that is all a wrong hit is about.        *)
(*                                                                         *)
(* A snapshot on disk is two files, each written to a temporary name and   *)
(* renamed. Restart is the end of the process at any point (SIGKILL, OOM,  *)
(* power cut) followed by load_from.                                       *)
(***************************************************************************)
EXTENDS Naturals, FiniteSets

CONSTANTS Id,        \* chunk ids
          NoId,      \* the absence of an id, or of a vector
          Writer,    \* concurrent callers of upsert, upsert_batch and remove
          Searcher,  \* concurrent callers of search
          Saver,     \* callers of save: the persist task, the shutdown flush
          Caps,      \* the values TRUSTY_MAX_CHUNKS may have in some life
          MaxBatch,  \* the most items a caller gives upsert_batch
          MaxKey,    \* bound on the keys one run allocates
          MaxRestarts

ASSUME VectorStoreAssumption ==
    /\ IsFiniteSet(Id)
    /\ NoId \notin Id
    /\ Caps \subseteq Nat \ {0}
    /\ MaxBatch \in Nat \ {0}
    /\ MaxKey \in Nat
    /\ MaxRestarts \in Nat

VARIABLES
    idToKey,    \* id_to_key; 0, the reserved sentinel, for an unmapped id
    keyToId,    \* key_to_id
    nextKey,    \* next_key
    index,      \* the HNSW index: whose vector each key holds
    pc,         \* lock section each caller enters next
    items,      \* the ids a caller's operation is about
    key,        \* the key an operation resolved
    found,      \* (key, vector) matches a search read from the index
    hits,       \* (chunk id, vector) pairs a search returned
    keyMap,     \* a save's clone of the key map
    hnswTmp, hnswFile,   \* hnsw.usearch.tmp, hnsw.usearch
    keysTmp, keysFile,   \* hnsw.keys.json.tmp, hnsw.keys.json
    maxElem,    \* hnsw_max_elements(): the environment of this life
    loaded,     \* history: the size of the index this life began with
    highest,    \* history: the highest maxElem of any life so far
    restarts

life  == <<maxElem, loaded, highest, restarts>>
maps  == <<idToKey, keyToId, nextKey>>
local == <<items, key, found, keyMap>>
files == <<hnswTmp, hnswFile, keysTmp, keysFile>>
vars  == <<maps, index, pc, local, hits, files, life>>

Key == 1..MaxKey
Vector == Id \cup {NoId}
Caller == Writer \cup Searcher \cup Saver
KeyMap == [ids : [Id -> 0..MaxKey], next : 1..MaxKey + 1]

EmptyIndex == [k \in Key |-> NoId]
EmptyMap == [ids |-> [id \in Id |-> 0], next |-> 1]

Label == {"idle", "upsert_add", "batch_insert", "remove_key", "remove_vector",
          "search_resolve", "save_index", "rename_index", "write_keys", "rename_keys"}

MapType ==
    /\ idToKey \in [Id -> 0..MaxKey]
    /\ keyToId \in [Key -> Vector]
    /\ nextKey \in 1..MaxKey + 1
    /\ index \in [Key -> Vector]

LocalType ==
    /\ pc \in [Caller -> Label]
    /\ items \in [Caller -> SUBSET Id]
    /\ key \in [Caller -> 0..MaxKey]
    /\ found \in [Caller -> SUBSET (Key \X Id)]
    /\ hits \in [Caller -> SUBSET (Id \X Id)]
    /\ keyMap \in [Caller -> KeyMap]

\* A file is a set: empty when it does not exist, else one content.
FileType ==
    /\ hnswTmp \subseteq [Key -> Vector]
    /\ hnswFile \subseteq [Key -> Vector]
    /\ keysTmp \subseteq KeyMap
    /\ keysFile \subseteq KeyMap
    /\ restarts \in 0..MaxRestarts

LifeType ==
    /\ maxElem \in Caps /\ highest \in Caps
    /\ loaded \in Nat

TypeOK == MapType /\ LocalType /\ FileType /\ LifeType

Init ==
    /\ idToKey = EmptyMap.ids /\ keyToId = EmptyIndex /\ nextKey = EmptyMap.next
    /\ index = EmptyIndex
    /\ pc = [c \in Caller |-> "idle"]
    /\ items = [c \in Caller |-> {}]
    /\ key = [c \in Caller |-> 0]
    /\ found = [c \in Caller |-> {}]
    /\ hits = [c \in Caller |-> {}]
    /\ keyMap = [c \in Caller |-> EmptyMap]
    /\ hnswTmp = {} /\ hnswFile = {}
    /\ keysTmp = {} /\ keysFile = {}
    /\ maxElem \in Caps /\ highest = maxElem /\ loaded = 0
    /\ restarts = 0

Stored(vec) == {k \in DOMAIN vec : vec[k] # NoId}
Size(vec) == Cardinality(Stored(vec))

Goto(c, label) == pc' = [pc EXCEPT ![c] = label]
Return(c) ==
    /\ Goto(c, "idle")
    /\ items' = [items EXCEPT ![c] = {}]
    /\ key' = [key EXCEPT ![c] = 0]
    /\ found' = [found EXCEPT ![c] = {}]
    /\ keyMap' = [keyMap EXCEPT ![c] = EmptyMap]

-----------------------------------------------------------------------------
(* upsert: find or allocate the key under the id_to_key write lock, then   *)
(* replace the vector under the index write lock.                          *)

\* Mutant: next_key is read and never advanced.
UpsertResolveNoBump(c, id) ==
    /\ pc[c] = "idle"
    /\ idToKey[id] = 0 /\ nextKey <= MaxKey
    /\ key' = [key EXCEPT ![c] = nextKey]
    /\ idToKey' = [idToKey EXCEPT ![id] = nextKey]
    /\ keyToId' = [keyToId EXCEPT ![nextKey] = id]
    /\ items' = [items EXCEPT ![c] = {id}]
    /\ Goto(c, "upsert_add")
    /\ UNCHANGED <<nextKey, index, found, keyMap, hits, files, life>>

\* Mutant: the lowest key without an id is handed out again.
UpsertResolveReusing(c, id) ==
    /\ pc[c] = "idle"
    /\ idToKey[id] = 0
    /\ \E k \in Key :
          /\ keyToId[k] = NoId
          /\ \A j \in Key : keyToId[j] = NoId => k <= j
          /\ key' = [key EXCEPT ![c] = k]
          /\ idToKey' = [idToKey EXCEPT ![id] = k]
          /\ keyToId' = [keyToId EXCEPT ![k] = id]
          /\ nextKey' = IF k = nextKey THEN k + 1 ELSE nextKey
    /\ items' = [items EXCEPT ![c] = {id}]
    /\ Goto(c, "upsert_add")
    /\ UNCHANGED <<index, found, keyMap, hits, files, life>>

UpsertResolve(c, id) ==
    /\ pc[c] = "idle"
    /\ \/ /\ idToKey[id] # 0
          /\ key' = [key EXCEPT ![c] = idToKey[id]]
          /\ UNCHANGED maps
       \/ /\ idToKey[id] = 0
          /\ nextKey <= MaxKey
          /\ key' = [key EXCEPT ![c] = nextKey]
          /\ idToKey' = [idToKey EXCEPT ![id] = nextKey]
          /\ keyToId' = [keyToId EXCEPT ![nextKey] = id]
          /\ nextKey' = nextKey + 1
    /\ items' = [items EXCEPT ![c] = {id}]
    /\ Goto(c, "upsert_add")
    /\ UNCHANGED <<index, found, keyMap, hits, files, life>>

\* ensure_capacity runs after the old vector is gone, so at the cap it refuses
\* new keys only.
UpsertAdd(c) ==
    /\ pc[c] = "upsert_add"
    /\ \E id \in items[c] :
          LET freed == [index EXCEPT ![key[c]] = NoId]
          IN  index' = IF Size(freed) >= maxElem
                         THEN freed
                         ELSE [freed EXCEPT ![key[c]] = id]
    /\ Return(c)
    /\ UNCHANGED <<maps, hits, files, life>>

-----------------------------------------------------------------------------
(* upsert_batch: allocate every missing key under both map locks, then     *)
(* insert under the index write lock while still reading id_to_key.        *)

BatchAssign(c, ids) ==
    /\ pc[c] = "idle"
    /\ Cardinality(ids) <= MaxBatch
    /\ LET new == {id \in ids : idToKey[id] = 0}
       IN  /\ nextKey + Cardinality(new) <= MaxKey + 1
           /\ \E alloc \in [new -> nextKey..MaxKey] :
             /\ \A i, j \in new : i # j => alloc[i] # alloc[j]
             /\ \A i \in new : alloc[i] < nextKey + Cardinality(new)
             /\ idToKey' = [id \in Id |-> IF id \in new THEN alloc[id] ELSE idToKey[id]]
             /\ keyToId' = [k \in Key |->
                    IF \E id \in new : alloc[id] = k
                      THEN CHOOSE id \in new : alloc[id] = k
                      ELSE keyToId[k]]
             /\ nextKey' = nextKey + Cardinality(new)
    /\ items' = [items EXCEPT ![c] = ids]
    /\ Goto(c, "batch_insert")
    /\ UNCHANGED <<index, key, found, keyMap, hits, files, life>>

\* The ids of the batch that still have a key; the others are skipped.
Mapped(c) == {id \in items[c] : idToKey[id] # 0}
IsNew(id) == index[idToKey[id]] = NoId

\* At the cap the whole batch is refused, whatever it holds.
BatchRefuse(c) ==
    /\ pc[c] = "batch_insert"
    /\ Size(index) >= maxElem
    /\ Return(c)
    /\ UNCHANGED <<maps, index, hits, files, life>>

\* Items go in one by one, in an order the abstraction leaves open, and none is
\* checked against the cap again: the room is what the library reserved. Asked for at
\* most maxElem, it has at least enough for `added' new ones to fill the index to the
\* cap; beyond it an add may fail, and the rest of the batch is not inserted, or
\* succeed, where a reserve gave more than it was asked or the capacity was larger.
InsertMapped(c) ==
    \E done \in SUBSET Mapped(c) :
        LET added == Cardinality({id \in done : IsNew(id)})
        IN  /\ \/ done = Mapped(c)
               \/ /\ Size(index) + added >= maxElem
                  /\ \E id \in Mapped(c) \ done : IsNew(id)
            /\ index' = [k \in Key |->
                   IF \E id \in done : idToKey[id] = k
                     THEN CHOOSE id \in done : idToKey[id] = k
                     ELSE index[k]]

\* Mutant: the size is not compared with the cap before the batch.
BatchInsertUnchecked(c) ==
    /\ pc[c] = "batch_insert"
    /\ InsertMapped(c)
    /\ Return(c)
    /\ UNCHANGED <<maps, hits, files, life>>

BatchInsert(c) ==
    /\ pc[c] = "batch_insert"
    /\ Size(index) < maxElem
    /\ InsertMapped(c)
    /\ Return(c)
    /\ UNCHANGED <<maps, hits, files, life>>

-----------------------------------------------------------------------------
(* remove: the id map, the reverse map and the index, one lock each.       *)

\* Mutant: remove looks the id up and leaves it in the map.
RemoveIdKept(c, id) ==
    /\ pc[c] = "idle"
    /\ idToKey[id] # 0
    /\ key' = [key EXCEPT ![c] = idToKey[id]]
    /\ Goto(c, "remove_key")
    /\ UNCHANGED <<maps, index, items, found, keyMap, hits, files, life>>

RemoveId(c, id) ==
    /\ pc[c] = "idle"
    /\ idToKey[id] # 0
    /\ key' = [key EXCEPT ![c] = idToKey[id]]
    /\ idToKey' = [idToKey EXCEPT ![id] = 0]
    /\ Goto(c, "remove_key")
    /\ UNCHANGED <<keyToId, nextKey, index, items, found, keyMap, hits, files, life>>

RemoveKey(c) ==
    /\ pc[c] = "remove_key"
    /\ keyToId' = [keyToId EXCEPT ![key[c]] = NoId]
    /\ Goto(c, "remove_vector")
    /\ UNCHANGED <<idToKey, nextKey, index, local, hits, files, life>>

RemoveVector(c) ==
    /\ pc[c] = "remove_vector"
    /\ index' = [index EXCEPT ![key[c]] = NoId]
    /\ Return(c)
    /\ UNCHANGED <<maps, hits, files, life>>

-----------------------------------------------------------------------------
(* search: matches under the index lock, ids under the key_to_id lock. The *)
(* matches are any stored vectors: which are nearest is the library's.     *)

SearchIndex(c) ==
    /\ pc[c] = "idle"
    /\ \E matched \in SUBSET Stored(index) :
          /\ matched # {}
          /\ found' = [found EXCEPT ![c] = {<<k, index[k]>> : k \in matched}]
    /\ Goto(c, "search_resolve")
    /\ UNCHANGED <<maps, index, items, key, keyMap, hits, files, life>>

\* A key without an id is an orphan and is skipped silently.
SearchResolve(c) ==
    /\ pc[c] = "search_resolve"
    /\ hits' = [hits EXCEPT ![c] =
           {<<keyToId[m[1]], m[2]>> : m \in {n \in found[c] : keyToId[n[1]] # NoId}}]
    /\ Return(c)
    /\ UNCHANGED <<maps, index, files, life>>

-----------------------------------------------------------------------------
(* save: clone the key map, write and rename the index, write and rename   *)
(* the key sidecar. Concurrent saves share both temporary names.           *)

SaveKeyMap(c) ==
    /\ pc[c] = "idle"
    /\ keyMap' = [keyMap EXCEPT ![c] = [ids |-> idToKey, next |-> nextKey]]
    /\ Goto(c, "save_index")
    /\ UNCHANGED <<maps, index, items, key, found, hits, files, life>>

SaveIndex(c) ==
    /\ pc[c] = "save_index"
    /\ hnswTmp' = {index}
    /\ Goto(c, "rename_index")
    /\ UNCHANGED <<maps, index, local, hits, hnswFile, keysTmp, keysFile, life>>

\* Renaming a temporary file another save already renamed is an error, and
\* the save returns without writing its sidecar.
RenameIndex(c) ==
    /\ pc[c] = "rename_index"
    /\ \/ /\ hnswTmp # {}
          /\ hnswFile' = hnswTmp /\ hnswTmp' = {}
          /\ Goto(c, "write_keys")
          /\ UNCHANGED local
       \/ /\ hnswTmp = {}
          /\ Return(c)
          /\ UNCHANGED <<hnswFile, hnswTmp>>
    /\ UNCHANGED <<maps, index, hits, keysTmp, keysFile, life>>

WriteKeys(c) ==
    /\ pc[c] = "write_keys"
    /\ keysTmp' = {keyMap[c]}
    /\ Goto(c, "rename_keys")
    /\ UNCHANGED <<maps, index, local, hits, hnswTmp, hnswFile, keysFile, life>>

RenameKeys(c) ==
    /\ pc[c] = "rename_keys"
    /\ \/ keysTmp # {} /\ keysFile' = keysTmp
       \/ keysTmp = {} /\ UNCHANGED keysFile
    /\ keysTmp' = {}
    /\ Return(c)
    /\ UNCHANGED <<maps, index, hits, hnswTmp, hnswFile, life>>

-----------------------------------------------------------------------------
(* The process ends; the next one, whose environment may have another cap,  *)
(* runs load_from, which restores whatever size was saved. An empty store  *)
(* takes its place when either file is missing, cannot be read or parsed,  *)
(* or has another dimension.                                               *)

Larger(m, n) == IF m > n THEN m ELSE n

LoadFrom(vec, km) ==
    /\ index' = vec
    /\ idToKey' = km.ids
    /\ keyToId' = [k \in Key |->
           IF \E id \in Id : km.ids[id] = k
             THEN CHOOSE id \in Id : km.ids[id] = k
             ELSE NoId]
    /\ nextKey' = km.next

Restart ==
    /\ restarts < MaxRestarts
    /\ restarts' = restarts + 1
    /\ \/ \E vec \in hnswFile, km \in keysFile : LoadFrom(vec, km)
       \/ LoadFrom(EmptyIndex, EmptyMap)
    /\ maxElem' \in Caps
    /\ highest' = Larger(highest, maxElem')
    /\ loaded' = Size(index')
    /\ pc' = [c \in Caller |-> "idle"]
    /\ items' = [c \in Caller |-> {}]
    /\ key' = [c \in Caller |-> 0]
    /\ found' = [c \in Caller |-> {}]
    /\ hits' = [c \in Caller |-> {}]
    /\ keyMap' = [c \in Caller |-> EmptyMap]
    /\ UNCHANGED files

Write(c) ==
    \/ \E id \in Id : UpsertResolve(c, id) \/ RemoveId(c, id)
    \/ \E ids \in (SUBSET Id) \ {{}} : BatchAssign(c, ids)
    \/ UpsertAdd(c) \/ BatchRefuse(c) \/ BatchInsert(c)
    \/ RemoveKey(c) \/ RemoveVector(c)

Search(c) == SearchIndex(c) \/ SearchResolve(c)

Save(c) ==
    \/ SaveKeyMap(c) \/ SaveIndex(c) \/ RenameIndex(c)
    \/ WriteKeys(c) \/ RenameKeys(c)

\* One life of the process, and any number of lives.
Live ==
    \/ \E c \in Writer : Write(c)
    \/ \E c \in Searcher : Search(c)
    \/ \E c \in Saver : Save(c)
Next == Live \/ Restart

LiveSpec == Init /\ [][Live]_vars
Spec == Init /\ [][Next]_vars

-----------------------------------------------------------------------------
(* Properties.                                                             *)

AtRest == \A c \in Caller : pc[c] = "idle"

\* Whatever the interleaving, and across restarts, the id map leads to a key
\* that leads back to the id, below the next key to allocate; at rest the maps
\* are each other's inverse.
KeyMapsAgree ==
    /\ \A id \in Id : idToKey[id] # 0 =>
          keyToId[idToKey[id]] = id /\ idToKey[id] < nextKey
    /\ AtRest => \A k \in Key : keyToId[k] # NoId => idToKey[keyToId[k]] = k

\* A search hit carries the similarity of the chunk it names: no interleaving
\* of upserts and removals gives one chunk's id to another chunk's vector.
HitsBelong == \A c \in Caller : \A h \in hits[c] : h[1] = h[2]

\* TRUSTY_MAX_CHUNKS bounds the index: each check is made under the lock the adds are
\* made under, so however many single and batch upserts race, a life takes the index
\* past its cap by less than one batch, and never adds to one that it found beyond it.
\* Nor do lives add up: loading what the last one left, under whatever cap, and
\* going on leaves it less than one batch above the highest cap there ever was.
SizeBounded ==
    /\ Size(index) <= Larger(loaded, maxElem - 1 + MaxBatch)
    /\ Size(index) <= highest - 1 + MaxBatch

\* "Once the index would grow past this many vectors, subsequent inserts return an
\* error" (store.rs:34-37). That is left to the library for all but a batch's first item.
NeverPastCap == Size(index) <= Larger(loaded, maxElem)

\* "Never reused, even after remove, so layers that may still hold a stale key
\* can't accidentally collide with a fresh insert": no stored vector sits at a
\* key the generator has yet to hand out.
NeverReused == \A k \in Key : k >= nextKey => index[k] = NoId

\* Within one life of the process that is so, whatever the interleaving of
\* upserts, batches, removals and saves.
FreshKeysEmpty == restarts = 0 => NeverReused

\* Whichever of the two files a crash or a second save left older, the pair that
\* one life of the process wrote gives no chunk the vector of another.
RestoreRoundTrips ==
    [][Restart /\ restarts = 0 => \A id \in Id : idToKey'[id] # 0 =>
          index'[idToKey'[id]] \in {NoId, id}]_vars

\* remove's contract, and "keeps every in-memory structure consistent with the
\* configured cap": with no call in progress, each stored vector has an id.
NoOrphanAtRest == AtRest => \A k \in Stored(index) : keyToId[k] # NoId

\* "Updates to existing ids are always allowed": a batch of chunks that all
\* have a vector already is never refused.
UpdatesNeverRefused ==
    [][\A c \in Caller : BatchRefuse(c) =>
          \E id \in items[c] : idToKey[id] = 0 \/ IsNew(id)]_vars
=============================================================================
