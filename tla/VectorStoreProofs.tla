------------------------- MODULE VectorStoreProofs -------------------------
(***************************************************************************)
(* UsearchStore, for any chunk ids, cap and number of concurrent writers,  *)
(* searchers and savers.                                                   *)
(*                                                                         *)
(* Through any number of restarts the key maps agree (KeyMapsAgree), which *)
(* needs that a saved map is sound too (Saved) and what a remove is about  *)
(* to drop (Removing), and the index is less than a batch beyond its cap   *)
(* (SizeBounded), which needs that a saved index is less than a batch      *)
(* beyond the highest cap there was, and that a batch under way is no      *)
(* larger than a batch may be (SizeInv).                                   *)
(*                                                                         *)
(* Within one life of the process every key has one owner for ever: the    *)
(* current maps, the saved maps, the index, the saved index, and what each *)
(* upsert and search remembers between two lock sections agree on it       *)
(* (Owned). So a search never mixes chunks (HitsBelong), a fresh key is    *)
(* unused (FreshKeysEmpty), and files of different saves go together       *)
(* (RestoreRoundTrips).                                                    *)
(***************************************************************************)
EXTENDS VectorStore, FiniteSetTheorems, TLAPS

\* The forward map is a partial inverse of the reverse map.
Forward == \A id \in Id : idToKey[id] # 0 =>
    keyToId[idToKey[id]] = id /\ idToKey[id] < nextKey

\* A reverse entry without its forward entry is one a remove is about to drop.
Backward == \A k \in Key : keyToId[k] # NoId =>
    \/ idToKey[keyToId[k]] = k
    \/ \E c \in Caller : pc[c] = "remove_key" /\ key[c] = k

\* A key that was never handed out has no id.
FreshIds == \A k \in Key : k >= nextKey => keyToId[k] = NoId

Removing(c) == pc[c] = "remove_key" =>
    key[c] \in Key /\ key[c] < nextKey /\ \A id \in Id : idToKey[id] # key[c]

\* The key maps some save has cloned, written or renamed.
SavedMaps == keysTmp \cup keysFile \cup {keyMap[c] : c \in Caller}
SoundMap(km) == \A id \in Id : km.ids[id] # 0 =>
    km.ids[id] < km.next /\ \A j \in Id : km.ids[j] = km.ids[id] => j = id

MapInv ==
    /\ TypeOK /\ Forward /\ Backward /\ FreshIds
    /\ \A c \in Caller : Removing(c)
    /\ \A km \in SavedMaps : SoundMap(km)

Vectors == {index} \cup hnswTmp \cup hnswFile

\* No saved index is a batch or more beyond the highest cap of any life so far.
SavedSize == \A vec \in Vectors : Size(vec) <= highest - 1 + MaxBatch
BatchFits == \A c \in Caller : pc[c] = "batch_insert" => Cardinality(items[c]) <= MaxBatch

SizeInv ==
    /\ TypeOK /\ SizeBounded /\ SavedSize /\ BatchFits
    /\ maxElem <= highest

\* Everything agrees on whose each key is.
Owned(owner) ==
    /\ \A k \in Key : k >= nextKey => owner[k] = NoId
    /\ \A k \in Key : keyToId[k] \in {NoId, owner[k]}
    /\ \A id \in Id : idToKey[id] # 0 => owner[idToKey[id]] = id
    /\ \A km \in SavedMaps : \A id \in Id : km.ids[id] # 0 => owner[km.ids[id]] = id
    /\ \A vec \in Vectors : \A k \in Key : vec[k] \in {NoId, owner[k]}
    /\ \A c \in Caller : pc[c] = "upsert_add" =>
          key[c] \in Key /\ \A id \in items[c] : owner[key[c]] = id
    /\ \A c \in Caller : \A m \in found[c] : owner[m[1]] = m[2]

LifeInv == MapInv /\ HitsBelong /\ \E owner \in [Key -> Vector] : Owned(owner)
OneLife == restarts = 0 => LifeInv

-----------------------------------------------------------------------------
(* Types, through every step and restart.                                  *)

\* The constant pieces of a state are well-typed.
LEMMA KeysAreKeys ==
    /\ EmptyMap \in KeyMap /\ EmptyIndex \in [Key -> Vector]
    /\ 0 \in 0..MaxKey /\ NoId \in Vector /\ IsFiniteSet(Key)
<1>1. EmptyMap \in KeyMap /\ EmptyIndex \in [Key -> Vector] /\ NoId \in Vector /\ 0 \in 0..MaxKey
  BY VectorStoreAssumption DEF EmptyMap, EmptyIndex, KeyMap, Vector
<1>2. IsFiniteSet(Key)
  BY VectorStoreAssumption, FS_Interval DEF Key
<1> QED BY <1>1, <1>2

\* A set of vectors has a size.
LEMMA SizeType ==
    ASSUME NEW vec \in [Key -> Vector]
    PROVE  IsFiniteSet(Stored(vec)) /\ Size(vec) \in Nat
<1>1. Stored(vec) \in SUBSET Key
  BY DEF Stored
<1> QED BY <1>1, KeysAreKeys, FS_Subset, FS_CardinalityType DEF Size

\* A caller that returns remembers nothing.
LEMMA ReturnType ==
    ASSUME TypeOK, NEW c \in Caller, Return(c), hits' = hits
    PROVE  LocalType'
<1> USE KeysAreKeys DEF TypeOK, LocalType, Return, Goto
<1>1. pc' \in [Caller -> Label] /\ items' \in [Caller -> SUBSET Id]
  BY DEF Label
<1>2. key' \in [Caller -> 0..MaxKey] /\ found' \in [Caller -> SUBSET (Key \X Id)]
  OBVIOUS
<1>3. keyMap' \in [Caller -> KeyMap] /\ hits' \in [Caller -> SUBSET (Id \X Id)]
  OBVIOUS
<1> QED BY <1>1, <1>2, <1>3

\* A writer keeps the types of the maps and the index.
LEMMA WriteMapType ==
    ASSUME TypeOK, NEW c \in Caller, Write(c)
    PROVE  MapType'
<1> USE VectorStoreAssumption, KeysAreKeys DEF TypeOK, MapType
<1>1. ASSUME NEW id \in Id, UpsertResolve(c, id) PROVE MapType'
  <2>1. CASE UNCHANGED maps
    BY <1>1, <2>1 DEF UpsertResolve, maps
  <2>2. CASE ~UNCHANGED maps
    <3>1. nextKey \in Key /\ id \in Vector
      BY <1>1, <2>2 DEF UpsertResolve, Key, Vector
    <3>2. nextKey + 1 \in 1..MaxKey + 1 /\ nextKey \in 0..MaxKey
      BY <3>1 DEF Key
    <3> QED BY <1>1, <2>2, <3>1, <3>2 DEF UpsertResolve
  <2> QED BY <2>1, <2>2
<1>2. ASSUME NEW ids \in SUBSET Id, BatchAssign(c, ids) PROVE MapType'
  <2> DEFINE new == {id \in ids : idToKey[id] = 0}
  <2>1. Cardinality(new) \in Nat
    BY FS_Subset, FS_CardinalityType
  <2>2. PICK alloc \in [new -> nextKey..MaxKey] :
          /\ idToKey' = [id \in Id |-> IF id \in new THEN alloc[id] ELSE idToKey[id]]
          /\ keyToId' = [k \in Key |->
                 IF \E id \in new : alloc[id] = k
                   THEN CHOOSE id \in new : alloc[id] = k
                   ELSE keyToId[k]]
    BY <1>2 DEF BatchAssign
  <2>3. nextKey' \in 1..MaxKey + 1
    BY <1>2, <2>1 DEF BatchAssign
  <2>4. idToKey' \in [Id -> 0..MaxKey]
    BY <2>2
  <2>5. keyToId' \in [Key -> Vector]
    <3> SUFFICES ASSUME NEW k \in Key PROVE keyToId'[k] \in Vector
      BY <2>2
    <3>1. CASE \E id \in new : alloc[id] = k
      <4>1. keyToId'[k] = CHOOSE id \in new : alloc[id] = k
        BY <2>2, <3>1
      <4>2. keyToId'[k] \in new
        BY <3>1, <4>1
      <4> QED BY <4>2 DEF Vector
    <3>2. CASE ~\E id \in new : alloc[id] = k
      BY <2>2, <3>2
    <3> QED BY <3>1, <3>2
  <2>6. index' \in [Key -> Vector]
    BY <1>2 DEF BatchAssign
  <2> QED BY <2>3, <2>4, <2>5, <2>6
<1>3. ASSUME UpsertAdd(c) PROVE MapType'
  BY <1>3 DEF UpsertAdd, maps, LocalType, Vector
<1>4. ASSUME BatchInsert(c) PROVE MapType'
  <2>1. PICK done \in SUBSET Mapped(c) :
          index' = [k \in Key |-> IF \E id \in done : idToKey[id] = k
                                    THEN CHOOSE id \in done : idToKey[id] = k
                                    ELSE index[k]]
    BY <1>4 DEF BatchInsert, InsertMapped
  <2>2. done \subseteq Vector
    BY DEF Mapped, LocalType, Vector
  <2>3. ASSUME NEW k \in Key PROVE index'[k] \in Vector
    <3>1. CASE \E id \in done : idToKey[id] = k
      <4>1. index'[k] = CHOOSE id \in done : idToKey[id] = k
        BY <2>1, <3>1
      <4>2. index'[k] \in done
        BY <3>1, <4>1
      <4> QED BY <2>2, <4>2
    <3>2. CASE ~\E id \in done : idToKey[id] = k
      BY <2>1, <3>2
    <3> QED BY <3>1, <3>2
  <2>4. index' = [k \in Key |-> index'[k]]
    BY <2>1
  <2> QED BY <1>4, <2>3, <2>4 DEF BatchInsert, maps
<1>5. ASSUME BatchRefuse(c) PROVE MapType'
  BY <1>5 DEF BatchRefuse, maps
<1>6. ASSUME NEW id \in Id, RemoveId(c, id) PROVE MapType'
  BY <1>6 DEF RemoveId
<1>7. ASSUME RemoveKey(c) PROVE MapType'
  BY <1>7 DEF RemoveKey
<1>8. ASSUME RemoveVector(c) PROVE MapType'
  BY <1>8 DEF RemoveVector, maps
<1> QED BY <1>1, <1>2, <1>3, <1>4, <1>5, <1>6, <1>7, <1>8 DEF Write

\* A writer remembers ids and a key, and touches no file.
LEMMA WriteTypes ==
    ASSUME TypeOK, NEW c \in Caller, Write(c)
    PROVE  LocalType' /\ UNCHANGED <<hits, files, life>>
<1> USE VectorStoreAssumption, KeysAreKeys DEF TypeOK
<1>1. ASSUME NEW id \in Id, UpsertResolve(c, id)
      PROVE  LocalType' /\ UNCHANGED <<hits, files, life>>
  <2>1. key' \in [Caller -> 0..MaxKey]
    BY <1>1 DEF UpsertResolve, MapType, LocalType
  <2> QED BY <1>1, <2>1 DEF UpsertResolve, LocalType, Goto, Label
<1>2. ASSUME NEW ids \in SUBSET Id, BatchAssign(c, ids)
      PROVE  LocalType' /\ UNCHANGED <<hits, files, life>>
  <2>1. /\ items' = [items EXCEPT ![c] = ids]
        /\ Goto(c, "batch_insert")
        /\ UNCHANGED <<key, found, keyMap, hits, files, life>>
    BY <1>2 DEF BatchAssign
  <2> QED BY <2>1 DEF LocalType, Goto, Label
<1>3. ASSUME NEW id \in Id, RemoveId(c, id)
      PROVE  LocalType' /\ UNCHANGED <<hits, files, life>>
  BY <1>3 DEF RemoveId, MapType, LocalType, Goto, Label
<1>4. ASSUME RemoveKey(c)
      PROVE  LocalType' /\ UNCHANGED <<hits, files, life>>
  BY <1>4 DEF RemoveKey, LocalType, Goto, Label, local
<1>5. ASSUME UpsertAdd(c) \/ BatchRefuse(c) \/ BatchInsert(c) \/ RemoveVector(c)
      PROVE  LocalType' /\ UNCHANGED <<hits, files, life>>
  <2>1. Return(c) /\ UNCHANGED <<hits, files, life>>
    BY <1>5 DEF UpsertAdd, BatchRefuse, BatchInsert, RemoveVector
  <2> QED BY <2>1, ReturnType
<1> QED BY <1>1, <1>2, <1>3, <1>4, <1>5 DEF Write

\* A search remembers matches and returns pairs of ids.
LEMMA SearchTypes ==
    ASSUME TypeOK, NEW c \in Caller, Search(c)
    PROVE  LocalType' /\ UNCHANGED <<maps, index, files, life>>
<1> USE VectorStoreAssumption, KeysAreKeys DEF TypeOK
<1>1. ASSUME SearchIndex(c)
      PROVE  LocalType' /\ UNCHANGED <<maps, index, files, life>>
  <2>1. PICK matched \in SUBSET Stored(index) :
          found' = [found EXCEPT ![c] = {<<k, index[k]>> : k \in matched}]
    BY <1>1 DEF SearchIndex
  <2>2. {<<k, index[k]>> : k \in matched} \subseteq Key \X Id
    BY DEF Stored, MapType, Vector
  <2>3. found' \in [Caller -> SUBSET (Key \X Id)]
    BY <2>1, <2>2 DEF LocalType
  <2> QED BY <1>1, <2>3 DEF SearchIndex, LocalType, Goto, Label
<1>2. ASSUME SearchResolve(c)
      PROVE  LocalType' /\ UNCHANGED <<maps, index, files, life>>
  <2>1. {<<keyToId[m[1]], m[2]>> : m \in {n \in found[c] : keyToId[n[1]] # NoId}}
            \subseteq Id \X Id
    BY DEF MapType, LocalType, Vector
  <2>2. hits' \in [Caller -> SUBSET (Id \X Id)]
    BY <1>2, <2>1 DEF SearchResolve, LocalType
  <2> QED BY <1>2, <2>2 DEF SearchResolve, Return, LocalType, Goto, Label
<1> QED BY <1>1, <1>2 DEF Search

\* A save remembers a map and writes well-typed files.
LEMMA SaveTypes ==
    ASSUME TypeOK, NEW c \in Caller, Save(c)
    PROVE  /\ LocalType' /\ FileType'
           /\ UNCHANGED <<maps, index, hits, life>>
<1> USE VectorStoreAssumption, KeysAreKeys DEF TypeOK, FileType, files, life
<1>1. ASSUME SaveKeyMap(c)
      PROVE  LocalType' /\ FileType' /\ UNCHANGED <<maps, index, hits, life>>
  <2>1. [ids |-> idToKey, next |-> nextKey] \in KeyMap
    BY DEF MapType, KeyMap
  <2> QED BY <1>1, <2>1 DEF SaveKeyMap, LocalType, Goto, Label
<1>2. ASSUME SaveIndex(c)
      PROVE  LocalType' /\ FileType' /\ UNCHANGED <<maps, index, hits, life>>
  BY <1>2 DEF SaveIndex, LocalType, MapType, Goto, Label, local
<1>3. ASSUME RenameIndex(c)
      PROVE  LocalType' /\ FileType' /\ UNCHANGED <<maps, index, hits, life>>
  <2>1. /\ UNCHANGED <<maps, index, hits, keysTmp, keysFile, life>>
        /\ FileType'
    BY <1>3 DEF RenameIndex
  <2>2. CASE Return(c)
    BY <2>1, <2>2, ReturnType
  <2>3. CASE Goto(c, "write_keys") /\ UNCHANGED local
    BY <2>1, <2>3 DEF LocalType, Goto, Label, local
  <2> QED BY <1>3, <2>1, <2>2, <2>3 DEF RenameIndex
<1>4. ASSUME WriteKeys(c)
      PROVE  LocalType' /\ FileType' /\ UNCHANGED <<maps, index, hits, life>>
  <2>1. keyMap[c] \in KeyMap
    BY DEF LocalType
  <2> QED BY <1>4, <2>1 DEF WriteKeys, LocalType, Goto, Label, local
<1>5. ASSUME RenameKeys(c)
      PROVE  LocalType' /\ FileType' /\ UNCHANGED <<maps, index, hits, life>>
  <2>1. Return(c) /\ UNCHANGED <<maps, index, hits, life>> /\ FileType'
    BY <1>5 DEF RenameKeys
  <2> QED BY <2>1, ReturnType
<1> QED BY <1>1, <1>2, <1>3, <1>4, <1>5 DEF Save

\* What a restart loads: the two files, or nothing.
LEMMA RestartLoads ==
    ASSUME TypeOK, Restart
    PROVE  /\ \E vec \in hnswFile \cup {EmptyIndex}, km \in keysFile \cup {EmptyMap} :
                 /\ LoadFrom(vec, km)
                 /\ km = EmptyMap \/ (vec \in hnswFile /\ km \in keysFile)
           /\ \A c \in Caller : pc'[c] = "idle" /\ items'[c] = {} /\ found'[c] = {} /\ keyMap'[c] = EmptyMap
           /\ UNCHANGED files
BY DEF Restart

\* Every variable of the store keeps its type.
LEMMA TypeStep == TypeOK /\ [Next]_vars => TypeOK'
<1> SUFFICES ASSUME TypeOK, [Next]_vars PROVE TypeOK'
  OBVIOUS
<1>1. ASSUME NEW c \in Writer, Write(c) PROVE TypeOK'
  BY <1>1, WriteMapType, WriteTypes DEF Caller, TypeOK, FileType, LifeType, files, life
<1>2. ASSUME NEW c \in Searcher, Search(c) PROVE TypeOK'
  BY <1>2, SearchTypes DEF Caller, TypeOK, FileType, LifeType, files, life, MapType, maps
<1>3. ASSUME NEW c \in Saver, Save(c) PROVE TypeOK'
  BY <1>3, SaveTypes DEF Caller, TypeOK, LifeType, life, MapType, maps
<1>4. CASE Restart
  <2> USE VectorStoreAssumption, KeysAreKeys DEF TypeOK
  <2>1. PICK vec \in hnswFile \cup {EmptyIndex}, km \in keysFile \cup {EmptyMap} : LoadFrom(vec, km)
    BY <1>4, RestartLoads
  <2>2. vec \in [Key -> Vector] /\ km \in KeyMap
    BY DEF FileType
  <2>3. ASSUME NEW k \in Key PROVE keyToId'[k] \in Vector
    <3>1. CASE \E id \in Id : km.ids[id] = k
      <4>1. keyToId'[k] = CHOOSE id \in Id : km.ids[id] = k
        BY <2>1, <3>1 DEF LoadFrom
      <4> QED BY <3>1, <4>1 DEF Vector
    <3>2. CASE ~\E id \in Id : km.ids[id] = k
      BY <2>1, <3>2 DEF LoadFrom
    <3> QED BY <3>1, <3>2
  <2>4. keyToId' = [k \in Key |-> keyToId'[k]]
    BY <2>1 DEF LoadFrom
  <2>5. MapType'
    BY <2>1, <2>2, <2>3, <2>4 DEF LoadFrom, MapType, KeyMap
  <2>6. LocalType' /\ FileType'
    BY <1>4 DEF Restart, LocalType, FileType, files, Label
  <2>7. Size(index') \in Nat
    BY <2>5, SizeType DEF MapType
  <2>8. LifeType'
    BY <1>4, <2>7 DEF Restart, LifeType, Larger
  <2> QED BY <2>5, <2>6, <2>8
<1>5. CASE UNCHANGED vars
  BY <1>5 DEF vars, maps, local, files, life, TypeOK, MapType, LocalType, FileType, LifeType
<1> QED BY <1>1, <1>2, <1>3, <1>4, <1>5 DEF Next, Live

\* The types hold at the start.
LEMMA TypeInit == Init => TypeOK
<1> SUFFICES ASSUME Init PROVE TypeOK
  OBVIOUS
<1> USE VectorStoreAssumption, KeysAreKeys DEF Init
<1>1. MapType
  BY DEF MapType, EmptyMap, KeyMap
<1>2. LocalType
  BY DEF LocalType, Label
<1>3. FileType /\ LifeType
  BY DEF FileType, LifeType
<1> QED BY <1>1, <1>2, <1>3 DEF TypeOK

\* Every variable of the store keeps its type, through restarts.
THEOREM TypeCorrect == Spec => []TypeOK
<1> QED BY TypeInit, TypeStep, PTL DEF Spec

-----------------------------------------------------------------------------
(* What a step does to the key maps.                                       *)

\* Keys are handed out: from nextKey on, each to one id that had none.
HandsOut ==
    /\ nextKey <= nextKey'
    /\ \A id \in Id :
          \/ idToKey'[id] = idToKey[id]
          \/ /\ idToKey[id] = 0
             /\ idToKey'[id] \in Key
             /\ nextKey <= idToKey'[id] /\ idToKey'[id] < nextKey'
             /\ keyToId'[idToKey'[id]] = id
    /\ \A k \in Key :
          \/ keyToId'[k] = keyToId[k]
          \/ /\ nextKey <= k /\ k < nextKey'
             /\ keyToId'[k] \in Id /\ idToKey'[keyToId'[k]] = k
    /\ UNCHANGED index

\* An upsert hands out one key, or finds the one its id has.
LEMMA ResolveHandsOut ==
    ASSUME TypeOK, NEW c \in Caller, NEW id \in Id, UpsertResolve(c, id)
    PROVE  HandsOut
<1>1. nextKey \in Nat /\ MaxKey \in Nat /\ UNCHANGED index
  BY VectorStoreAssumption DEF UpsertResolve, TypeOK, MapType
<1>2. CASE UNCHANGED maps
  BY <1>1, <1>2 DEF HandsOut, maps
<1>3. CASE ~UNCHANGED maps
  <2>1. /\ idToKey[id] = 0
        /\ nextKey <= MaxKey
        /\ idToKey' = [idToKey EXCEPT ![id] = nextKey]
        /\ keyToId' = [keyToId EXCEPT ![nextKey] = id]
        /\ nextKey' = nextKey + 1
    BY <1>3 DEF UpsertResolve
  <2>2. nextKey \in Key
    BY <2>1, <1>1 DEF Key, TypeOK, MapType
  <2>3. idToKey \in [Id -> 0..MaxKey] /\ keyToId \in [Key -> Vector]
    BY DEF TypeOK, MapType
  <2>4. keyToId'[nextKey] = id /\ idToKey'[id] = nextKey
    BY <2>1, <2>2, <2>3
  <2> QED BY <2>1, <2>2, <2>3, <2>4, <1>1 DEF HandsOut
<1> QED BY <1>2, <1>3

\* So does a batch, a key for each of its ids that had none.
LEMMA AssignHandsOut ==
    ASSUME TypeOK, NEW c \in Caller, NEW ids \in SUBSET Id, BatchAssign(c, ids)
    PROVE  HandsOut
<1> DEFINE new == {id \in ids : idToKey[id] = 0}
<1>1. Cardinality(new) \in Nat
  BY FS_Subset, FS_CardinalityType, VectorStoreAssumption
<1>2. /\ nextKey \in Nat
      /\ nextKey' = nextKey + Cardinality(new)
      /\ UNCHANGED index
  BY DEF BatchAssign, TypeOK, MapType
<1>3. PICK alloc \in [new -> nextKey..MaxKey] :
        /\ \A i, j \in new : i # j => alloc[i] # alloc[j]
        /\ \A i \in new : alloc[i] < nextKey + Cardinality(new)
        /\ idToKey' = [id \in Id |-> IF id \in new THEN alloc[id] ELSE idToKey[id]]
        /\ keyToId' = [k \in Key |->
               IF \E id \in new : alloc[id] = k
                 THEN CHOOSE id \in new : alloc[id] = k
                 ELSE keyToId[k]]
  BY DEF BatchAssign
<1>4. \A id \in new : alloc[id] \in Key /\ nextKey <= alloc[id] /\ alloc[id] < nextKey'
  BY <1>1, <1>2, <1>3, VectorStoreAssumption DEF TypeOK, MapType, Key
<1>5. \A id \in new : keyToId'[alloc[id]] = id
  <2> SUFFICES ASSUME NEW id \in new PROVE keyToId'[alloc[id]] = id
    OBVIOUS
  <2>1. \A j \in new : alloc[j] = alloc[id] => j = id
    BY <1>3
  <2>2. keyToId'[alloc[id]] = CHOOSE j \in new : alloc[j] = alloc[id]
    BY <1>3, <1>4
  <2> QED BY <2>1, <2>2
<1>6. \A k \in Key : keyToId'[k] # keyToId[k] => \E id \in new : alloc[id] = k
  BY <1>3
<1>7. \A id \in Id : IF id \in new THEN idToKey'[id] = alloc[id]
                                   ELSE idToKey'[id] = idToKey[id]
  BY <1>3
<1>8. \A k \in Key : \/ keyToId'[k] = keyToId[k]
                     \/ /\ nextKey <= k /\ k < nextKey'
                        /\ keyToId'[k] \in Id /\ idToKey'[keyToId'[k]] = k
  BY <1>4, <1>5, <1>6, <1>7
<1>9. nextKey <= nextKey'
  BY <1>1, <1>2
<1> QED BY <1>2, <1>4, <1>5, <1>7, <1>8, <1>9 DEF HandsOut


\* A caller is about to drop the reverse entry it was about to drop.
KeepsRemoves == \A d \in Caller : pc[d] = "remove_key" =>
    pc'[d] = "remove_key" /\ key'[d] = key[d]

\* The maps agree on the keys handed out.
LEMMA HandsOutKeepsMaps ==
    ASSUME MapInv, HandsOut, KeepsRemoves, TypeOK'
    PROVE  Forward' /\ Backward' /\ FreshIds'
<1> USE VectorStoreAssumption DEF MapInv, TypeOK, MapType, HandsOut
<1>1. nextKey \in Nat /\ nextKey' \in Nat /\ \A k \in Key : k \in Nat
  BY DEF Key
<1>2. Forward'
  <2> SUFFICES ASSUME NEW id \in Id, idToKey'[id] # 0
               PROVE  keyToId'[idToKey'[id]] = id /\ idToKey'[id] < nextKey'
    BY DEF Forward
  <2>1. CASE idToKey'[id] # idToKey[id]
    BY <2>1
  <2>2. CASE idToKey'[id] = idToKey[id]
    <3>1. idToKey[id] \in Key /\ keyToId[idToKey[id]] = id /\ idToKey[id] < nextKey
      BY <2>2 DEF Forward, Key
    <3>2. keyToId'[idToKey[id]] = keyToId[idToKey[id]]
      BY <1>1, <3>1
    <3> QED BY <3>1, <3>2, <2>2, <1>1
  <2> QED BY <2>1, <2>2
<1>3. Backward'
  <2> SUFFICES ASSUME NEW k \in Key, keyToId'[k] # NoId
               PROVE  \/ idToKey'[keyToId'[k]] = k
                      \/ \E d \in Caller : pc'[d] = "remove_key" /\ key'[d] = k
    BY DEF Backward
  <2>1. CASE keyToId'[k] # keyToId[k]
    BY <2>1
  <2>2. CASE keyToId'[k] = keyToId[k] /\ idToKey[keyToId[k]] = k
    <3>1. keyToId[k] \in Id /\ k # 0
      BY <2>2 DEF Vector, Key
    <3> QED BY <3>1, <2>2
  <2>3. CASE \E d \in Caller : pc[d] = "remove_key" /\ key[d] = k
    BY <2>3 DEF KeepsRemoves
  <2> QED BY <2>1, <2>2, <2>3 DEF Backward
<1>4. FreshIds'
  BY <1>1 DEF FreshIds
<1> QED BY <1>2, <1>3, <1>4

\* Nor can a map change under a remove that goes on.
LEMMA OthersRemove ==
    ASSUME MapInv, TypeOK', nextKey <= nextKey',
           \A id \in Id : idToKey'[id] \in {0, idToKey[id]} \/ nextKey <= idToKey'[id],
           NEW d \in Caller, pc'[d] = "remove_key" => pc[d] = "remove_key" /\ key'[d] = key[d]
    PROVE  Removing(d)'
<1> SUFFICES ASSUME pc'[d] = "remove_key"
             PROVE  key[d] \in Key /\ key[d] < nextKey' /\ \A id \in Id : idToKey'[id] # key[d]
  BY DEF Removing
<1>1. key[d] \in Key /\ key[d] < nextKey /\ \A id \in Id : idToKey[id] # key[d]
  BY DEF MapInv, Removing
<1>2. nextKey \in Nat /\ nextKey' \in Nat /\ key[d] \in Nat /\ key[d] # 0
  BY <1>1, VectorStoreAssumption DEF MapInv, TypeOK, MapType, Key
<1>3. \A id \in Id : idToKey[id] \in Nat /\ idToKey'[id] \in Nat
  BY VectorStoreAssumption DEF MapInv, TypeOK, MapType
<1> QED BY <1>1, <1>2, <1>3

\* What a save clones of the current map is sound.
LEMMA CurrentSound ==
    ASSUME MapInv
    PROVE  SoundMap([ids |-> idToKey, next |-> nextKey]) /\ SoundMap(EmptyMap)
BY VectorStoreAssumption DEF MapInv, TypeOK, MapType, Forward, SoundMap, EmptyMap

\* Saved maps are clones of a current one, or come from files.
ClonesMaps == \A km \in SavedMaps' :
    km \in SavedMaps \/ km = EmptyMap \/ km = [ids |-> idToKey, next |-> nextKey]

\* The pieces of the invariant a step has to establish.
LEMMA MapPieces ==
    ASSUME MapInv, TypeOK', Forward', Backward', FreshIds', \A d \in Caller : Removing(d)', ClonesMaps
    PROVE  MapInv'
<1>1. \A km \in SavedMaps' : SoundMap(km)
  BY CurrentSound DEF MapInv, ClonesMaps
<1>2. \A km \in SavedMaps' : SoundMap(km)'
  BY <1>1 DEF SoundMap
<1> QED BY <1>2 DEF MapInv

\* A step that leaves the maps alone and starts no remove.
LEMMA MapsStand ==
    ASSUME MapInv, TypeOK', UNCHANGED maps, ClonesMaps, KeepsRemoves,
           \A d \in Caller : pc'[d] = "remove_key" => pc[d] = "remove_key" /\ key'[d] = key[d]
    PROVE  MapInv'
<1>1. Forward' /\ Backward' /\ FreshIds'
  BY DEF MapInv, Forward, Backward, FreshIds, maps, KeepsRemoves
<1>2. nextKey <= nextKey'
  BY DEF MapInv, TypeOK, MapType, maps
<1>3. \A d \in Caller : Removing(d)'
  BY <1>2, OthersRemove DEF maps
<1> QED BY <1>1, <1>3, MapPieces

-----------------------------------------------------------------------------
(* The maps agree, through every step and restart.                         *)

\* A step of a writer, a searcher or a saver.
LEMMA MapLive == ASSUME MapInv, Live, TypeOK' PROVE MapInv'
<1>1. /\ pc \in [Caller -> Label] /\ key \in [Caller -> 0..MaxKey] /\ keyMap \in [Caller -> KeyMap]
      /\ idToKey \in [Id -> 0..MaxKey] /\ keyToId \in [Key -> Vector] /\ nextKey \in 1..MaxKey + 1
      /\ TypeOK
  BY DEF MapInv, TypeOK, MapType, LocalType
\* Where a caller is, what it remembers, and what the others do.
<1>2. ASSUME NEW c \in Caller, NEW label, Goto(c, label)
      PROVE  pc'[c] = label /\ \A d \in Caller \ {c} : pc'[d] = pc[d]
  BY <1>1, <1>2 DEF Goto
<1>3. ASSUME NEW c \in Caller, Return(c), UNCHANGED files, pc[c] # "remove_key"
      PROVE  /\ ClonesMaps /\ KeepsRemoves
             /\ \A d \in Caller : pc'[d] = "remove_key" => pc[d] = "remove_key" /\ key'[d] = key[d]
  <2>1. /\ pc'[c] = "idle" /\ keyMap'[c] = EmptyMap
        /\ \A d \in Caller \ {c} : pc'[d] = pc[d] /\ key'[d] = key[d] /\ keyMap'[d] = keyMap[d]
    BY <1>1, <1>3 DEF Return, Goto
  <2>2. ClonesMaps
    BY <1>3, <2>1 DEF ClonesMaps, SavedMaps, files
  <2> QED BY <1>3, <2>1, <2>2 DEF KeepsRemoves
<1>4. ASSUME NEW c \in Caller, NEW label, Goto(c, label), label # "remove_key", pc[c] # "remove_key",
             \A d \in Caller \ {c} : key'[d] = key[d]
      PROVE  /\ KeepsRemoves
             /\ \A d \in Caller : pc'[d] = "remove_key" => pc[d] = "remove_key" /\ key'[d] = key[d]
  BY <1>2, <1>4 DEF KeepsRemoves
<1>5. ASSUME UNCHANGED <<keyMap, keysTmp, keysFile>> PROVE ClonesMaps
  BY <1>5 DEF ClonesMaps, SavedMaps
<1>6. ASSUME NEW c \in Caller,
             (\E id \in Id : UpsertResolve(c, id)) \/ (\E ids \in SUBSET Id : BatchAssign(c, ids))
      PROVE  MapInv'
  <2>1. HandsOut
    BY <1>1, <1>6, ResolveHandsOut, AssignHandsOut
  <2>2. /\ pc[c] = "idle"
        /\ Goto(c, "upsert_add") \/ Goto(c, "batch_insert")
        /\ UNCHANGED <<keyMap, files>> /\ \A d \in Caller \ {c} : key'[d] = key[d]
    BY <1>1, <1>6 DEF UpsertResolve, BatchAssign
  <2>3. KeepsRemoves /\ \A d \in Caller : pc'[d] = "remove_key" => pc[d] = "remove_key" /\ key'[d] = key[d]
    BY <1>4, <2>2
  <2>4. ClonesMaps
    BY <1>5, <2>2 DEF files
  <2>5. Forward' /\ Backward' /\ FreshIds'
    BY <2>1, <2>3, HandsOutKeepsMaps
  <2>6. ASSUME NEW d \in Caller PROVE Removing(d)'
    BY <2>1, <2>3, OthersRemove DEF HandsOut
  <2> QED BY <2>4, <2>5, <2>6, MapPieces
<1>7. ASSUME NEW c \in Caller, UpsertAdd(c) \/ BatchRefuse(c) \/ BatchInsert(c) \/ RemoveVector(c)
      PROVE  MapInv'
  <2>1. Return(c) /\ UNCHANGED <<maps, files>> /\ pc[c] # "remove_key"
    BY <1>7 DEF UpsertAdd, BatchRefuse, BatchInsert, RemoveVector
  <2> QED BY <1>3, <2>1, MapsStand
<1>8. ASSUME NEW c \in Caller, NEW id \in Id, RemoveId(c, id) PROVE MapInv'
  <2>1. /\ pc[c] = "idle" /\ idToKey[id] # 0 /\ Goto(c, "remove_key")
        /\ key' = [key EXCEPT ![c] = idToKey[id]] /\ idToKey' = [idToKey EXCEPT ![id] = 0]
        /\ UNCHANGED <<keyToId, nextKey, keyMap, files>>
    BY <1>8 DEF RemoveId
  <2>2. /\ keyToId[idToKey[id]] = id /\ idToKey[id] < nextKey /\ idToKey[id] \in Key
        /\ \A i \in Id : idToKey[i] # 0 => keyToId[idToKey[i]] = i
    BY <1>1, <2>1 DEF MapInv, Forward, Key
  <2>3. Forward' /\ FreshIds'
    BY <1>1, <2>1 DEF MapInv, Forward, FreshIds
  <2>4. pc'[c] = "remove_key" /\ key'[c] = idToKey[id] /\ KeepsRemoves
    BY <1>1, <1>2, <2>1 DEF KeepsRemoves
  <2>5. Backward'
    <3> SUFFICES ASSUME NEW k \in Key, keyToId[k] # NoId
                 PROVE  \/ idToKey'[keyToId[k]] = k
                        \/ \E d \in Caller : pc'[d] = "remove_key" /\ key'[d] = k
      BY <2>1 DEF Backward
    <3>1. CASE keyToId[k] = id /\ idToKey[id] = k
      BY <2>4, <3>1
    <3>2. CASE keyToId[k] # id /\ idToKey[keyToId[k]] = k
      BY <1>1, <2>1, <3>2 DEF Vector
    <3>3. CASE \E d \in Caller : pc[d] = "remove_key" /\ key[d] = k
      BY <2>4, <3>3 DEF KeepsRemoves
    <3> QED BY <3>1, <3>2, <3>3 DEF MapInv, Backward
  <2>6. Removing(c)'
    <3>1. \A i \in Id : idToKey'[i] # idToKey[id]
      BY <1>1, <2>1, <2>2
    <3> QED BY <2>1, <2>2, <2>4, <3>1 DEF Removing
  <2>7. ASSUME NEW d \in Caller \ {c} PROVE Removing(d)'
    <3>1. pc'[d] = pc[d] /\ key'[d] = key[d]
      BY <1>1, <1>2, <2>1
    <3>2. nextKey <= nextKey' /\ \A i \in Id : idToKey'[i] \in {0, idToKey[i]}
      BY <1>1, <2>1
    <3> QED BY <3>1, <3>2, OthersRemove
  <2> QED BY <1>5, <2>1, <2>3, <2>5, <2>6, <2>7, MapPieces DEF files
<1>9. ASSUME NEW c \in Caller, RemoveKey(c) PROVE MapInv'
  <2>1. /\ pc[c] = "remove_key" /\ keyToId' = [keyToId EXCEPT ![key[c]] = NoId]
        /\ Goto(c, "remove_vector") /\ UNCHANGED <<idToKey, nextKey, key, keyMap, files>>
    BY <1>9 DEF RemoveKey, local
  <2>2. key[c] \in Key /\ \A id \in Id : idToKey[id] # key[c]
    BY <2>1 DEF MapInv, Removing
  <2>3. keyToId'[key[c]] = NoId /\ \A k \in Key : k # key[c] => keyToId'[k] = keyToId[k]
    BY <1>1, <2>1, <2>2
  <2>4. Forward' /\ FreshIds'
    BY <1>1, <2>1, <2>2, <2>3 DEF MapInv, Forward, FreshIds, Key
  <2>5. Backward'
    <3> SUFFICES ASSUME NEW k \in Key, k # key[c], keyToId[k] # NoId
                 PROVE  \/ idToKey[keyToId[k]] = k
                        \/ \E d \in Caller : pc'[d] = "remove_key" /\ key[d] = k
      BY <2>1, <2>3 DEF Backward
    <3> QED BY <1>2, <2>1 DEF MapInv, Backward
  <2>6. ASSUME NEW d \in Caller PROVE Removing(d)'
    <3>1. pc'[d] = "remove_key" => pc[d] = "remove_key" /\ key'[d] = key[d]
      BY <1>2, <2>1
    <3>2. nextKey <= nextKey' /\ \A i \in Id : idToKey'[i] \in {0, idToKey[i]}
      BY <1>1, <2>1
    <3> QED BY <3>1, <3>2, OthersRemove
  <2> QED BY <1>5, <2>1, <2>4, <2>5, <2>6, MapPieces DEF files
<1>10. ASSUME NEW c \in Caller, Search(c) PROVE MapInv'
  <2>1. UNCHANGED <<maps, files>> /\ pc[c] # "remove_key"
    BY <1>10 DEF Search, SearchIndex, SearchResolve
  <2>2. CASE Return(c)
    BY <1>3, <2>1, <2>2, MapsStand
  <2>3. CASE Goto(c, "search_resolve") /\ UNCHANGED <<key, keyMap>>
    BY <1>4, <1>5, <2>1, <2>3, MapsStand DEF files
  <2> QED BY <1>10, <2>2, <2>3 DEF Search, SearchIndex, SearchResolve
<1>11. ASSUME NEW c \in Caller, Save(c) PROVE MapInv'
  <2>1. UNCHANGED maps /\ pc[c] # "remove_key"
    BY <1>11 DEF Save, SaveKeyMap, SaveIndex, RenameIndex, WriteKeys, RenameKeys
  <2>2. ASSUME Return(c), keysFile' \in {keysFile, keysTmp}, keysTmp' \subseteq keysTmp
        PROVE  MapInv'
    <3>1. /\ pc'[c] = "idle" /\ keyMap'[c] = EmptyMap
          /\ \A d \in Caller \ {c} : pc'[d] = pc[d] /\ key'[d] = key[d] /\ keyMap'[d] = keyMap[d]
      BY <1>1, <2>2 DEF Return, Goto
    <3>2. ClonesMaps
      BY <2>2, <3>1 DEF ClonesMaps, SavedMaps
    <3>3. KeepsRemoves /\ \A d \in Caller : pc'[d] = "remove_key" => pc[d] = "remove_key" /\ key'[d] = key[d]
      BY <2>1, <3>1 DEF KeepsRemoves
    <3> QED BY <2>1, <3>2, <3>3, MapsStand
  <2>3. ASSUME NEW label \in Label \ {"remove_key"}, Goto(c, label), UNCHANGED key, ClonesMaps
        PROVE  MapInv'
    BY <1>4, <2>1, <2>3, MapsStand
  <2>4. CASE SaveKeyMap(c)
    <3>1. /\ keyMap'[c] = [ids |-> idToKey, next |-> nextKey]
          /\ \A d \in Caller \ {c} : keyMap'[d] = keyMap[d]
          /\ UNCHANGED <<keysTmp, keysFile>>
      BY <1>1, <2>4 DEF SaveKeyMap, files
    <3>2. ClonesMaps
      BY <3>1 DEF ClonesMaps, SavedMaps
    <3> QED BY <2>3, <2>4, <3>2 DEF SaveKeyMap, Label
  <2>5. CASE SaveIndex(c)
    BY <1>5, <2>3, <2>5 DEF SaveIndex, Label, local
  <2>6. CASE RenameIndex(c)
    BY <1>5, <2>2, <2>3, <2>6 DEF RenameIndex, Label, local
  <2>7. CASE WriteKeys(c)
    <3>1. ClonesMaps
      BY <2>7 DEF WriteKeys, ClonesMaps, SavedMaps, local
    <3> QED BY <2>3, <2>7, <3>1 DEF WriteKeys, Label, local
  <2>8. CASE RenameKeys(c)
    BY <2>2, <2>8 DEF RenameKeys
  <2> QED BY <1>11, <2>4, <2>5, <2>6, <2>7, <2>8 DEF Save
<1> QED BY <1>6, <1>7, <1>8, <1>9, <1>10, <1>11 DEF Live, Write, Caller

\* Whatever files the process left, the next one starts with maps that agree.
LEMMA MapRestart == ASSUME MapInv, Restart, TypeOK' PROVE MapInv'
<1>1. TypeOK /\ \A km \in SavedMaps : SoundMap(km)
  BY DEF MapInv
<1>2. PICK vec \in hnswFile \cup {EmptyIndex}, km \in keysFile \cup {EmptyMap} : LoadFrom(vec, km)
  BY <1>1, RestartLoads
<1>3. km \in KeyMap /\ SoundMap(km)
  BY <1>1, CurrentSound, KeysAreKeys DEF TypeOK, FileType, SavedMaps
<1>4. /\ idToKey' = km.ids /\ nextKey' = km.next
      /\ km.ids \in [Id -> 0..MaxKey] /\ km.next \in 1..MaxKey + 1
      /\ \A id \in Id : km.ids[id] # 0 =>
            km.ids[id] < km.next /\ \A j \in Id : km.ids[j] = km.ids[id] => j = id
  BY <1>2, <1>3 DEF LoadFrom, KeyMap, SoundMap
<1>5. ASSUME NEW k \in Key
      PROVE  IF \E id \in Id : km.ids[id] = k
             THEN keyToId'[k] \in Id /\ km.ids[keyToId'[k]] = k
             ELSE keyToId'[k] = NoId
  <2>1. keyToId'[k] = IF \E id \in Id : km.ids[id] = k
                        THEN CHOOSE id \in Id : km.ids[id] = k ELSE NoId
    BY <1>2 DEF LoadFrom
  <2>2. CASE \E id \in Id : km.ids[id] = k
    BY <2>1, <2>2
  <2> QED BY <2>1, <2>2
<1>6. Forward'
  <2> SUFFICES ASSUME NEW id \in Id, km.ids[id] # 0
               PROVE  keyToId'[km.ids[id]] = id /\ km.ids[id] < km.next
    BY <1>4 DEF Forward
  <2>1. km.ids[id] \in Key
    BY <1>4, VectorStoreAssumption DEF Key
  <2> QED BY <1>4, <1>5, <2>1
<1>7. Backward' /\ FreshIds'
  <2>1. ASSUME NEW k \in Key, keyToId'[k] # NoId
        PROVE  /\ idToKey'[keyToId'[k]] = k /\ k < nextKey' /\ k \in Nat /\ nextKey' \in Nat
    BY <1>4, <1>5, <2>1, VectorStoreAssumption DEF Key
  <2>2. Backward'
    BY <2>1 DEF Backward
  <2>3. FreshIds'
    BY <2>1 DEF FreshIds
  <2> QED BY <2>2, <2>3
<1>8. ASSUME NEW d \in Caller PROVE Removing(d)'
  BY <1>1, RestartLoads DEF Removing
<1>9. ClonesMaps
  BY <1>1, RestartLoads DEF ClonesMaps, SavedMaps, files
<1> QED BY <1>6, <1>7, <1>8, <1>9, MapPieces

\* The maps agree at the start, and after every step and restart.
LEMMA MapInductive == (Init => MapInv) /\ (MapInv /\ [Next]_vars => MapInv')
<1>1. ASSUME Init PROVE MapInv
  <2> USE VectorStoreAssumption, <1>1 DEF Init
  <2>1. TypeOK
    BY TypeInit
  <2>2. Forward /\ Backward /\ FreshIds /\ \A c \in Caller : Removing(c)
    BY DEF EmptyMap, EmptyIndex, Forward, Backward, FreshIds, Removing
  <2>3. \A km \in SavedMaps : SoundMap(km)
    BY DEF SavedMaps, SoundMap, EmptyMap
  <2> QED BY <2>1, <2>2, <2>3 DEF MapInv
<1>2. ASSUME MapInv, [Next]_vars PROVE MapInv'
  <2>1. TypeOK'
    BY <1>2, TypeStep DEF MapInv
  <2>2. CASE UNCHANGED vars
    <3>1. ClonesMaps
      BY <2>2 DEF vars, local, files, ClonesMaps, SavedMaps
    <3> QED BY <1>2, <2>1, <2>2, <3>1, MapsStand DEF vars, local, KeepsRemoves
  <2> QED BY <1>2, <2>1, <2>2, MapLive, MapRestart DEF Next
<1> QED BY <1>1, <1>2

\* Under any interleaving of single and batch upserts, removals, searches and saves, and
\* through any restarts, the two key maps agree.
THEOREM MapsAgree == Spec => []KeyMapsAgree
<1>1. MapInv => KeyMapsAgree
  BY DEF MapInv, Forward, Backward, KeyMapsAgree, AtRest
<1> QED BY <1>1, MapInductive, PTL DEF Spec

-----------------------------------------------------------------------------
(* The cap.                                                                *)

\* A vector more at one key is one more at most.
LEMMA SizePut ==
    ASSUME NEW vec \in [Key -> Vector], NEW k, NEW id \in Vector
    PROVE  /\ Size([vec EXCEPT ![k] = id]) <= Size(vec) + 1
           /\ Size([vec EXCEPT ![k] = NoId]) <= Size(vec)
<1> DEFINE put == [vec EXCEPT ![k] = id]
           cut == [vec EXCEPT ![k] = NoId]
<1>1. put \in [Key -> Vector] /\ cut \in [Key -> Vector]
  BY KeysAreKeys
<1>2. Stored(put) \in SUBSET (Stored(vec) \cup {k}) /\ Stored(cut) \in SUBSET Stored(vec)
  BY DEF Stored
<1>3. IsFiniteSet(Stored(vec)) /\ Size(vec) \in Nat /\ Size(put) \in Nat /\ Size(cut) \in Nat
  BY <1>1, SizeType
<1> HIDE DEF put, cut
<1>4. /\ IsFiniteSet(Stored(vec) \cup {k})
      /\ Cardinality(Stored(vec) \cup {k}) = Cardinality(Stored(vec))
         \/ Cardinality(Stored(vec) \cup {k}) = Cardinality(Stored(vec)) + 1
  BY <1>3, FS_AddElement
<1>5. /\ Cardinality(Stored(put)) <= Cardinality(Stored(vec) \cup {k})
      /\ Cardinality(Stored(cut)) <= Cardinality(Stored(vec))
  BY <1>2, <1>3, <1>4, FS_Subset
<1> QED BY <1>3, <1>4, <1>5 DEF Size, put, cut

\* A batch adds at most one vector for each of its new ids.
LEMMA SizeBatch ==
    ASSUME TypeOK, TypeOK', NEW c \in Caller, BatchInsert(c)
    PROVE  Size(index) < maxElem /\ Size(index') <= Size(index) + Cardinality(items[c])
<1>1. PICK done \in SUBSET Mapped(c) :
         index' = [k \in Key |->
                IF \E id \in done : idToKey[id] = k
                  THEN CHOOSE id \in done : idToKey[id] = k
                  ELSE index[k]]
  BY DEF BatchInsert, InsertMapped
<1> DEFINE new == {id \in done : IsNew(id)}
           place == [id \in new |-> idToKey[id]]
           at == {place[id] : id \in new}
<1>2. index \in [Key -> Vector] /\ index' \in [Key -> Vector] /\ done \subseteq Id
  BY DEF TypeOK, MapType, LocalType, Mapped
<1>3. IsFiniteSet(new) /\ Cardinality(new) <= Cardinality(items[c]) /\ Cardinality(items[c]) \in Nat
  <2>1. items[c] \in SUBSET Id /\ new \in SUBSET items[c]
    BY DEF TypeOK, LocalType, Mapped
  <2>2. IsFiniteSet(items[c])
    BY <2>1, VectorStoreAssumption, FS_Subset
  <2> HIDE DEF new
  <2> QED BY <2>1, <2>2, FS_Subset, FS_CardinalityType
<1>4. IsFiniteSet(at) /\ Cardinality(at) <= Cardinality(new)
  <2>1. place \in Surjection(new, at)
    BY DEF Surjection
  <2> HIDE DEF place, at, new
  <2> QED BY <1>3, <2>1, FS_Surjection
<1>5. Stored(index') \in SUBSET (Stored(index) \cup at)
  <2> SUFFICES ASSUME NEW k \in Key, index'[k] # NoId, index[k] = NoId PROVE k \in at
    BY <1>2 DEF Stored
  <2>1. \E id \in done : idToKey[id] = k
    BY <1>1
  <2>2. PICK id \in done : idToKey[id] = k
    BY <2>1
  <2>3. id \in new
    BY <2>2 DEF IsNew
  <2> QED BY <2>2, <2>3
<1>6. IsFiniteSet(Stored(index)) /\ Size(index) \in Nat /\ Size(index') \in Nat
  BY <1>2, SizeType
<1> HIDE DEF at, new
<1>7. /\ Cardinality(at) \in Nat /\ Cardinality(new) \in Nat
      /\ IsFiniteSet(Stored(index) \cup at)
      /\ Cardinality(Stored(index) \cup at) \in Nat
      /\ Cardinality(Stored(index) \cup at) <= Cardinality(Stored(index)) + Cardinality(at)
  <2>1. /\ IsFiniteSet(Stored(index) \cup at)
        /\ Cardinality(Stored(index) \cup at) =
              Cardinality(Stored(index)) + Cardinality(at) - Cardinality(Stored(index) \cap at)
    BY <1>4, <1>6, FS_Union
  <2>2. IsFiniteSet(Stored(index) \cap at)
    BY <1>4, FS_Intersection
  <2>3. /\ Cardinality(at) \in Nat /\ Cardinality(new) \in Nat /\ Cardinality(Stored(index)) \in Nat
        /\ Cardinality(Stored(index) \cap at) \in Nat
    BY <1>3, <1>4, <1>6, <2>2, FS_CardinalityType
  <2>4. Cardinality(Stored(index) \cup at) \in Nat
    BY <2>1, FS_CardinalityType
  <2>5. \A a, b, i, n \in Nat : n = a + b - i => n <= a + b
    OBVIOUS
  <2>6. Cardinality(Stored(index) \cup at) <= Cardinality(Stored(index)) + Cardinality(at)
    BY <2>1, <2>3, <2>4, <2>5
  <2> QED BY <2>1, <2>3, <2>4, <2>6
<1>8. Cardinality(Stored(index')) <= Cardinality(Stored(index) \cup at)
  BY <1>5, <1>7, FS_Subset
<1>9. Size(index') <= Size(index) + Cardinality(items[c])
  BY <1>3, <1>4, <1>6, <1>7, <1>8 DEF Size
<1> QED BY <1>9 DEF BatchInsert

\* Within a life a step adds to an index that is below the cap only, and less than a
\* batch beyond it.
LEMMA SizeLive ==
    ASSUME TypeOK, TypeOK', BatchFits, Live
    PROVE  /\ Size(index') <= Size(index) \/ Size(index') <= maxElem - 1 + MaxBatch
           /\ UNCHANGED life
           /\ \A vec \in hnswTmp' \cup hnswFile' : vec \in Vectors
<1> DEFINE Fits == Size(index') <= Size(index) \/ Size(index') <= maxElem - 1 + MaxBatch
           Files == \A vec \in hnswTmp' \cup hnswFile' : vec \in Vectors
<1>1. index \in [Key -> Vector] /\ index' \in [Key -> Vector]
  BY DEF TypeOK, MapType
<1>2. Size(index) \in Nat /\ Size(index') \in Nat /\ maxElem \in Nat \ {0} /\ MaxBatch \in Nat \ {0}
  BY <1>1, SizeType, VectorStoreAssumption DEF TypeOK, LifeType
<1>3. index' = index => Fits
  BY <1>2
<1>4. UNCHANGED files => Files
  BY DEF files, Vectors
<1>5. ASSUME NEW c \in Caller, UpsertAdd(c) PROVE Fits /\ UNCHANGED life /\ Files
  <2> DEFINE freed == [index EXCEPT ![key[c]] = NoId]
  <2>1. PICK id \in items[c] : index' = IF Size(freed) >= maxElem THEN freed
                                         ELSE [freed EXCEPT ![key[c]] = id]
    BY <1>5 DEF UpsertAdd
  <2>2. id \in Vector /\ freed \in [Key -> Vector]
    BY <1>1, KeysAreKeys DEF TypeOK, LocalType, Vector
  <2>3. Size(freed) <= Size(index) /\ Size(freed) \in Nat
    BY <1>1, <2>2, SizePut, SizeType
  <2>4. Size([freed EXCEPT ![key[c]] = id]) <= Size(freed) + 1
    <3> HIDE DEF freed
    <3> QED BY <2>2, SizePut
  <2> HIDE DEF freed
  <2>5. Fits
    <3>1. CASE Size(freed) >= maxElem
      BY <2>1, <2>3, <3>1
    <3>2. CASE ~(Size(freed) >= maxElem)
      BY <1>2, <2>1, <2>3, <2>4, <3>2
    <3> QED BY <3>1, <3>2
  <2> QED BY <1>4, <1>5, <2>5 DEF UpsertAdd
<1>6. ASSUME NEW c \in Caller, BatchInsert(c) PROVE Fits /\ UNCHANGED life /\ Files
  <2>1. Size(index) < maxElem /\ Size(index') <= Size(index) + Cardinality(items[c])
    BY <1>6, SizeBatch
  <2>2. Cardinality(items[c]) <= MaxBatch /\ Cardinality(items[c]) \in Nat
    <3>1. IsFiniteSet(items[c])
      BY VectorStoreAssumption, FS_Subset DEF TypeOK, LocalType
    <3> QED BY <1>6, <3>1, FS_CardinalityType DEF BatchInsert, BatchFits
  <2>3. Fits
    BY <1>2, <2>1, <2>2
  <2> QED BY <1>4, <1>6, <2>3 DEF BatchInsert
<1>7. ASSUME NEW c \in Caller, RemoveVector(c) PROVE Fits /\ UNCHANGED life /\ Files
  <2>1. index' = [index EXCEPT ![key[c]] = NoId]
    BY <1>7 DEF RemoveVector
  <2>2. Size(index') <= Size(index)
    BY <1>1, <2>1, SizePut, KeysAreKeys
  <2> QED BY <1>4, <1>7, <2>2 DEF RemoveVector
<1>8. ASSUME NEW c \in Caller,
             \/ \E id \in Id : UpsertResolve(c, id) \/ RemoveId(c, id)
             \/ \E ids \in SUBSET Id : BatchAssign(c, ids)
             \/ BatchRefuse(c) \/ RemoveKey(c) \/ Search(c)
      PROVE  Fits /\ UNCHANGED life /\ Files
  <2>1. UNCHANGED <<index, files, life>>
    BY <1>8 DEF UpsertResolve, RemoveId, BatchAssign, BatchRefuse, RemoveKey, Search, SearchIndex,
                SearchResolve
  <2> QED BY <1>3, <1>4, <2>1
<1>9. ASSUME NEW c \in Caller, Save(c) PROVE Fits /\ UNCHANGED life /\ Files
  <2>1. UNCHANGED <<index, life>>
    BY <1>9 DEF Save, SaveKeyMap, SaveIndex, RenameIndex, WriteKeys, RenameKeys
  <2>2. Files
    BY <1>9 DEF Save, SaveKeyMap, SaveIndex, RenameIndex, WriteKeys, RenameKeys, files, Vectors
  <2> QED BY <1>3, <2>1, <2>2
<1> HIDE DEF Fits, Files
<1>10. Fits /\ UNCHANGED life /\ Files
  BY <1>5, <1>6, <1>7, <1>8, <1>9 DEF Live, Write, Caller
<1> QED BY <1>10 DEF Fits, Files

\* A batch on its way is one that was begun with no more than MaxBatch items.
LEMMA BatchFitsLive == ASSUME TypeOK, BatchFits, Live PROVE BatchFits'
<1> SUFFICES ASSUME NEW d \in Caller, pc'[d] = "batch_insert"
             PROVE  Cardinality(items'[d]) <= MaxBatch
  BY DEF BatchFits
<1>1. ASSUME NEW c \in Caller,
             \/ Return(c)
             \/ \E l \in Label \ {"batch_insert"} :
                   Goto(c, l) /\ (items' = items \/ \E id \in Id : items' = [items EXCEPT ![c] = {id}])
             \/ \E ids \in SUBSET Id : /\ Cardinality(ids) <= MaxBatch
                                       /\ items' = [items EXCEPT ![c] = ids]
                                       /\ Goto(c, "batch_insert")
      PROVE  Cardinality(items'[d]) <= MaxBatch
  BY <1>1 DEF TypeOK, LocalType, Return, Goto, BatchFits, Label
<1>2. ASSUME NEW c \in Caller, Write(c) PROVE Cardinality(items'[d]) <= MaxBatch
  BY <1>1, <1>2 DEF Write, UpsertResolve, UpsertAdd, BatchAssign, BatchRefuse, BatchInsert,
                    RemoveId, RemoveKey, RemoveVector, Label, local
<1>3. ASSUME NEW c \in Caller, Search(c) PROVE Cardinality(items'[d]) <= MaxBatch
  BY <1>1, <1>3 DEF Search, SearchIndex, SearchResolve, Label
<1>4. ASSUME NEW c \in Caller, Save(c) PROVE Cardinality(items'[d]) <= MaxBatch
  BY <1>1, <1>4 DEF Save, SaveKeyMap, SaveIndex, RenameIndex, WriteKeys, RenameKeys, Label, local
<1> QED BY <1>2, <1>3, <1>4 DEF Live, Caller

\* Each step and each restart keeps the bounds, of the index and of every saved one.
LEMMA SizeStep == SizeInv /\ [Next]_vars => SizeInv'
<1> SUFFICES ASSUME SizeInv, [Next]_vars PROVE SizeInv'
  OBVIOUS
<1>1. TypeOK /\ TypeOK' /\ BatchFits
  BY TypeStep DEF SizeInv
<1>2. /\ maxElem \in Nat \ {0} /\ highest \in Nat /\ loaded \in Nat
      /\ maxElem' \in Nat \ {0} /\ highest' \in Nat /\ loaded' \in Nat
      /\ MaxBatch \in Nat \ {0} /\ maxElem <= highest
  BY <1>1, VectorStoreAssumption DEF TypeOK, LifeType, SizeInv
<1>3. \A vec \in Vectors \cup {index'} : Size(vec) \in Nat
  BY <1>1, SizeType DEF TypeOK, MapType, FileType, Vectors
<1>4. ASSUME highest <= highest', Size(index') <= highest' - 1 + MaxBatch,
             \A vec \in hnswTmp' \cup hnswFile' : vec \in Vectors
      PROVE  SavedSize'
  <2>1. ASSUME NEW vec \in Vectors' PROVE Size(vec) <= highest' - 1 + MaxBatch
    <3>1. CASE vec = index'
      BY <1>4, <3>1
    <3>2. CASE vec # index'
      BY <1>2, <1>3, <1>4, <3>2 DEF SizeInv, SavedSize, Vectors
    <3> QED BY <3>1, <3>2
  <2>2. \A vec \in Vectors' : Size(vec)' <= (highest - 1 + MaxBatch)'
    BY <2>1 DEF Size, Stored
  <2> QED BY <2>2 DEF SavedSize
<1>5. CASE Live
  <2>1. /\ Size(index') <= Size(index) \/ Size(index') <= maxElem - 1 + MaxBatch
        /\ UNCHANGED life
        /\ \A vec \in hnswTmp' \cup hnswFile' : vec \in Vectors
    BY <1>1, <1>5, SizeLive
  <2>2. /\ Size(index) <= Larger(loaded, maxElem - 1 + MaxBatch)
        /\ Size(index) <= highest - 1 + MaxBatch
        /\ Size(index) \in Nat /\ Size(index') \in Nat
    BY <1>3 DEF SizeInv, SizeBounded, Vectors
  <2>3. /\ Size(index') <= Larger(loaded, maxElem - 1 + MaxBatch)
        /\ Size(index') <= highest - 1 + MaxBatch
    BY <1>2, <2>1, <2>2 DEF Larger
  <2>4. SizeBounded' /\ maxElem' <= highest'
    BY <1>2, <2>1, <2>3 DEF life, SizeBounded, Size, Stored
  <2>5. SavedSize'
    BY <1>2, <1>4, <2>1, <2>3 DEF life
  <2> QED BY <1>1, <1>5, <2>4, <2>5, BatchFitsLive DEF SizeInv
<1>6. CASE Restart
  <2>1. PICK vec \in hnswFile \cup {EmptyIndex}, km \in keysFile \cup {EmptyMap} : LoadFrom(vec, km)
    BY <1>1, <1>6, RestartLoads
  <2>2. Size(EmptyIndex) = 0
    <3>1. Stored(EmptyIndex) = {}
      BY DEF Stored, EmptyIndex
    <3> QED BY <3>1, FS_EmptySet DEF Size
  <2>3. maxElem' <= highest' /\ highest <= highest' /\ loaded' = Size(index')
    BY <1>2, <1>6 DEF Restart, Larger
  <2>4. Size(vec) <= highest - 1 + MaxBatch /\ index' = vec
    BY <1>2, <2>1, <2>2 DEF LoadFrom, SizeInv, SavedSize, Vectors
  <2>5. Size(index') <= highest' - 1 + MaxBatch
    BY <1>2, <1>3, <2>3, <2>4
  <2>6. Size(index') <= Larger(loaded', maxElem' - 1 + MaxBatch)
    BY <1>2, <1>3, <2>3 DEF Larger
  <2>7. SizeBounded'
    BY <2>5, <2>6 DEF SizeBounded, Size, Stored
  <2>8. SavedSize'
    BY <1>1, <1>4, <1>6, <2>3, <2>5, RestartLoads DEF files, Vectors
  <2>9. BatchFits'
    BY <1>1, <1>6, RestartLoads DEF BatchFits
  <2> QED BY <1>1, <2>3, <2>7, <2>8, <2>9 DEF SizeInv
<1>7. CASE UNCHANGED vars
  <2>1. UNCHANGED <<index, hnswTmp, hnswFile, loaded, maxElem, highest, pc, items>>
    BY <1>7 DEF vars, files, life, local
  <2> QED BY <1>1, <2>1 DEF SizeInv, SizeBounded, SavedSize, BatchFits, Size, Stored, Vectors
<1> QED BY <1>5, <1>6, <1>7 DEF Next

\* Single and batch upserts, in any number and order, take the index less than one batch
\* beyond its cap, and restarts under any caps do not make it more.
THEOREM Bounded == Spec => []SizeBounded
<1>1. Init => SizeInv
  <2> SUFFICES ASSUME Init PROVE SizeInv
    OBVIOUS
  <2>1. \A vec \in Vectors : Size(vec) = 0
    <3>1. \A vec \in Vectors : Stored(vec) = {}
      BY DEF Init, Vectors, Stored, EmptyIndex
    <3> QED BY <3>1, FS_EmptySet DEF Size
  <2>2. /\ maxElem \in Nat \ {0} /\ highest = maxElem /\ loaded = 0 /\ index \in Vectors
        /\ MaxBatch \in Nat \ {0}
    BY VectorStoreAssumption DEF Init, Vectors
  <2>3. SizeBounded /\ SavedSize
    BY <2>1, <2>2 DEF SizeBounded, SavedSize, Larger
  <2>4. BatchFits
    BY DEF Init, BatchFits
  <2> QED BY <2>2, <2>3, <2>4, TypeInit DEF SizeInv
<1>2. SizeInv => SizeBounded
  BY DEF SizeInv
<1> QED BY <1>1, <1>2, SizeStep, PTL DEF Spec

-----------------------------------------------------------------------------
(* One life of the process: every key has one owner.                       *)

\* What a step does to the index, if anything: it drops vectors, or stores one at the key
\* of the id it belongs to.
StoresOwn(owner) == \A k \in Key : index'[k] \in {NoId, owner[k]}

\* Files hold what they held, or the index as it is.
ClonesIndex == \A vec \in hnswTmp' \cup hnswFile' : vec \in Vectors

\* A step that hands out no key changes no owner.
LEMMA OwnersStand ==
    ASSUME MapInv, NEW owner \in [Key -> Vector], Owned(owner),
           UNCHANGED nextKey,
           \A k \in Key : keyToId'[k] \in {NoId, keyToId[k]},
           \A id \in Id : idToKey'[id] \in {0, idToKey[id]},
           StoresOwn(owner), ClonesIndex, ClonesMaps,
           \A c \in Caller : pc'[c] = "upsert_add" =>
               pc[c] = "upsert_add" /\ key'[c] = key[c] /\ items'[c] = items[c],
           \A c \in Caller : \A m \in found'[c] : owner[m[1]] = m[2]
    PROVE  Owned(owner)'
<1>1. /\ \A k \in Key : k >= nextKey' => owner[k] = NoId
      /\ \A k \in Key : keyToId'[k] \in {NoId, owner[k]}
      /\ \A id \in Id : idToKey'[id] # 0 => owner[idToKey'[id]] = id
  BY DEF Owned
<1>2. \A km \in SavedMaps' : \A id \in Id : km.ids[id] # 0 => owner[km.ids[id]] = id
  <2> SUFFICES ASSUME NEW km \in SavedMaps', NEW id \in Id, km.ids[id] # 0 PROVE owner[km.ids[id]] = id
    OBVIOUS
  <2>1. CASE km \in SavedMaps
    BY <2>1 DEF Owned
  <2>2. CASE km = [ids |-> idToKey, next |-> nextKey]
    BY <2>2 DEF Owned
  <2>3. CASE km = EmptyMap
    BY <2>3 DEF EmptyMap
  <2> QED BY <2>1, <2>2, <2>3 DEF ClonesMaps
<1>3. \A vec \in Vectors' : \A k \in Key : vec[k] \in {NoId, owner[k]}
  BY DEF Vectors, StoresOwn, ClonesIndex, Owned
<1>4. \A c \in Caller : pc'[c] = "upsert_add" =>
          key'[c] \in Key /\ \A id \in items'[c] : owner[key'[c]] = id
  BY DEF Owned
<1> QED BY <1>1, <1>2, <1>3, <1>4 DEF Owned

\* A key handed out gets an owner; nothing knew of it before.
LEMMA OwnersJoin ==
    ASSUME MapInv, MapInv', NEW owner \in [Key -> Vector], Owned(owner), HandsOut,
           UNCHANGED <<files, keyMap, found>>,
           \A c \in Caller : pc'[c] = "upsert_add" =>
               \/ pc[c] = "upsert_add" /\ key'[c] = key[c] /\ items'[c] = items[c]
               \/ \E id \in Id : items'[c] = {id} /\ key'[c] = idToKey'[id] /\ key'[c] # 0
    PROVE  \E joined \in [Key -> Vector] : Owned(joined)'
<1>1. /\ nextKey \in Nat /\ nextKey' \in Nat /\ nextKey <= nextKey' /\ \A k \in Key : k \in Nat
      /\ idToKey \in [Id -> 0..MaxKey] /\ idToKey' \in [Id -> 0..MaxKey]
      /\ keyToId \in [Key -> Vector] /\ keyToId' \in [Key -> Vector]
      /\ UNCHANGED index
  BY VectorStoreAssumption DEF MapInv, TypeOK, MapType, HandsOut, Key
<1>2. PICK joined \in [Key -> Vector] :
        \A k \in Key : joined[k] = IF k < nextKey THEN owner[k] ELSE keyToId'[k]
  <2>1. [k \in Key |-> IF k < nextKey THEN owner[k] ELSE keyToId'[k]] \in [Key -> Vector]
    BY <1>1
  <2> QED BY <2>1
<1>3. ASSUME NEW k \in Key, NEW id \in Id, owner[k] = id PROVE joined[k] = id
  <2>1. k < nextKey
    BY <1>1, <1>3, VectorStoreAssumption DEF Owned
  <2> QED BY <1>2, <1>3, <2>1
<1>4. ASSUME NEW k \in Key, NEW id \in {NoId, owner[k]} PROVE id \in {NoId, joined[k]}
  <2>1. CASE k < nextKey
    BY <1>2, <1>4, <2>1
  <2>2. CASE ~(k < nextKey)
    BY <1>1, <1>2, <1>4, <2>2 DEF Owned
  <2> QED BY <2>1, <2>2
<1>5. \A k \in Key : keyToId'[k] \in {NoId, joined[k]}
  <2> SUFFICES ASSUME NEW k \in Key PROVE keyToId'[k] \in {NoId, joined[k]}
    OBVIOUS
  <2>1. CASE k < nextKey
    <3>1. keyToId'[k] = keyToId[k]
      BY <1>1, <2>1 DEF HandsOut
    <3> QED BY <1>2, <2>1, <3>1 DEF Owned
  <2>2. CASE ~(k < nextKey)
    BY <1>2, <2>2
  <2> QED BY <2>1, <2>2
<1>6. \A k \in Key : k >= nextKey' => joined[k] = NoId
  <2> SUFFICES ASSUME NEW k \in Key, k >= nextKey' PROVE joined[k] = NoId
    OBVIOUS
  <2>1. ~(k < nextKey)
    BY <1>1
  <2>2. keyToId'[k] = NoId
    BY DEF MapInv, FreshIds
  <2> QED BY <1>2, <2>1, <2>2
<1>7. \A id \in Id : idToKey'[id] # 0 => joined[idToKey'[id]] = id /\ idToKey'[id] \in Key
  <2> SUFFICES ASSUME NEW id \in Id, idToKey'[id] # 0 PROVE joined[idToKey'[id]] = id /\ idToKey'[id] \in Key
    OBVIOUS
  <2>1. idToKey'[id] \in Key /\ keyToId'[idToKey'[id]] = id /\ id # NoId
    BY <1>1, VectorStoreAssumption DEF MapInv, Forward, Key
  <2> QED BY <1>5, <2>1
<1>8. \A km \in SavedMaps' : \A id \in Id : km.ids[id] # 0 => joined[km.ids[id]] = id
  <2> SUFFICES ASSUME NEW km \in SavedMaps', NEW id \in Id, km.ids[id] # 0 PROVE joined[km.ids[id]] = id
    OBVIOUS
  <2>1. km \in SavedMaps
    BY DEF SavedMaps, files
  <2>2. km \in KeyMap
    BY <2>1 DEF MapInv, TypeOK, LocalType, FileType, SavedMaps
  <2>3. km.ids[id] \in Key /\ owner[km.ids[id]] = id
    BY <2>1, <2>2, VectorStoreAssumption DEF KeyMap, Key, Owned
  <2> QED BY <1>3, <2>3
<1>9. \A vec \in Vectors' : \A k \in Key : vec[k] \in {NoId, joined[k]}
  BY <1>1, <1>4 DEF Vectors, files, Owned
<1>10. \A c \in Caller : pc'[c] = "upsert_add" =>
          key'[c] \in Key /\ \A id \in items'[c] : joined[key'[c]] = id
  <2> SUFFICES ASSUME NEW c \in Caller, pc'[c] = "upsert_add"
               PROVE  key'[c] \in Key /\ \A id \in items'[c] : joined[key'[c]] = id
    OBVIOUS
  <2>1. CASE pc[c] = "upsert_add" /\ key'[c] = key[c] /\ items'[c] = items[c]
    <3>1. key[c] \in Key /\ \A id \in items[c] : owner[key[c]] = id
      BY <2>1 DEF Owned
    <3>2. items[c] \subseteq Id
      BY DEF MapInv, TypeOK, LocalType
    <3> QED BY <1>3, <2>1, <3>1, <3>2
  <2>2. CASE \E id \in Id : items'[c] = {id} /\ key'[c] = idToKey'[id] /\ key'[c] # 0
    BY <1>7, <2>2
  <2> QED BY <2>1, <2>2
<1>11. \A c \in Caller : \A m \in found'[c] : joined[m[1]] = m[2]
  <2> SUFFICES ASSUME NEW c \in Caller, NEW m \in found[c] PROVE joined[m[1]] = m[2]
    OBVIOUS
  <2>1. m[1] \in Key /\ m[2] \in Id
    BY DEF MapInv, TypeOK, LocalType
  <2> QED BY <1>3, <2>1 DEF Owned
<1>12. Owned(joined)'
  BY <1>5, <1>6, <1>7, <1>8, <1>9, <1>10, <1>11 DEF Owned
<1> QED BY <1>2, <1>12

\* Each step of a writer, a searcher or a saver keeps the owners, and the hits with them.
LEMMA LifeLive == ASSUME LifeInv, Live PROVE LifeInv'
<1>1. TypeOK' /\ MapInv /\ MapInv' /\ HitsBelong
  <2>1. TypeOK'
    BY TypeStep DEF LifeInv, MapInv, Next
  <2> QED BY <2>1, MapLive DEF LifeInv
<1>2. PICK owner \in [Key -> Vector] : Owned(owner)
  BY DEF LifeInv
<1>3. /\ pc \in [Caller -> Label] /\ key \in [Caller -> 0..MaxKey] /\ keyMap \in [Caller -> KeyMap]
      /\ items \in [Caller -> SUBSET Id] /\ found \in [Caller -> SUBSET (Key \X Id)]
      /\ hits \in [Caller -> SUBSET (Id \X Id)]
      /\ idToKey \in [Id -> 0..MaxKey] /\ keyToId \in [Key -> Vector] /\ nextKey \in 1..MaxKey + 1
      /\ index \in [Key -> Vector]
  BY <1>1 DEF MapInv, TypeOK, MapType, LocalType
<1>4. ASSUME Owned(owner)', HitsBelong' PROVE LifeInv'
  BY <1>1, <1>2, <1>4 DEF LifeInv
<1>5. /\ \A c \in Caller : \A m \in found[c] : owner[m[1]] = m[2]
      /\ \A k \in Key : index[k] \in {NoId, owner[k]}
  BY <1>2 DEF Owned, Vectors
<1>6. ASSUME NEW c \in Caller, NEW label, Goto(c, label)
      PROVE  pc'[c] = label /\ \A d \in Caller \ {c} : pc'[d] = pc[d]
  BY <1>3, <1>6 DEF Goto
\* A caller that returns, and one that goes on to something other than an upsert.
<1>7. ASSUME NEW c \in Caller, Return(c), UNCHANGED <<keysTmp, keysFile>>
      PROVE  /\ ClonesMaps
             /\ \A d \in Caller : pc'[d] = "upsert_add" =>
                   pc[d] = "upsert_add" /\ key'[d] = key[d] /\ items'[d] = items[d]
             /\ \A d \in Caller : \A m \in found'[d] : owner[m[1]] = m[2]
  <2>1. /\ pc'[c] = "idle" /\ found'[c] = {} /\ keyMap'[c] = EmptyMap
        /\ \A d \in Caller \ {c} : /\ pc'[d] = pc[d] /\ key'[d] = key[d] /\ items'[d] = items[d]
                                   /\ found'[d] = found[d] /\ keyMap'[d] = keyMap[d]
    BY <1>3, <1>7 DEF Return, Goto
  <2>2. ClonesMaps
    BY <1>7, <2>1 DEF ClonesMaps, SavedMaps
  <2> QED BY <1>5, <2>1, <2>2
<1>8. ASSUME NEW c \in Caller, NEW label, Goto(c, label), label # "upsert_add",
             \A d \in Caller \ {c} : key'[d] = key[d] /\ items'[d] = items[d]
      PROVE  \A d \in Caller : pc'[d] = "upsert_add" =>
                pc[d] = "upsert_add" /\ key'[d] = key[d] /\ items'[d] = items[d]
  BY <1>6, <1>8
<1>9. ASSUME UNCHANGED files PROVE ClonesIndex
  BY <1>9 DEF ClonesIndex, Vectors, files
<1>10. ASSUME UNCHANGED index PROVE StoresOwn(owner)
  BY <1>5, <1>10 DEF StoresOwn
<1>11. ASSUME UNCHANGED maps
       PROVE  /\ UNCHANGED nextKey /\ \A k \in Key : keyToId'[k] \in {NoId, keyToId[k]}
              /\ \A id \in Id : idToKey'[id] \in {0, idToKey[id]}
  BY <1>11 DEF maps
<1>12. ASSUME UNCHANGED <<keyMap, keysTmp, keysFile>> PROVE ClonesMaps
  BY <1>12 DEF ClonesMaps, SavedMaps
<1>13. ASSUME NEW c \in Caller,
              (\E id \in Id : UpsertResolve(c, id)) \/ (\E ids \in SUBSET Id : BatchAssign(c, ids))
       PROVE  LifeInv'
  <2>1. HandsOut /\ UNCHANGED <<files, keyMap, found, hits>>
    BY <1>1, <1>13, ResolveHandsOut, AssignHandsOut DEF MapInv, UpsertResolve, BatchAssign
  <2>2. \A d \in Caller : pc'[d] = "upsert_add" =>
            \/ pc[d] = "upsert_add" /\ key'[d] = key[d] /\ items'[d] = items[d]
            \/ \E id \in Id : items'[d] = {id} /\ key'[d] = idToKey'[id] /\ key'[d] # 0
    <3>1. ASSUME NEW id \in Id, UpsertResolve(c, id)
          PROVE  /\ items'[c] = {id} /\ key'[c] = idToKey'[id] /\ key'[c] # 0
                 /\ \A d \in Caller \ {c} : pc'[d] = pc[d] /\ key'[d] = key[d] /\ items'[d] = items[d]
      <4>1. items'[c] = {id} /\ \A d \in Caller \ {c} : pc'[d] = pc[d] /\ key'[d] = key[d] /\ items'[d] = items[d]
        BY <1>3, <3>1 DEF UpsertResolve, Goto
      <4>2. key'[c] = idToKey'[id] /\ key'[c] # 0
        BY <1>3, <3>1, VectorStoreAssumption DEF UpsertResolve, maps
      <4> QED BY <4>1, <4>2
    <3>2. ASSUME NEW ids \in SUBSET Id, BatchAssign(c, ids)
          PROVE  pc'[c] = "batch_insert" /\ \A d \in Caller \ {c} : pc'[d] = pc[d] /\ key'[d] = key[d] /\ items'[d] = items[d]
      <4>1. Goto(c, "batch_insert") /\ items' = [items EXCEPT ![c] = ids] /\ key' = key
        BY <3>2 DEF BatchAssign
      <4> QED BY <1>3, <1>6, <4>1
    <3> QED BY <1>13, <3>1, <3>2
  <2>3. \E joined \in [Key -> Vector] : Owned(joined)'
    BY <1>1, <1>2, <2>1, <2>2, OwnersJoin
  <2>4. HitsBelong'
    BY <1>1, <2>1 DEF HitsBelong
  <2> QED BY <1>1, <2>3, <2>4 DEF LifeInv
<1>14. ASSUME NEW c \in Caller, UpsertAdd(c) PROVE LifeInv'
  <2>1. PICK id \in items[c] : \/ index' = [index EXCEPT ![key[c]] = NoId]
                               \/ index' = [[index EXCEPT ![key[c]] = NoId] EXCEPT ![key[c]] = id]
    BY <1>14 DEF UpsertAdd
  <2>2. key[c] \in Key /\ owner[key[c]] = id
    BY <1>2, <1>14 DEF UpsertAdd, Owned
  <2>3. StoresOwn(owner)
    BY <1>3, <1>5, <2>1, <2>2 DEF StoresOwn
  <2>4. Return(c) /\ UNCHANGED <<maps, hits, files>>
    BY <1>14 DEF UpsertAdd
  <2>5. Owned(owner)'
    BY <1>1, <1>2, <1>7, <1>9, <1>11, <2>3, <2>4, OwnersStand DEF files
  <2> QED BY <1>1, <1>4, <2>4, <2>5 DEF HitsBelong
<1>15. ASSUME NEW c \in Caller, BatchInsert(c) PROVE LifeInv'
  <2>1. PICK done \in SUBSET Mapped(c) :
          index' = [k \in Key |-> IF \E id \in done : idToKey[id] = k
                                    THEN CHOOSE id \in done : idToKey[id] = k
                                    ELSE index[k]]
    BY <1>15 DEF BatchInsert, InsertMapped
  <2>2. ASSUME NEW k \in Key PROVE index'[k] \in {NoId, owner[k]}
    <3>1. CASE \E id \in done : idToKey[id] = k
      <4>1. index'[k] = CHOOSE id \in done : idToKey[id] = k
        BY <2>1, <3>1
      <4>2. index'[k] \in Id /\ idToKey[index'[k]] = k /\ k # 0
        BY <1>3, <3>1, <4>1 DEF Mapped, Key
      <4> QED BY <1>2, <4>2 DEF Owned
    <3>2. CASE ~\E id \in done : idToKey[id] = k
      BY <1>5, <2>1, <3>2
    <3> QED BY <3>1, <3>2
  <2>3. Return(c) /\ UNCHANGED <<maps, hits, files>> /\ StoresOwn(owner)
    BY <1>15, <2>2 DEF BatchInsert, StoresOwn
  <2>4. Owned(owner)'
    BY <1>1, <1>2, <1>7, <1>9, <1>11, <2>3, OwnersStand DEF files
  <2> QED BY <1>1, <1>4, <2>3, <2>4 DEF HitsBelong
<1>16. ASSUME NEW c \in Caller, BatchRefuse(c) \/ RemoveVector(c) PROVE LifeInv'
  <2>1. /\ Return(c) /\ UNCHANGED <<maps, hits, files>>
        /\ index' = index \/ index' = [index EXCEPT ![key[c]] = NoId]
    BY <1>16 DEF BatchRefuse, RemoveVector
  <2>2. StoresOwn(owner)
    BY <1>3, <1>5, <2>1 DEF StoresOwn
  <2>3. Owned(owner)'
    BY <1>1, <1>2, <1>7, <1>9, <1>11, <2>1, <2>2, OwnersStand DEF files
  <2> QED BY <1>1, <1>4, <2>1, <2>3 DEF HitsBelong
<1>17. ASSUME NEW c \in Caller, (\E id \in Id : RemoveId(c, id)) \/ RemoveKey(c) PROVE LifeInv'
  <2>1. /\ \E label \in {"remove_key", "remove_vector"} : Goto(c, label)
        /\ \A d \in Caller \ {c} : key'[d] = key[d]
        /\ UNCHANGED <<nextKey, index, items, found, keyMap, hits, files>>
    BY <1>3, <1>17 DEF RemoveId, RemoveKey, local
  <2>2. /\ \A k \in Key : keyToId'[k] \in {NoId, keyToId[k]}
        /\ \A id \in Id : idToKey'[id] \in {0, idToKey[id]}
    BY <1>3, <1>17 DEF RemoveId, RemoveKey
  <2>3. \A d \in Caller : pc'[d] = "upsert_add" =>
            pc[d] = "upsert_add" /\ key'[d] = key[d] /\ items'[d] = items[d]
    BY <1>8, <2>1
  <2>4. Owned(owner)'
    BY <1>1, <1>2, <1>5, <1>9, <1>10, <1>12, <2>1, <2>2, <2>3, OwnersStand DEF files
  <2> QED BY <1>1, <1>4, <2>1, <2>4 DEF HitsBelong
<1>18. ASSUME NEW c \in Caller, SearchIndex(c) PROVE LifeInv'
  <2>1. PICK matched \in SUBSET Stored(index) :
          found' = [found EXCEPT ![c] = {<<k, index[k]>> : k \in matched}]
    BY <1>18 DEF SearchIndex
  <2>2. Goto(c, "search_resolve") /\ UNCHANGED <<maps, index, items, key, keyMap, hits, files>>
    BY <1>18 DEF SearchIndex
  <2>3. \A k \in matched : index[k] = owner[k]
    BY <1>3, <1>5 DEF Stored
  <2>4. ASSUME NEW d \in Caller, NEW m \in found'[d] PROVE owner[m[1]] = m[2]
    <3>1. CASE d = c
      <4>1. PICK k \in matched : m = <<k, index[k]>>
        BY <1>3, <2>1, <3>1
      <4> QED BY <2>3, <4>1
    <3>2. CASE d # c
      BY <1>3, <1>5, <2>1, <3>2
    <3> QED BY <3>1, <3>2
  <2>5. Owned(owner)'
    BY <1>1, <1>2, <1>8, <1>9, <1>10, <1>11, <1>12, <2>2, <2>4, OwnersStand DEF files
  <2> QED BY <1>1, <1>4, <2>2, <2>5 DEF HitsBelong
<1>19. ASSUME NEW c \in Caller, SearchResolve(c) PROVE LifeInv'
  <2>1. Return(c) /\ UNCHANGED <<maps, index, files>>
    BY <1>19 DEF SearchResolve
  <2>2. Owned(owner)'
    BY <1>1, <1>2, <1>7, <1>9, <1>10, <1>11, <2>1, OwnersStand DEF files
  <2>3. hits' = [hits EXCEPT ![c] =
           {<<keyToId[m[1]], m[2]>> : m \in {n \in found[c] : keyToId[n[1]] # NoId}}]
    BY <1>19 DEF SearchResolve
  <2>4. \A m \in found[c] : m[1] \in Key /\ (keyToId[m[1]] # NoId => keyToId[m[1]] = m[2])
    BY <1>2, <1>3, <1>5 DEF Owned
  <2>5. HitsBelong'
    BY <1>1, <1>3, <2>3, <2>4 DEF HitsBelong
  <2> QED BY <1>4, <2>2, <2>5
<1>20. ASSUME NEW c \in Caller, Save(c) PROVE LifeInv'
  <2>1. /\ UNCHANGED <<maps, index, hits>>
        /\ \/ Return(c)
           \/ /\ UNCHANGED <<items, key, found>>
              /\ \E label \in {"save_index", "rename_index", "write_keys", "rename_keys"} : Goto(c, label)
    BY <1>20 DEF Save, SaveKeyMap, SaveIndex, RenameIndex, WriteKeys, RenameKeys, local
  <2>2. ClonesIndex
    BY <1>20 DEF Save, SaveKeyMap, SaveIndex, RenameIndex, WriteKeys, RenameKeys, ClonesIndex, Vectors, files
  <2>3. ClonesMaps
    <3>1. CASE SaveKeyMap(c)
      <4>1. /\ keyMap' = [keyMap EXCEPT ![c] = [ids |-> idToKey, next |-> nextKey]]
            /\ UNCHANGED <<keysTmp, keysFile>>
        BY <3>1 DEF SaveKeyMap, files
      <4>2. \A d \in Caller : keyMap'[d] \in {keyMap[d], [ids |-> idToKey, next |-> nextKey]}
        BY <1>3, <4>1
      <4> QED BY <4>1, <4>2 DEF ClonesMaps, SavedMaps
    <3>2. CASE Return(c)
      <4>1. \A d \in Caller : keyMap'[d] \in {keyMap[d], EmptyMap}
        BY <1>3, <3>2 DEF Return
      <4>2. \A km \in keysTmp' \cup keysFile' : km \in keysTmp \cup keysFile \cup {keyMap[c]}
        BY <1>20 DEF Save, SaveKeyMap, SaveIndex, RenameIndex, WriteKeys, RenameKeys, files
      <4> QED BY <4>1, <4>2 DEF ClonesMaps, SavedMaps
    <3>3. CASE UNCHANGED keyMap
      <4>1. \A km \in keysTmp' \cup keysFile' : km \in keysTmp \cup keysFile \cup {keyMap[c]}
        BY <1>20 DEF Save, SaveKeyMap, SaveIndex, RenameIndex, WriteKeys, RenameKeys, files
      <4> QED BY <3>3, <4>1 DEF ClonesMaps, SavedMaps
    <3> QED BY <1>20, <3>1, <3>2, <3>3 DEF Save, SaveIndex, RenameIndex, WriteKeys, RenameKeys, local
  <2>4. /\ \A d \in Caller : pc'[d] = "upsert_add" =>
              pc[d] = "upsert_add" /\ key'[d] = key[d] /\ items'[d] = items[d]
        /\ \A d \in Caller : \A m \in found'[d] : owner[m[1]] = m[2]
    <3>1. CASE Return(c)
      <4>1. /\ pc'[c] = "idle" /\ found'[c] = {}
            /\ \A d \in Caller \ {c} : /\ pc'[d] = pc[d] /\ key'[d] = key[d]
                                       /\ items'[d] = items[d] /\ found'[d] = found[d]
        BY <1>3, <3>1 DEF Return, Goto
      <4> QED BY <1>5, <4>1
    <3>2. CASE ~Return(c)
      BY <1>5, <1>8, <2>1, <3>2
    <3> QED BY <3>1, <3>2
  <2>5. Owned(owner)'
    BY <1>1, <1>2, <1>10, <1>11, <2>1, <2>2, <2>3, <2>4, OwnersStand
  <2> QED BY <1>1, <1>4, <2>1, <2>5 DEF HitsBelong
<1> QED BY <1>13, <1>14, <1>15, <1>16, <1>17, <1>18, <1>19, <1>20 DEF Live, Write, Search, Caller

\* The life of a process starts without owners, hits or files, and goes on by steps of its
\* callers.
LEMMA LifeInductive == (Init => LifeInv) /\ (LifeInv /\ [Live]_vars => LifeInv')
<1>1. ASSUME Init PROVE LifeInv
  <2>1. MapInv /\ HitsBelong
    BY <1>1, MapInductive DEF Init, HitsBelong
  <2>2. Owned(EmptyIndex)
    BY <1>1 DEF Init, Owned, EmptyIndex, EmptyMap, SavedMaps, Vectors
  <2> QED BY <2>1, <2>2, KeysAreKeys DEF LifeInv
<1>2. ASSUME LifeInv, UNCHANGED vars PROVE LifeInv'
  <2>1. MapInv' /\ HitsBelong'
    BY <1>2, MapInductive DEF LifeInv, vars, HitsBelong
  <2>2. ASSUME NEW owner \in [Key -> Vector], Owned(owner) PROVE Owned(owner)'
    BY <1>2, <2>2 DEF vars, maps, local, files, Owned, SavedMaps, Vectors
  <2> QED BY <1>2, <2>1, <2>2 DEF LifeInv
<1> QED BY <1>1, <1>2, LifeLive

\* A search hit always carries the similarity of the chunk it names.
THEOREM SearchNeverMixes == LiveSpec => []HitsBelong
<1>1. LifeInv => HitsBelong
  BY DEF LifeInv
<1> QED BY <1>1, LifeInductive, PTL DEF LiveSpec

\* A restart ends the first life of the process, and nothing else does.
LEMMA LifeStep == ASSUME restarts \in Nat, [Next]_vars
                  PROVE  /\ restarts' \in Nat
                         /\ restarts' = 0 => restarts = 0 /\ [Live]_vars
<1>1. CASE Restart
  BY <1>1 DEF Restart
<1>2. CASE Live
  <2>1. ASSUME NEW c \in Writer, Write(c) PROVE UNCHANGED restarts
    BY <2>1 DEF Write, UpsertResolve, UpsertAdd, BatchAssign, BatchRefuse, BatchInsert,
       RemoveId, RemoveKey, RemoveVector, life
  <2>2. ASSUME NEW c \in Searcher, Search(c) PROVE UNCHANGED restarts
    BY <2>2 DEF Search, SearchIndex, SearchResolve, life
  <2>3. ASSUME NEW c \in Saver, Save(c) PROVE UNCHANGED restarts
    BY <2>3 DEF Save, SaveKeyMap, SaveIndex, RenameIndex, WriteKeys, RenameKeys, life
  <2> QED BY <1>2, <2>1, <2>2, <2>3 DEF Live
<1>3. CASE UNCHANGED vars
  BY <1>3 DEF vars, life
<1> QED BY <1>1, <1>2, <1>3 DEF Next

\* In the first life, however many follow, every key has one owner.
LEMMA FirstLife ==
    /\ Init => restarts \in Nat /\ OneLife
    /\ restarts \in Nat /\ OneLife /\ [Next]_vars => (restarts \in Nat /\ OneLife)'
<1>1. Init => restarts \in Nat /\ OneLife
  BY LifeInductive DEF Init, OneLife
<1>2. ASSUME restarts \in Nat, OneLife, [Next]_vars PROVE restarts' \in Nat /\ OneLife'
  BY <1>2, LifeStep, LifeInductive DEF OneLife
<1> QED BY <1>1, <1>2

\* A key still to be handed out has no vector, so a fresh insert collides with
\* nothing, until the process ends.
THEOREM KeysAreFresh == Spec => []FreshKeysEmpty
<1>1. OneLife => FreshKeysEmpty
  BY DEF OneLife, LifeInv, Owned, Vectors, FreshKeysEmpty, NeverReused
<1> QED BY <1>1, FirstLife, PTL DEF Spec

\* Whichever of the two files is older, and whatever was in progress when the process
\* ended, the pair it left gives no chunk the vector of another.
THEOREM RoundTrips == Spec => RestoreRoundTrips
<1> DEFINE Loaded == Restart /\ restarts = 0 => \A id \in Id : idToKey'[id] # 0 =>
                        index'[idToKey'[id]] \in {NoId, id}
<1>1. ASSUME OneLife, Restart, restarts = 0, NEW id \in Id, idToKey'[id] # 0
      PROVE  index'[idToKey'[id]] \in {NoId, id}
  <2>1. TypeOK
    BY <1>1 DEF OneLife, LifeInv, MapInv
  <2>2. PICK vec \in hnswFile \cup {EmptyIndex}, km \in keysFile \cup {EmptyMap} :
           LoadFrom(vec, km) /\ (km = EmptyMap \/ (vec \in hnswFile /\ km \in keysFile))
    BY <1>1, <2>1, RestartLoads
  <2>3. index' = vec /\ idToKey' = km.ids
    BY <2>2 DEF LoadFrom
  <2>4. vec \in hnswFile /\ km \in keysFile
    BY <1>1, <2>2, <2>3 DEF EmptyMap
  <2>5. PICK owner \in [Key -> Vector] : Owned(owner)
    BY <1>1 DEF OneLife, LifeInv
  <2>6. km.ids[id] \in Key
    BY <1>1, <2>1, <2>3, <2>4, VectorStoreAssumption DEF TypeOK, FileType, KeyMap, Key
  <2>7. owner[km.ids[id]] = id /\ vec[km.ids[id]] \in {NoId, owner[km.ids[id]]}
    BY <1>1, <2>3, <2>4, <2>5, <2>6 DEF Owned, SavedMaps, Vectors
  <2> QED BY <2>3, <2>7
<1>2. OneLife => Loaded
  BY <1>1
<1>3. OneLife /\ [Next]_vars => [Loaded]_vars
  BY <1>2
<1> HIDE DEF Loaded
<1>4. Spec => [][Loaded]_vars
  BY <1>3, FirstLife, PTL DEF Spec
<1> QED BY <1>4 DEF Loaded, RestoreRoundTrips
=============================================================================
