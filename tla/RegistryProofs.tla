--------------------------- MODULE RegistryProofs --------------------------
(***************************************************************************)
(* The registry of a daemon, for any ids, roots, handlers and directories: *)
(* indexes.toml is the registry (TomlIsRegistry), the files of an index    *)
(* are its own and have one writer (FilesOwned, if sanitize_id gives no    *)
(* two ids one directory), and what a client is told about the embedder is *)
(* final (HealthIsFinal).                                                  *)
(*                                                                         *)
(* The properties speak of moments of rest. In between, what memory and    *)
(* file may differ by is the one request under way (Listing): a create is  *)
(* in the file before it is registered, a delete leaves the registry       *)
(* before the file, and the restore registers what it read. The request    *)
(* that is alone owns the temporary file (Sole), and a rename makes that   *)
(* file the published one (Published).                                     *)
(***************************************************************************)
EXTENDS Registry, FiniteSetTheorems, TLAPS

Listings == [Id -> Root \cup {NoRoot}]
Request == [kind : {"none", "create", "delete", "reindex"}, id : Id, root : Root \cup {NoRoot},
            indexer : Indexer \cup {None}, entries : Listings, fd : Inode \cup {None}]
Entry == [indexer : Indexer \cup {None}, root : Root \cup {NoRoot}]
Saving == {"load", "open", "write", "rename"}

\* What a handler remembers between two steps.
Local(h) ==
    /\ pc[h] = "build" => req[h].kind = "create"
    /\ pc[h] \in Saving => req[h].kind \in {"create", "delete"}
    /\ pc[h] = "register" => req[h].kind = "create"
    /\ pc[h] = "rmdir" => req[h].kind = "delete"
    /\ pc[h] = "override" => req[h].indexer \in Indexer
    /\ pc[h] \in {"write", "rename"} => req[h].fd \in Inode
    /\ req[h].kind \in {"create", "reindex"} => req[h].root \in Root
    /\ req[h].kind = "create" /\ pc[h] \in Saving \cup {"register"} => req[h].indexer \in Indexer

Handlers ==
    /\ pc \in [Handler -> Labels] /\ req \in [Handler -> Request]
    /\ \A h \in Handler : Local(h)

Indexes == /\ indexes \in [Id -> Entry]
           /\ \A i \in Id : indexes[i].indexer = None <=> indexes[i] = NoEntry
           /\ busy \in SUBSET (Id \X Indexer)

Disk == /\ disk \in [Directory -> Id \cup {NoId}]
        /\ toml \in Inode \cup {None} /\ tmp \in Inode \cup {None} /\ (toml = tmp => toml = None)
        /\ inode \in [Inode -> Listings \cup {Torn}]

\* The task that loads the embedder and then restores the indexes.
Embedder ==
    /\ embedder \in {"loading", "slot", "list", "restoring", "done", "failed"}
    /\ embedder = "loading" => failed = FALSE
    /\ embedder = "failed" => failed = TRUE
    /\ restoring \in Request /\ todo \in SUBSET Id
    /\ embedder = "restoring" => todo \subseteq Listed(restoring.entries)
    /\ embedder = "restoring" /\ restoring.indexer # None => restoring.root \in Root

Types == Handlers /\ Indexes /\ Disk /\ Embedder /\ overlap \in BOOLEAN /\ missed \in BOOLEAN

\* Requests do not overlap, nor does one with the restore.
Alone == ~overlap =>
    /\ \A g, h \in Handler : pc[g] # "idle" /\ pc[h] # "idle" => g = h
    /\ embedder = "restoring" => \A h \in Handler : pc[h] = "idle"

\* A request that is alone finds the registry as it left it, and the temporary file is its own.
Sole(h) ==
    /\ pc[h] \in Saving \cup {"build", "register", "rmdir"} => req[h].id \notin Registered
    /\ pc[h] = "override" =>
          req[h].id \in Registered /\ indexes[req[h].id].indexer = req[h].indexer
    /\ pc[h] \in {"write", "rename"} => req[h].fd = tmp
    /\ pc[h] = "rename" => inode[tmp] = req[h].entries

Soles == ~overlap =>
    /\ \A h \in Handler : Sole(h)
    /\ embedder = "restoring" /\ restoring.indexer # None => restoring.id \notin Registered

Published == ~overlap => (toml # None => inode[toml] # Torn)

\* What a request will write, and what it wrote.
Ahead(h) ==
    /\ pc[h] \in {"open", "write", "rename"} => req[h].entries = Changed(req[h], Load)
    /\ pc[h] = "register" => Load[req[h].id] = req[h].root

\* Entries of the file a request still has to register, or to take out of it.
Pending(h) == pc[h] = "register" \/ (pc[h] \in Saving /\ req[h].kind = "delete")

Listing == ~overlap /\ ~missed =>
    /\ \A i \in Registered : Load[i] # NoRoot /\ (i \notin moved => indexes[i].root = Load[i])
    /\ \A h \in Handler : Ahead(h)
    /\ embedder = "done" => \A i \in Id : Load[i] # NoRoot =>
          i \in Registered \/ \E h \in Handler : Pending(h) /\ req[h].id = i
    /\ embedder = "restoring" =>
          /\ restoring.entries = Load
          /\ \A i \in Id : Load[i] # NoRoot => i \in Registered \cup todo
          /\ restoring.indexer # None =>
                Load[restoring.id] # NoRoot /\ restoring.root = Load[restoring.id]

\* Only the registered indexer of an id is held, but for those a delete left behind.
Held == ~overlap => \A m \in busy : m[1] \notin leftover => m[2] = indexes[m[1]].indexer

OneDirectoryEach == \A i, j \in Id : sanitize_id(i) = sanitize_id(j) => i = j

\* Files are there for what the file lists, or a delete is about to remove them.
Own == \A i \in Id : disk[sanitize_id(i)] \in {NoId, i}
Gone == ~overlap /\ ~missed => \A i \in Id \ leftover : disk[sanitize_id(i)] # NoId =>
    Load[i] # NoRoot \/ \E h \in Handler : pc[h] = "rmdir" /\ req[h].id = i

RegistryInv == /\ Types /\ Alone /\ Soles /\ Published /\ Listing /\ Held
               /\ (OneDirectoryEach => Own /\ Gone)

-----------------------------------------------------------------------------
(* Values.                                                                 *)

\* The values that stand for nothing are well-typed, and no listing is a torn file.
LEMMA Constants ==
    /\ NoReq \in Request /\ NoReq.kind = "none" /\ NoReq.indexer = None /\ NoReq.id \in Id
    /\ NoReq.root = NoRoot /\ NoReq.entries = Empty /\ NoReq.fd = None
    /\ NoEntry \in Entry /\ NoEntry.indexer = None /\ NoEntry.root = NoRoot
    /\ Empty \in Listings /\ \A i \in Id : Empty[i] = NoRoot
    /\ Torn \notin Listings /\ None \notin Inode /\ None \notin Indexer
<1>1. Empty \in Listings /\ \A i \in Id : Empty[i] = NoRoot
  BY DEF Empty, Listings
<1>2. Torn \notin Listings
  <2>1. PICK i \in Id : TRUE
    BY RegistryAssumption
  <2>2. Torn[i] = "torn"
    BY DEF Torn
  <2> QED BY <2>2, RegistryAssumption DEF Listings
<1>3. (CHOOSE i \in Id : TRUE) \in Id
  BY RegistryAssumption
<1>4. None \notin Inode /\ None \notin Indexer
  BY DEF None, Inode, Indexer
<1> QED BY <1>1, <1>2, <1>3, <1>4 DEF NoReq, NoEntry, Request, Entry

\* What is read of indexes.toml lists roots.
LEMMA LoadIs == Disk => Load \in Listings
  BY Constants DEF Disk, Load

\* ... and the same as before unless the published file changes.
LEMMA LoadSame ==
    ASSUME toml' = toml, toml # None => inode'[toml] = inode[toml]
    PROVE  Load' = Load
  BY DEF Load

\* A request changes the entry of its id.
LEMMA ChangedIs ==
    ASSUME NEW r \in Request, r.kind = "create" => r.root \in Root, NEW entries \in Listings
    PROVE  /\ Changed(r, entries) \in Listings
           /\ Changed(r, entries)[r.id] = IF r.kind = "create" THEN r.root ELSE NoRoot
           /\ \A i \in Id \ {r.id} : Changed(r, entries)[i] = entries[i]
  BY DEF Changed, Listings, Request

\* A new indexer has a number.
LEMMA FreshIs == \A i \in Id : Unused(i) # {} => Fresh(i) \in Indexer
  BY DEF Fresh, Unused

\* There are more inodes than files in use.
LEMMA FreeInode ==
    ASSUME Disk, Handlers
    PROVE  \E j \in Inode : j # toml /\ \A g \in Handler : req[g].fd # j
<1> DEFINE fds == {req[g].fd : g \in Handler}
           fd == [g \in Handler |-> req[g].fd]
           n == Cardinality(Handler)
<1>1. n \in Nat
  BY RegistryAssumption, FS_CardinalityType
<1>2. IsFiniteSet(fds) /\ Cardinality(fds) <= n
  <2>1. fd \in Surjection(Handler, fds)
    BY DEF Surjection
  <2> HIDE DEF fd, fds
  <2> QED BY <2>1, RegistryAssumption, FS_Surjection
<1> HIDE DEF fds
<1>3. /\ IsFiniteSet(fds \cup {toml})
      /\ Cardinality(fds \cup {toml}) \in {Cardinality(fds), Cardinality(fds) + 1}
      /\ Cardinality(fds) \in Nat /\ Cardinality(fds \cup {toml}) \in Nat
  BY <1>2, FS_AddElement, FS_CardinalityType
<1>4. Cardinality(Inode) = n + 2
  <2>1. Cardinality(1..(n + 2)) = IF 1 > n + 2 THEN 0 ELSE (n + 2) - 1 + 1
    BY <1>1, FS_Interval
  <2> QED BY <1>1, <2>1 DEF Inode
<1>5. ~(Inode \subseteq fds \cup {toml})
  <2> SUFFICES ASSUME Inode \subseteq fds \cup {toml} PROVE FALSE
    OBVIOUS
  <2>1. Cardinality(Inode) <= Cardinality(fds \cup {toml})
    BY <1>3, FS_Subset
  <2> HIDE DEF n
  <2> QED BY <1>1, <1>2, <1>3, <1>4, <2>1
<1> QED BY <1>5 DEF fds

-----------------------------------------------------------------------------
(* What the steps of a handler have in common.                             *)

Others(h) ==
    /\ pc' \in [Handler -> Labels] /\ req' \in [Handler -> Request]
    /\ \A g \in Handler \ {h} : pc'[g] = pc[g] /\ req'[g] = req[g]

\* The others remember what they did.
LEMMA HandlersNext ==
    ASSUME Handlers, NEW h \in Handler, Others(h), Local(h)'
    PROVE  Handlers'
<1>1. ASSUME NEW g \in Handler PROVE Local(g)'
  <2>1. CASE g = h
    BY <2>1
  <2>2. CASE g # h
    BY <2>2 DEF Handlers, Local, Others
  <2> QED BY <2>1, <2>2
<1> QED BY <1>1 DEF Handlers, Others

\* A request that overlaps with none stays alone.
LEMMA AloneNext ==
    ASSUME Alone, NEW h \in Handler, pc[h] # "idle", Others(h), overlap' = overlap,
           embedder' = embedder
    PROVE  Alone'
  BY DEF Alone, Others

\* ... and then the others are idle, and nothing is being restored.
LEMMA OnlyOne ==
    ASSUME Alone, ~overlap, NEW h \in Handler, pc[h] # "idle", Others(h)
    PROVE  /\ \A g \in Handler \ {h} : pc[g] = "idle" /\ pc'[g] = "idle"
           /\ embedder # "restoring"
  BY DEF Alone, Others

\* Nobody who is idle promises anything.
LEMMA IdlePromises ==
    ASSUME NEW g \in Handler, pc[g] = "idle"
    PROVE  Sole(g) /\ Ahead(g) /\ ~Pending(g)
  BY DEF Sole, Ahead, Pending, Saving

\* A step of a request that changes neither the registry nor what the file lists.
Quiet(h) ==
    /\ Others(h) /\ Local(h)' /\ Disk' /\ Load' = Load
    /\ pc[h] \notin {"idle", "rmdir"} /\ pc'[h] # "idle" /\ req'[h].id = req[h].id
    /\ UNCHANGED <<indexes, busy, embedder, failed, todo, restoring, disk, overlap, moved, leftover>>
    /\ missed' \in BOOLEAN /\ (missed => missed')

\* It keeps the invariant, if the request keeps its promises.
LEMMA QuietStep ==
    ASSUME RegistryInv, NEW h \in Handler, Quiet(h), Published',
           ~overlap => Sole(h)',
           ~overlap /\ ~missed' =>
              Ahead(h)' /\ (Pending(h) => Pending(h)' \/ Load[req[h].id] = NoRoot)
    PROVE  RegistryInv'
<1>1. Types /\ Alone /\ Soles /\ Listing /\ Held /\ Others(h)
  BY DEF RegistryInv, Quiet
<1>2. Registered' = Registered
  BY DEF Quiet, Registered
<1>3. Types'
  <2>1. Handlers'
    BY <1>1, HandlersNext DEF Types, Quiet
  <2>2. Indexes' /\ Embedder'
    BY <1>1 DEF Types, Indexes, Embedder, Quiet, Listed
  <2> QED BY <1>1, <2>1, <2>2 DEF Types, Quiet
<1>4. Alone'
  BY <1>1, AloneNext DEF Quiet
<1>5. ASSUME ~overlap, NEW g \in Handler \ {h} PROVE pc[g] = "idle" /\ pc'[g] = "idle"
  BY <1>1, <1>5, OnlyOne DEF Quiet
<1>6. Soles'
  <2>1. ASSUME ~overlap, NEW g \in Handler PROVE Sole(g)'
    BY <1>5, <2>1 DEF Sole, Saving
  <2>2. ~overlap => embedder # "restoring"
    BY <1>1, OnlyOne DEF Quiet
  <2> QED BY <2>1, <2>2 DEF Soles, Quiet
<1>7. Listing'
  <2> SUFFICES ASSUME ~overlap, ~missed' PROVE Listing'
    BY DEF Listing, Quiet
  <2>1. ~missed /\ embedder # "restoring"
    BY <1>1, OnlyOne DEF Quiet
  <2>2. \A i \in Registered' : Load'[i] # NoRoot /\ (i \notin moved' => indexes'[i].root = Load'[i])
    BY <1>1, <1>2, <2>1 DEF Listing, Quiet
  <2>3. \A g \in Handler : Ahead(g)'
    BY <1>5 DEF Ahead
  <2>4. ASSUME embedder = "done", NEW i \in Id, Load[i] # NoRoot
        PROVE  i \in Registered' \/ \E g \in Handler : Pending(g)' /\ req'[g].id = i
    <3>1. i \in Registered \/ (Pending(h) /\ req[h].id = i)
      BY <1>1, <1>5, <2>1, <2>4, IdlePromises DEF Listing
    <3> QED BY <1>2, <2>4, <3>1 DEF Quiet
  <2> QED BY <2>1, <2>2, <2>3, <2>4 DEF Listing, Quiet
<1>8. Held'
  BY <1>1 DEF Held, Quiet
<1>9. OneDirectoryEach => Own' /\ Gone'
  <2> SUFFICES ASSUME Own, Gone PROVE Own' /\ Gone'
    BY DEF RegistryInv
  <2>1. Own'
    BY DEF Own, Quiet
  <2>2. Gone'
    <3> SUFFICES ASSUME ~overlap, ~missed', NEW i \in Id \ leftover, disk[sanitize_id(i)] # NoId
                 PROVE  Load[i] # NoRoot \/ \E g \in Handler : pc'[g] = "rmdir" /\ req'[g].id = i
      BY DEF Gone, Quiet
    <3>1. ~missed
      BY <1>1 DEF Quiet, Types
    <3>2. \/ Load[i] # NoRoot
          \/ \E g \in Handler : pc[g] = "rmdir" /\ req[g].id = i
      BY <3>1 DEF Gone
    <3> QED BY <1>5, <3>2 DEF Quiet
  <2> QED BY <2>1, <2>2
<1> QED BY <1>3, <1>4, <1>6, <1>7, <1>8, <1>9 DEF RegistryInv

-----------------------------------------------------------------------------
(* A request, step by step.                                                *)

\* What a handler's step does to its own request.
LEMMA RequestStep ==
    ASSUME Handlers, NEW h \in Handler, NEW label \in Labels, NEW r \in Request,
           Goto(h, label), req' = [req EXCEPT ![h] = r]
    PROVE  Others(h) /\ pc'[h] = label /\ req'[h] = r
  BY DEF Handlers, Goto, Others

\* A create has an indexer.
LEMMA CreateBuildStep == ASSUME RegistryInv, NEW h \in Handler, CreateBuild(h) PROVE RegistryInv'
<1> DEFINE r == [req[h] EXCEPT !.indexer = Fresh(req[h].id)]
<1>1. /\ Types /\ Handlers /\ Indexes /\ Disk /\ Soles /\ Published /\ Local(h) /\ pc[h] = "build"
      /\ req[h] \in Request /\ req[h].id \in Id /\ Unused(req[h].id) # {}
  BY DEF RegistryInv, Types, Handlers, CreateBuild, Request
<1>2. Fresh(req[h].id) \in Indexer
  BY <1>1, FreshIs
<1>3. /\ r \in Request /\ r.kind = req[h].kind /\ r.id = req[h].id /\ r.root = req[h].root
      /\ r.indexer \in Indexer
  BY <1>1, <1>2 DEF Request
<1>4. Goto(h, "load") /\ req' = [req EXCEPT ![h] = r]
  BY DEF CreateBuild
<1> HIDE DEF r
<1>5. Others(h) /\ pc'[h] = "load" /\ req'[h] = r
  BY <1>1, <1>3, <1>4, RequestStep DEF Labels
<1>6. Local(h)' /\ Disk' /\ Load' = Load
  <2>1. Local(h)'
    BY <1>1, <1>3, <1>5 DEF Local, Saving
  <2>2. Disk' /\ Load' = Load
    BY <1>1 DEF CreateBuild, files, Disk, Load
  <2> QED BY <2>1, <2>2
<1>7. Quiet(h)
  BY <1>1, <1>3, <1>5, <1>6 DEF CreateBuild, Quiet, files, history, Types
<1>8. ~overlap => Sole(h)'
  BY <1>1, <1>3, <1>5 DEF Soles, Sole, CreateBuild, Registered, Saving
<1>9. Ahead(h)' /\ ~Pending(h)
  BY <1>1, <1>5 DEF Ahead, Pending, Saving
<1>10. Published'
  BY <1>1 DEF CreateBuild, Published, files, history
<1> QED BY <1>7, <1>8, <1>9, <1>10, QuietStep

\* The file is read, and the change made to what was read.
LEMMA LoadTomlStep == ASSUME RegistryInv, NEW h \in Handler, LoadToml(h) PROVE RegistryInv'
<1> DEFINE label == IF req[h].kind = "delete" /\ Load[req[h].id] = NoRoot THEN "rmdir" ELSE "open"
           r == [req[h] EXCEPT !.entries = Changed(req[h], Load)]
<1>1. /\ Types /\ Handlers /\ Indexes /\ Disk /\ Soles /\ Published /\ Local(h) /\ pc[h] = "load"
      /\ req[h] \in Request /\ req[h].id \in Id /\ req[h].kind \in {"create", "delete"}
  BY DEF RegistryInv, Types, Handlers, LoadToml, Request, Local, Saving
<1>2. Changed(req[h], Load) \in Listings
  BY <1>1, LoadIs, ChangedIs DEF Local
<1>3. /\ r \in Request /\ r.kind = req[h].kind /\ r.id = req[h].id /\ r.root = req[h].root
      /\ r.indexer = req[h].indexer /\ r.entries = Changed(req[h], Load)
      /\ Changed(r, Load) = Changed(req[h], Load)
  BY <1>1, <1>2 DEF Request, Changed
<1>4. Goto(h, label) /\ req' = [req EXCEPT ![h] = r]
  BY DEF LoadToml
<1> HIDE DEF r
<1>5. Others(h) /\ pc'[h] = label /\ req'[h] = r
  BY <1>1, <1>3, <1>4, RequestStep DEF Labels
<1>6. Local(h)' /\ Disk' /\ Load' = Load
  <2>1. Local(h)'
    BY <1>1, <1>3, <1>5 DEF Local, Saving
  <2>2. Disk' /\ Load' = Load
    BY <1>1 DEF LoadToml, files, Disk, Load
  <2> QED BY <2>1, <2>2
<1>7. Quiet(h)
  BY <1>1, <1>3, <1>5, <1>6 DEF LoadToml, Quiet, files, history, Types
<1>8. ~overlap => Sole(h)'
  BY <1>1, <1>3, <1>5 DEF Soles, Sole, LoadToml, Registered, Saving
<1>9. Ahead(h)'
  BY <1>3, <1>5, <1>6 DEF Ahead, Changed
<1>10. Pending(h) => Pending(h)' \/ Load[req[h].id] = NoRoot
  BY <1>1, <1>3, <1>5 DEF Pending, Saving
<1>11. Published'
  BY <1>1 DEF LoadToml, Published, files, history
<1> QED BY <1>7, <1>8, <1>9, <1>10, <1>11, QuietStep

\* The temporary file is opened, or made; the published one is not touched.
LEMMA OpenStep == ASSUME RegistryInv, NEW h \in Handler, Open(h) PROVE RegistryInv'
<1> DEFINE k == IF tmp # None THEN tmp
                ELSE CHOOSE j \in Inode : j # toml /\ \A g \in Handler : req[g].fd # j
           r == [req[h] EXCEPT !.fd = k]
<1>1. /\ Types /\ Handlers /\ Indexes /\ Disk /\ Soles /\ Listing /\ Published /\ Local(h)
      /\ pc[h] = "open" /\ req[h] \in Request /\ req[h].id \in Id
      /\ req[h].kind \in {"create", "delete"}
  BY DEF RegistryInv, Types, Handlers, Open, Request, Local, Saving
<1>2. k \in Inode /\ k # toml
  BY <1>1, FreeInode, Constants DEF Disk
<1>3. /\ r \in Request /\ r.kind = req[h].kind /\ r.id = req[h].id /\ r.root = req[h].root
      /\ r.indexer = req[h].indexer /\ r.entries = req[h].entries /\ r.fd = k
      /\ Changed(r, Load) = Changed(req[h], Load)
  BY <1>1, <1>2 DEF Request, Changed
<1>4. /\ Goto(h, "write") /\ req' = [req EXCEPT ![h] = r]
      /\ tmp' = k /\ toml' = toml /\ inode' = [inode EXCEPT ![k] = Torn]
  BY DEF Open
<1> HIDE DEF r, k
<1>5. Others(h) /\ pc'[h] = "write" /\ req'[h] = r
  BY <1>1, <1>3, <1>4, RequestStep DEF Labels
<1>6. Disk' /\ Load' = Load /\ (toml # None => inode'[toml] = inode[toml])
  <2>1. toml # None => inode'[toml] = inode[toml]
    BY <1>1, <1>2, <1>4 DEF Disk
  <2>2. Disk'
    BY <1>1, <1>2, <1>4 DEF Open, Disk
  <2> QED BY <1>4, <2>1, <2>2, LoadSame
<1>7. Local(h)'
  BY <1>1, <1>2, <1>3, <1>5 DEF Local, Saving
<1>8. Quiet(h)
  BY <1>1, <1>3, <1>5, <1>6, <1>7 DEF Open, Quiet, history, Types
<1>9. ~overlap => Sole(h)'
  BY <1>1, <1>3, <1>4, <1>5 DEF Soles, Sole, Open, Registered, Saving
<1>10. ~overlap /\ ~missed => Ahead(h)'
  BY <1>1, <1>3, <1>5, <1>6 DEF Listing, Ahead, Changed
<1>11. Pending(h) => Pending(h)'
  BY <1>1, <1>3, <1>5 DEF Pending, Saving
<1>12. Published' /\ missed' = missed
  BY <1>1, <1>4, <1>6 DEF Open, Published, history
<1> QED BY <1>8, <1>9, <1>10, <1>11, <1>12, QuietStep

\* The temporary file is filled.
LEMMA WriteStep == ASSUME RegistryInv, NEW h \in Handler, Write(h) PROVE RegistryInv'
<1>1. /\ Types /\ Handlers /\ Indexes /\ Disk /\ Soles /\ Listing /\ Published /\ Local(h)
      /\ pc[h] = "write" /\ req[h] \in Request /\ req[h].fd \in Inode
      /\ req[h].entries \in Listings
  BY DEF RegistryInv, Types, Handlers, Write, Request, Local
<1>2. Others(h) /\ pc'[h] = "rename" /\ req' = req
  BY <1>1 DEF Write, Goto, Others, Handlers, Labels
<1>3. /\ tmp' = tmp /\ toml' = toml /\ inode' = [inode EXCEPT ![req[h].fd] = req[h].entries]
      /\ UNCHANGED <<indexes, busy, embedder, failed, todo, restoring, disk, history>>
  BY DEF Write
<1>4. Disk'
  BY <1>1, <1>3 DEF Disk
<1>5. CASE overlap
  <2>1. Local(h)'
    BY <1>1, <1>2 DEF Local, Saving
  <2>2. Types'
    <3>1. Handlers'
      BY <1>1, <1>2, <2>1, HandlersNext
    <3>2. Indexes' /\ Embedder'
      BY <1>1, <1>3 DEF Types, Indexes, Embedder, Listed
    <3> QED BY <1>1, <1>3, <1>4, <3>1, <3>2 DEF Types, history
  <2>3. OneDirectoryEach => Own' /\ Gone'
    BY <1>3, <1>5 DEF RegistryInv, Own, Gone, history
  <2> QED BY <1>3, <1>5, <2>2, <2>3
          DEF RegistryInv, Alone, Soles, Published, Listing, Held, history
<1>6. CASE ~overlap
  <2>1. req[h].fd = tmp /\ tmp # toml
    BY <1>1, <1>6, Constants DEF Soles, Sole, Disk
  <2>2. (toml # None => inode'[toml] = inode[toml]) /\ inode'[tmp] = req[h].entries
    BY <1>1, <1>3, <2>1 DEF Disk
  <2>3. Load' = Load
    BY <1>3, <2>2, LoadSame
  <2>4. Local(h)'
    BY <1>1, <1>2 DEF Local, Saving
  <2>5. Quiet(h)
    BY <1>1, <1>2, <1>3, <1>4, <2>3, <2>4 DEF Quiet, Types, history
  <2>6. Sole(h)'
    BY <1>1, <1>2, <1>3, <1>6, <2>1, <2>2 DEF Soles, Sole, Registered, Saving
  <2>7. ~missed => Ahead(h)'
    BY <1>1, <1>2, <1>6, <2>3 DEF Listing, Ahead, Changed
  <2>8. Pending(h) => Pending(h)'
    BY <1>1, <1>2 DEF Pending, Saving
  <2>9. Published' /\ missed' = missed
    BY <1>1, <1>3, <2>2 DEF Published, history
  <2> QED BY <2>5, <2>6, <2>7, <2>8, <2>9, QuietStep
<1> QED BY <1>5, <1>6

\* What the end of a save leaves in the request.
LEMMA AfterSaveIs ==
    ASSUME Handlers, NEW h \in Handler, pc[h] \in {"write", "rename"}, AfterSave(h)
    PROVE  /\ Others(h) /\ Local(h)'
           /\ pc'[h] = IF req[h].kind = "create" THEN "register" ELSE "rmdir"
           /\ req'[h].id = req[h].id /\ req'[h].root = req[h].root
           /\ req[h].kind \in {"create", "delete"} /\ pc'[h] \in {"register", "rmdir"}
<1> DEFINE label == IF req[h].kind = "create" THEN "register" ELSE "rmdir"
           r == [req[h] EXCEPT !.fd = None, !.entries = Empty]
<1>1. Local(h) /\ req[h] \in Request /\ req[h].kind \in {"create", "delete"}
  BY DEF Handlers, Local, Saving
<1>2. /\ r \in Request /\ r.kind = req[h].kind /\ r.id = req[h].id /\ r.root = req[h].root
      /\ r.indexer = req[h].indexer
  BY <1>1, Constants DEF Request
<1>3. Goto(h, label)
  BY DEF AfterSave
<1>4. req' = [req EXCEPT ![h] = r]
  BY <1>1 DEF AfterSave, Handlers, Request
<1> HIDE DEF r
<1>5. Others(h) /\ pc'[h] = label /\ req'[h] = r
  BY <1>2, <1>3, <1>4, RequestStep DEF Labels
<1>6. Local(h)'
  BY <1>1, <1>2, <1>5 DEF Local, Saving
<1> QED BY <1>1, <1>2, <1>5, <1>6

\* A failed write is logged.
LEMMA WriteFailsStep == ASSUME RegistryInv, NEW h \in Handler, WriteFails(h) PROVE RegistryInv'
<1>1. /\ Types /\ Handlers /\ Disk /\ Soles /\ Published /\ Local(h)
      /\ pc[h] = "write" /\ AfterSave(h)
  BY DEF RegistryInv, Types, Handlers, WriteFails
<1>2. /\ Others(h) /\ Local(h)' /\ pc'[h] \in {"register", "rmdir"} /\ req'[h].id = req[h].id
  BY <1>1, AfterSaveIs
<1>3. Disk' /\ Load' = Load /\ missed' = TRUE /\ overlap' = overlap /\ Published'
  BY <1>1 DEF WriteFails, files, Disk, Load, Published
<1>4. Quiet(h)
  BY <1>1, <1>2, <1>3 DEF WriteFails, Quiet, files, Types
<1>5. ~overlap => Sole(h)'
  BY <1>1, <1>2 DEF WriteFails, Soles, Sole, Registered, Saving
<1> QED BY <1>3, <1>4, <1>5, QuietStep

\* The temporary file becomes the published one; what it lists is what was read with
\* the change of the request.
LEMMA RenameStep == ASSUME RegistryInv, NEW h \in Handler, Rename(h) PROVE RegistryInv'
<1>1. /\ Types /\ Handlers /\ Indexes /\ Disk /\ Alone /\ Soles /\ Listing /\ Published /\ Held
      /\ Local(h) /\ pc[h] = "rename" /\ AfterSave(h) /\ req[h] \in Request /\ req[h].fd \in Inode
      /\ req[h].id \in Id /\ req[h].entries \in Listings
  BY DEF RegistryInv, Types, Handlers, Rename, Local, Request
<1>2. /\ Others(h) /\ Local(h)'
      /\ pc'[h] = IF req[h].kind = "create" THEN "register" ELSE "rmdir"
      /\ req'[h].id = req[h].id /\ req'[h].root = req[h].root
      /\ req[h].kind \in {"create", "delete"} /\ pc'[h] \in {"register", "rmdir"}
  BY <1>1, AfterSaveIs
<1>3. UNCHANGED <<indexes, busy, embedder, failed, todo, restoring, disk, history>>
  BY DEF Rename
<1>4. Disk'
  <2>1. CASE tmp = None
    BY <1>1, <1>3, <2>1 DEF Rename, Disk
  <2>2. CASE tmp # None
    BY <1>1, <1>3, <2>2 DEF Rename, Disk
  <2> QED BY <2>1, <2>2
<1>5. Types' /\ Alone'
  <2>1. Handlers'
    BY <1>1, <1>2, HandlersNext
  <2>2. Indexes' /\ Embedder'
    BY <1>1, <1>3 DEF Types, Indexes, Embedder, Listed
  <2>3. Alone'
    BY <1>1, <1>2, <1>3, AloneNext DEF history
  <2> QED BY <1>1, <1>3, <1>4, <2>1, <2>2, <2>3 DEF Types, history
<1>6. Own => Own'
  BY <1>3 DEF Own
<1>7. CASE overlap
  BY <1>3, <1>5, <1>6, <1>7 DEF RegistryInv, Soles, Published, Listing, Held, Gone, history
<1>8. CASE ~overlap
  <2>1. tmp \in Inode /\ tmp # None /\ tmp # toml /\ inode[tmp] = req[h].entries
    BY <1>1, <1>8, Constants DEF Soles, Sole, Disk
  <2>2. toml' = tmp /\ inode'[tmp] = req[h].entries
    BY <1>1, <2>1 DEF Rename, Disk
  <2>3. Load' = req[h].entries /\ Published'
    BY <1>1, <2>1, <2>2, Constants DEF Load, Published
  <2>4. \A g \in Handler \ {h} : pc[g] = "idle" /\ pc'[g] = "idle"
    BY <1>1, <1>2, <1>8, OnlyOne
  <2>5. embedder # "restoring"
    BY <1>1, <1>2, <1>8, OnlyOne
  <2>6. Registered' = Registered /\ req[h].id \notin Registered
    BY <1>1, <1>3, <1>8 DEF Registered, Soles, Sole, Saving
  <2>7. Sole(h)'
    BY <1>2, <2>6 DEF Sole, Saving
  <2>8. Soles'
    BY <1>3, <2>4, <2>5, <2>7 DEF Soles, Sole, Saving
  <2>9. ~missed => /\ Load' = Changed(req[h], Load)
                   /\ Load'[req[h].id] = IF req[h].kind = "create" THEN req[h].root ELSE NoRoot
                   /\ \A i \in Id \ {req[h].id} : Load'[i] = Load[i]
    <3>1. ~missed => req[h].entries = Changed(req[h], Load)
      BY <1>1, <1>8 DEF Listing, Ahead
    <3>2. Load \in Listings /\ (req[h].kind = "create" => req[h].root \in Root)
      BY <1>1, LoadIs DEF Local
    <3> QED BY <1>1, <2>3, <3>1, <3>2, ChangedIs
  <2>10. Listing'
    <3> SUFFICES ASSUME ~missed PROVE Listing'
      BY <1>3 DEF Listing, history
    <3>1. \A i \in Registered' : Load'[i] # NoRoot /\ (i \notin moved' => indexes'[i].root = Load'[i])
      <4> SUFFICES ASSUME NEW i \in Registered
                   PROVE  Load'[i] # NoRoot /\ (i \notin moved => indexes[i].root = Load'[i])
        BY <1>3, <2>6 DEF history
      <4>1. i \in Id \ {req[h].id}
        BY <2>6 DEF Registered
      <4>2. Load'[i] = Load[i]
        BY <2>9, <4>1
      <4> QED BY <1>1, <1>8, <4>2 DEF Listing
    <3>2. \A g \in Handler : Ahead(g)'
      BY <1>2, <2>4, <2>9 DEF Ahead
    <3>3. ASSUME embedder = "done", NEW i \in Id, Load'[i] # NoRoot
          PROVE  i \in Registered' \/ \E g \in Handler : Pending(g)' /\ req'[g].id = i
      <4>1. CASE i = req[h].id
        BY <1>2, <2>9, <3>3, <4>1 DEF Pending
      <4>2. CASE i # req[h].id
        <5>1. Load[i] # NoRoot
          BY <2>9, <3>3, <4>2
        <5>2. i \in Registered \/ \E g \in Handler : Pending(g) /\ req[g].id = i
          BY <1>1, <1>8, <3>3, <5>1 DEF Listing
        <5> QED BY <2>4, <2>6, <4>2, <5>2, IdlePromises
      <4> QED BY <4>1, <4>2
    <3> QED BY <1>3, <2>5, <3>1, <3>2, <3>3 DEF Listing, history
  <2>11. OneDirectoryEach => Own' /\ Gone'
    <3> SUFFICES ASSUME Own, Gone PROVE Gone'
      BY <1>6 DEF RegistryInv
    <3> SUFFICES ASSUME ~missed, NEW i \in Id \ leftover, disk[sanitize_id(i)] # NoId
                 PROVE  Load'[i] # NoRoot \/ \E g \in Handler : pc'[g] = "rmdir" /\ req'[g].id = i
      BY <1>3 DEF Gone, history
    <3>1. Load[i] # NoRoot
      BY <1>1, <1>8, <2>4 DEF Gone
    <3>2. CASE i = req[h].id
      BY <1>1, <1>2, <2>9, <3>2, RegistryAssumption DEF Local
    <3>3. CASE i # req[h].id
      BY <2>9, <3>1, <3>3
    <3> QED BY <3>2, <3>3
  <2>12. Held'
    BY <1>1, <1>3 DEF Held, history
  <2> QED BY <1>5, <2>3, <2>8, <2>10, <2>11, <2>12 DEF RegistryInv
<1> QED BY <1>7, <1>8

\* The end of a request.
LEMMA FinishIs ==
    ASSUME Handlers, Alone, NEW h \in Handler, pc[h] # "idle", Finish(h), overlap' = overlap,
           embedder' = embedder
    PROVE  /\ Others(h) /\ pc'[h] = "idle" /\ Handlers' /\ Alone'
           /\ ~overlap => \A g \in Handler : pc'[g] = "idle" /\ (g # h => pc[g] = "idle")
           /\ ~overlap => embedder # "restoring"
<1>1. Others(h) /\ pc'[h] = "idle" /\ req'[h] = NoReq
  BY Constants, RequestStep DEF Finish, Goto, Labels
<1>2. Local(h)'
  BY <1>1, Constants DEF Local, Saving
<1>3. Handlers' /\ Alone'
  BY <1>1, <1>2, HandlersNext, AloneNext
<1> QED BY <1>1, <1>3, OnlyOne

\* What is registered is what was built, and the root is the one in the file.
LEMMA RegisterStep == ASSUME RegistryInv, NEW h \in Handler, Register(h) PROVE RegistryInv'
<1> DEFINE i == req[h].id
           e == [indexer |-> req[h].indexer, root |-> req[h].root]
<1>1. /\ Types /\ Handlers /\ Indexes /\ Disk /\ Alone /\ Soles /\ Listing /\ Published /\ Held
      /\ Local(h) /\ pc[h] = "register" /\ Finish(h) /\ i \in Id
      /\ req[h].indexer \in Indexer /\ req[h].root \in Root
  BY DEF RegistryInv, Types, Handlers, Register, Local, Request
<1>2. /\ indexes' = [indexes EXCEPT ![i] = e] /\ moved' = moved \ {i}
      /\ UNCHANGED <<busy, embedder, failed, todo, restoring, files, overlap, missed, leftover>>
  BY DEF Register
<1>3. /\ Others(h) /\ pc'[h] = "idle" /\ Handlers' /\ Alone'
      /\ ~overlap => \A g \in Handler : pc'[g] = "idle" /\ (g # h => pc[g] = "idle")
      /\ ~overlap => embedder # "restoring"
  BY <1>1, <1>2, FinishIs
<1>4. e \in Entry /\ e.indexer = req[h].indexer /\ e.root = req[h].root /\ e # NoEntry
  BY <1>1, Constants DEF Entry
<1> HIDE DEF e, i
<1>5. /\ indexes'[i] = e /\ \A j \in Id \ {i} : indexes'[j] = indexes[j]
      /\ Registered' = Registered \cup {i}
  BY <1>1, <1>2, <1>4, Constants DEF Indexes, Registered
<1>6. Load' = Load /\ Published' /\ Disk'
  BY <1>1, <1>2 DEF files, Load, Published, Disk
<1>7. Types'
  <2>1. Indexes'
    BY <1>1, <1>2, <1>4, <1>5, Constants DEF Indexes
  <2>2. Embedder'
    BY <1>1, <1>2 DEF Types, Embedder, Listed
  <2> QED BY <1>1, <1>2, <1>3, <1>6, <2>1, <2>2 DEF Types
<1>8. Soles'
  BY <1>2, <1>3, IdlePromises DEF Soles, Sole, Saving
<1>9. Listing'
  <2> SUFFICES ASSUME ~overlap, ~missed PROVE Listing'
    BY <1>2 DEF Listing
  <2>1. \A j \in Registered' : Load'[j] # NoRoot /\ (j \notin moved' => indexes'[j].root = Load'[j])
    <3>1. Load[i] = req[h].root
      BY <1>1 DEF Listing, Ahead, i
    <3>2. Load[i] # NoRoot
      BY <1>1, <3>1, RegistryAssumption
    <3> QED BY <1>1, <1>2, <1>4, <1>5, <1>6, <3>1, <3>2 DEF Listing, Registered
  <2>2. \A g \in Handler : Ahead(g)'
    BY <1>3 DEF Ahead
  <2>3. ASSUME embedder = "done", NEW j \in Id, Load[j] # NoRoot PROVE j \in Registered'
    BY <1>1, <1>3, <1>5, <2>3, IdlePromises DEF Listing, i
  <2> QED BY <1>2, <1>3, <1>6, <2>1, <2>2, <2>3 DEF Listing
<1>10. Held'
  <2> SUFFICES ASSUME ~overlap, NEW m \in busy, m[1] \notin leftover
               PROVE  m[2] = indexes'[m[1]].indexer
    BY <1>2 DEF Held
  <2>1. m[2] = indexes[m[1]].indexer /\ m[1] \in Id /\ m[2] \in Indexer
    BY <1>1 DEF Held, Indexes
  <2>2. i \notin Registered
    BY <1>1 DEF Soles, Sole, Saving, i
  <2>3. m[1] # i
    BY <1>1, <2>1, <2>2, Constants DEF Registered
  <2> QED BY <1>5, <2>1, <2>3
<1>11. OneDirectoryEach => Own' /\ Gone'
  <2>1. Own => Own'
    BY <1>2 DEF Own, files
  <2>2. Gone => Gone'
    BY <1>1, <1>2, <1>3, <1>6 DEF Gone, files
  <2> QED BY <2>1, <2>2 DEF RegistryInv
<1> QED BY <1>3, <1>6, <1>7, <1>8, <1>9, <1>10, <1>11 DEF RegistryInv

\* A delete ends with the removal of the files.
LEMMA RemoveDataDirStep == ASSUME RegistryInv, NEW h \in Handler, RemoveDataDir(h) PROVE RegistryInv'
<1>1. /\ Types /\ Handlers /\ Indexes /\ Disk /\ Alone /\ Soles /\ Listing /\ Published /\ Held
      /\ pc[h] = "rmdir" /\ Finish(h) /\ req[h].id \in Id
  BY DEF RegistryInv, Types, Handlers, RemoveDataDir, Request
<1>2. /\ disk' = [disk EXCEPT ![sanitize_id(req[h].id)] = NoId]
      /\ UNCHANGED <<indexes, busy, embedder, failed, todo, restoring, toml, tmp, inode, history>>
  BY DEF RemoveDataDir
<1>3. /\ Others(h) /\ pc'[h] = "idle" /\ Handlers' /\ Alone'
      /\ ~overlap => \A g \in Handler : pc'[g] = "idle" /\ (g # h => pc[g] = "idle")
      /\ ~overlap => embedder # "restoring"
  BY <1>1, <1>2, FinishIs DEF history
<1>4. Load' = Load /\ Published' /\ Disk'
  BY <1>1, <1>2 DEF history, Load, Published, Disk
<1>5. Types'
  BY <1>1, <1>2, <1>3, <1>4 DEF Types, Indexes, Embedder, Listed, history
<1>6. Soles'
  BY <1>2, <1>3, IdlePromises DEF Soles, Sole, Saving, history
<1>7. Listing'
  <2> SUFFICES ASSUME ~overlap, ~missed PROVE Listing'
    BY <1>2 DEF Listing, history
  <2>1. \A g \in Handler : Ahead(g)'
    BY <1>3 DEF Ahead
  <2>2. \A g \in Handler : ~Pending(g)
    BY <1>1, <1>3, IdlePromises DEF Pending, Saving
  <2>3. Registered' = Registered
    BY <1>2 DEF Registered
  <2> QED BY <1>1, <1>2, <1>3, <1>4, <2>1, <2>2, <2>3 DEF Listing, history
<1>8. Held'
  BY <1>1, <1>2 DEF Held, history
<1>9. OneDirectoryEach => Own' /\ Gone'
  <2> SUFFICES ASSUME Own, Gone PROVE Own' /\ Gone'
    BY DEF RegistryInv
  <2>1. \A i \in Id : disk'[sanitize_id(i)] \in {NoId, disk[sanitize_id(i)]}
    BY <1>1, <1>2, RegistryAssumption DEF Disk, sanitize_id
  <2>2. disk'[sanitize_id(req[h].id)] = NoId
    BY <1>1, <1>2, RegistryAssumption DEF Disk, sanitize_id
  <2>3. Own'
    BY <2>1 DEF Own
  <2>4. Gone'
    <3> SUFFICES ASSUME ~overlap, ~missed, NEW i \in Id \ leftover, disk'[sanitize_id(i)] # NoId
                 PROVE  Load[i] # NoRoot
      BY <1>2, <1>4 DEF Gone, history
    <3>1. disk[sanitize_id(i)] # NoId /\ i # req[h].id
      BY <2>1, <2>2
    <3>2. Load[i] # NoRoot \/ \E g \in Handler : pc[g] = "rmdir" /\ req[g].id = i
      BY <3>1 DEF Gone
    <3> QED BY <1>3, <3>1, <3>2
  <2> QED BY <2>3, <2>4
<1> QED BY <1>3, <1>4, <1>5, <1>6, <1>7, <1>8, <1>9 DEF RegistryInv

\* A reindex that is alone registers the indexer that is registered.
LEMMA OverrideStep == ASSUME RegistryInv, NEW h \in Handler, Override(h) PROVE RegistryInv'
<1> DEFINE i == req[h].id
           e == [indexer |-> req[h].indexer, root |-> req[h].root]
<1>1. /\ Types /\ Handlers /\ Indexes /\ Disk /\ Alone /\ Soles /\ Listing /\ Published /\ Held
      /\ Local(h) /\ pc[h] = "override" /\ Finish(h) /\ i \in Id
      /\ req[h].indexer \in Indexer /\ req[h].root \in Root \cup {NoRoot}
  BY DEF RegistryInv, Types, Handlers, Override, Local, Request
<1>2. /\ indexes' = [indexes EXCEPT ![i] = e] /\ moved' = moved \cup {i}
      /\ busy' = busy \cup {<<i, req[h].indexer>>}
      /\ UNCHANGED <<embedder, failed, todo, restoring, files, overlap, missed, leftover>>
  BY DEF Override
<1>3. /\ Others(h) /\ pc'[h] = "idle" /\ Handlers' /\ Alone'
      /\ ~overlap => \A g \in Handler : pc'[g] = "idle" /\ (g # h => pc[g] = "idle")
      /\ ~overlap => embedder # "restoring"
  BY <1>1, <1>2, FinishIs
<1>4. e \in Entry /\ e.indexer = req[h].indexer /\ e # NoEntry
  BY <1>1, Constants DEF Entry
<1>5. ~overlap => i \in Registered /\ indexes[i].indexer = req[h].indexer
  BY <1>1 DEF Soles, Sole
<1> HIDE DEF e, i
<1>6. /\ indexes'[i] = e /\ \A j \in Id \ {i} : indexes'[j] = indexes[j]
      /\ Registered' = Registered \cup {i}
  BY <1>1, <1>2, <1>4, Constants DEF Indexes, Registered
<1>7. Load' = Load /\ Published' /\ Disk'
  BY <1>1, <1>2 DEF files, Load, Published, Disk
<1>8. Types'
  <2>1. Indexes'
    <3>1. indexes' \in [Id -> Entry] /\ busy' \in SUBSET (Id \X Indexer)
      BY <1>1, <1>2, <1>4 DEF Indexes
    <3>2. \A j \in Id : indexes'[j].indexer = None <=> indexes'[j] = NoEntry
      BY <1>1, <1>4, <1>6, Constants DEF Indexes
    <3> QED BY <3>1, <3>2 DEF Indexes
  <2>2. Embedder'
    BY <1>1, <1>2 DEF Types, Embedder, Listed
  <2> QED BY <1>1, <1>2, <1>3, <1>7, <2>1, <2>2 DEF Types
<1>9. Soles'
  BY <1>2, <1>3, IdlePromises DEF Soles, Sole, Saving
<1>10. Listing'
  <2> SUFFICES ASSUME ~overlap, ~missed PROVE Listing'
    BY <1>2 DEF Listing
  <2>1. \A j \in Registered' : Load'[j] # NoRoot /\ (j \notin moved' => indexes'[j].root = Load'[j])
    BY <1>1, <1>2, <1>5, <1>6, <1>7 DEF Listing, Registered
  <2>2. \A g \in Handler : Ahead(g)'
    BY <1>3 DEF Ahead
  <2>3. \A g \in Handler : ~Pending(g)
    BY <1>1, <1>3, IdlePromises DEF Pending, Saving
  <2> QED BY <1>1, <1>2, <1>3, <1>6, <1>7, <2>1, <2>2, <2>3 DEF Listing
<1>11. Held'
  <2> SUFFICES ASSUME ~overlap, NEW m \in busy', m[1] \notin leftover
               PROVE  m[2] = indexes'[m[1]].indexer
    BY <1>2 DEF Held
  <2>1. CASE m \in busy
    BY <1>1, <1>4, <1>5, <1>6, <2>1 DEF Held, Indexes
  <2>2. CASE m = <<i, req[h].indexer>>
    BY <1>4, <1>6, <2>2
  <2> QED BY <1>2, <2>1, <2>2
<1>12. OneDirectoryEach => Own' /\ Gone'
  <2>1. Own => Own'
    BY <1>2 DEF Own, files
  <2>2. Gone => Gone'
    BY <1>1, <1>2, <1>3, <1>7 DEF Gone, files
  <2> QED BY <2>1, <2>2 DEF RegistryInv
<1> QED BY <1>3, <1>7, <1>8, <1>9, <1>10, <1>11, <1>12 DEF RegistryInv

-----------------------------------------------------------------------------
(* A request begins.                                                       *)

\* It may be the only one, or it is seen to overlap.
LEMMA BeginIs ==
    ASSUME Types, Alone, NEW h \in Handler, NEW label \in Labels \ {"idle"},
           NEW kind \in {"create", "delete", "reindex"}, NEW i \in Id, NEW r \in Root \cup {NoRoot},
           Begin(h, label, kind, i, r), embedder' = embedder
    PROVE  /\ Others(h) /\ pc[h] = "idle" /\ pc'[h] = label /\ Alone' /\ overlap' \in BOOLEAN
           /\ req'[h].kind = kind /\ req'[h].id = i /\ req'[h].root = r
           /\ req'[h].indexer = indexes[i].indexer
           /\ ~overlap' => /\ ~overlap /\ embedder \notin {"list", "restoring"}
                           /\ \A g \in Handler : pc[g] = "idle" /\ (g # h => pc'[g] = "idle")
<1> DEFINE q == [NoReq EXCEPT !.kind = kind, !.id = i, !.root = r, !.indexer = indexes[i].indexer]
<1>1. /\ q \in Request /\ q.kind = kind /\ q.id = i /\ q.root = r
      /\ q.indexer = indexes[i].indexer
  BY Constants DEF Types, Indexes, Entry, Request
<1>2. /\ pc[h] = "idle" /\ Goto(h, label) /\ req' = [req EXCEPT ![h] = q]
      /\ overlap' = (overlap \/ Mutating # {} \/ embedder \in {"list", "restoring"})
  BY DEF Begin
<1> HIDE DEF q
<1>3. Others(h) /\ pc'[h] = label /\ req'[h] = q
  BY <1>1, <1>2, RequestStep DEF Types
<1>4. /\ overlap' \in BOOLEAN
      /\ ~overlap' => ~overlap /\ embedder \notin {"list", "restoring"} /\ Mutating = {}
  BY <1>2 DEF Types
<1>5. ~overlap' => \A g \in Handler : pc[g] = "idle" /\ (g # h => pc'[g] = "idle")
  BY <1>3, <1>4 DEF Mutating, Others
<1>6. Alone'
  BY <1>3, <1>4, <1>5 DEF Alone
<1> QED BY <1>1, <1>2, <1>3, <1>4, <1>5, <1>6

\* A create leaves all as it is.
LEMMA CreateStep == ASSUME RegistryInv, NEW h \in Handler, Create(h) PROVE RegistryInv'
<1>1. /\ Types /\ Handlers /\ Indexes /\ Disk /\ Alone /\ Soles /\ Listing /\ Published /\ Held
  BY DEF RegistryInv, Types
<1>2. PICK i \in Id, r \in Root :
        /\ i \notin Registered /\ Begin(h, "build", "create", i, r)
        /\ UNCHANGED <<indexes, busy, embedder, failed, todo, restoring, files,
                       missed, moved, leftover>>
  BY DEF Create
<1>3. /\ Others(h) /\ pc[h] = "idle" /\ pc'[h] = "build" /\ Alone' /\ overlap' \in BOOLEAN
      /\ req'[h].kind = "create" /\ req'[h].id = i /\ req'[h].root = r
      /\ ~overlap' => /\ ~overlap /\ embedder \notin {"list", "restoring"}
                      /\ \A g \in Handler : pc[g] = "idle" /\ (g # h => pc'[g] = "idle")
  BY <1>1, <1>2, BeginIs DEF Labels
<1>4. Load' = Load /\ (Published => Published') /\ Disk' /\ Registered' = Registered
  BY <1>1, <1>2, <1>3 DEF files, Load, Published, Disk, Registered
<1>5. Types'
  <2>1. Local(h)'
    BY <1>3 DEF Local, Saving
  <2>2. Handlers'
    BY <1>1, <1>3, <2>1, HandlersNext
  <2>3. Indexes' /\ Embedder'
    BY <1>1, <1>2 DEF Types, Indexes, Embedder, Listed
  <2> QED BY <1>1, <1>2, <1>3, <1>4, <2>2, <2>3 DEF Types
<1>6. Soles'
  <2> SUFFICES ASSUME ~overlap' PROVE Soles'
    BY DEF Soles
  <2>1. Sole(h)'
    BY <1>2, <1>3, <1>4 DEF Sole
  <2>2. \A g \in Handler \ {h} : Sole(g)'
    BY <1>3 DEF Sole, Saving
  <2> QED BY <1>2, <1>3, <2>1, <2>2 DEF Soles
<1>7. Listing'
  <2> SUFFICES ASSUME ~overlap', ~missed PROVE Listing'
    BY <1>2 DEF Listing
  <2>1. \A g \in Handler : Ahead(g)'
    BY <1>3 DEF Ahead
  <2>2. \A g \in Handler : ~Pending(g)
    BY <1>3, IdlePromises
  <2> QED BY <1>1, <1>2, <1>3, <1>4, <2>1, <2>2 DEF Listing
<1>8. Held'
  BY <1>1, <1>2, <1>3 DEF Held
<1>9. OneDirectoryEach => Own' /\ Gone'
  <2>1. Own => Own'
    BY <1>2 DEF Own, files
  <2>2. Gone => Gone'
    BY <1>2, <1>3, <1>4 DEF Gone, files
  <2> QED BY <2>1, <2>2 DEF RegistryInv
<1> QED BY <1>1, <1>3, <1>4, <1>5, <1>6, <1>7, <1>8, <1>9 DEF RegistryInv

\* A reindex notes the indexer that is registered.
LEMMA ReindexStep == ASSUME RegistryInv, NEW h \in Handler, Reindex(h) PROVE RegistryInv'
<1>1. /\ Types /\ Handlers /\ Indexes /\ Disk /\ Alone /\ Soles /\ Listing /\ Published /\ Held
  BY DEF RegistryInv, Types
<1>2. PICK i \in Registered, r \in Root :
        /\ Begin(h, "override", "reindex", i, r)
        /\ UNCHANGED <<indexes, busy, embedder, failed, todo, restoring, files,
                       missed, moved, leftover>>
  BY DEF Reindex
<1>3. i \in Id /\ indexes[i].indexer \in Indexer
  BY <1>1 DEF Registered, Indexes, Entry
<1>4. /\ Others(h) /\ pc[h] = "idle" /\ pc'[h] = "override" /\ Alone' /\ overlap' \in BOOLEAN
      /\ req'[h].kind = "reindex" /\ req'[h].id = i /\ req'[h].root = r
      /\ req'[h].indexer = indexes[i].indexer
      /\ ~overlap' => /\ ~overlap /\ embedder \notin {"list", "restoring"}
                      /\ \A g \in Handler : pc[g] = "idle" /\ (g # h => pc'[g] = "idle")
  BY <1>1, <1>2, <1>3, BeginIs DEF Labels
<1>5. Load' = Load /\ (Published => Published') /\ Disk' /\ Registered' = Registered
  BY <1>1, <1>2, <1>4 DEF files, Load, Published, Disk, Registered
<1>6. Types'
  <2>1. Local(h)'
    BY <1>3, <1>4 DEF Local, Saving
  <2>2. Handlers'
    BY <1>1, <1>4, <2>1, HandlersNext
  <2>3. Indexes' /\ Embedder'
    BY <1>1, <1>2 DEF Types, Indexes, Embedder, Listed
  <2> QED BY <1>1, <1>2, <1>4, <1>5, <2>2, <2>3 DEF Types
<1>7. Soles'
  <2> SUFFICES ASSUME ~overlap' PROVE Soles'
    BY DEF Soles
  <2>1. Sole(h)'
    BY <1>2, <1>4, <1>5 DEF Sole, Saving
  <2>2. \A g \in Handler \ {h} : Sole(g)'
    BY <1>4 DEF Sole, Saving
  <2> QED BY <1>2, <1>4, <2>1, <2>2 DEF Soles
<1>8. Listing'
  <2> SUFFICES ASSUME ~overlap', ~missed PROVE Listing'
    BY <1>2 DEF Listing
  <2>1. \A g \in Handler : Ahead(g)'
    BY <1>4 DEF Ahead
  <2>2. \A g \in Handler : ~Pending(g)
    BY <1>4, IdlePromises
  <2> QED BY <1>1, <1>2, <1>4, <1>5, <2>1, <2>2 DEF Listing
<1>9. Held'
  BY <1>1, <1>2, <1>4 DEF Held
<1>10. OneDirectoryEach => Own' /\ Gone'
  <2>1. Own => Own'
    BY <1>2 DEF Own, files
  <2>2. Gone => Gone'
    BY <1>2, <1>4, <1>5 DEF Gone, files
  <2> QED BY <2>1, <2>2 DEF RegistryInv
<1> QED BY <1>1, <1>4, <1>5, <1>6, <1>7, <1>8, <1>9, <1>10 DEF RegistryInv

\* A delete takes its id out of the registry first.
LEMMA DeleteStep == ASSUME RegistryInv, NEW h \in Handler, Delete(h) PROVE RegistryInv'
<1>1. /\ Types /\ Handlers /\ Indexes /\ Disk /\ Alone /\ Soles /\ Listing /\ Published /\ Held
  BY DEF RegistryInv, Types
<1>2. PICK i \in Registered :
        /\ Begin(h, "load", "delete", i, NoRoot)
        /\ indexes' = [indexes EXCEPT ![i] = NoEntry]
        /\ leftover' = IF <<i, indexes[i].indexer>> \in busy THEN leftover \cup {i} ELSE leftover
        /\ UNCHANGED <<busy, embedder, failed, todo, restoring, files, missed, moved>>
  BY DEF Delete
<1>3. i \in Id
  BY DEF Registered
<1>4. /\ Others(h) /\ pc[h] = "idle" /\ pc'[h] = "load" /\ Alone' /\ overlap' \in BOOLEAN
      /\ req'[h].kind = "delete" /\ req'[h].id = i
      /\ ~overlap' => /\ ~overlap /\ embedder \notin {"list", "restoring"}
                      /\ \A g \in Handler : pc[g] = "idle" /\ (g # h => pc'[g] = "idle")
  BY <1>1, <1>2, <1>3, BeginIs DEF Labels
<1>5. Load' = Load /\ (Published => Published') /\ Disk'
  BY <1>1, <1>2, <1>4 DEF files, Load, Published, Disk
<1>6. /\ indexes'[i] = NoEntry /\ \A j \in Id \ {i} : indexes'[j] = indexes[j]
      /\ Registered' = Registered \ {i}
  BY <1>1, <1>2, <1>3, Constants DEF Indexes, Registered
<1>7. Types'
  <2>1. Local(h)'
    BY <1>4 DEF Local, Saving
  <2>2. Handlers'
    BY <1>1, <1>4, <2>1, HandlersNext
  <2>3. Indexes'
    BY <1>1, <1>2, <1>6, Constants DEF Indexes
  <2>4. Embedder'
    BY <1>1, <1>2 DEF Types, Embedder, Listed
  <2> QED BY <1>1, <1>2, <1>4, <1>5, <2>2, <2>3, <2>4 DEF Types
<1>8. Soles'
  <2> SUFFICES ASSUME ~overlap' PROVE Soles'
    BY DEF Soles
  <2>1. Sole(h)'
    BY <1>4, <1>6 DEF Sole
  <2>2. \A g \in Handler \ {h} : Sole(g)'
    BY <1>4 DEF Sole, Saving
  <2> QED BY <1>2, <1>4, <2>1, <2>2 DEF Soles
<1>9. Listing'
  <2> SUFFICES ASSUME ~overlap', ~missed PROVE Listing'
    BY <1>2 DEF Listing
  <2>1. \A g \in Handler : Ahead(g)'
    BY <1>4 DEF Ahead
  <2>2. \A g \in Handler : ~Pending(g)
    BY <1>4, IdlePromises
  <2>3. Pending(h)'
    BY <1>4 DEF Pending, Saving
  <2>4. \A j \in Registered' : Load'[j] # NoRoot /\ (j \notin moved' => indexes'[j].root = Load'[j])
    BY <1>1, <1>2, <1>4, <1>5, <1>6 DEF Listing, Registered
  <2>5. ASSUME embedder = "done", NEW j \in Id, Load[j] # NoRoot
        PROVE  j \in Registered' \/ \E g \in Handler : Pending(g)' /\ req'[g].id = j
    <3>1. j \in Registered
      BY <1>1, <1>4, <2>2, <2>5 DEF Listing
    <3> QED BY <1>4, <1>6, <2>3, <3>1
  <2> QED BY <1>2, <1>4, <1>5, <2>1, <2>4, <2>5 DEF Listing
<1>10. Held'
  <2> SUFFICES ASSUME ~overlap', NEW m \in busy, m[1] \notin leftover'
               PROVE  m[2] = indexes'[m[1]].indexer
    BY <1>2 DEF Held
  <2>1. m[1] \in Id /\ m = <<m[1], m[2]>>
    BY <1>1 DEF Indexes
  <2>2. m[2] = indexes[m[1]].indexer
    BY <1>1, <1>2, <1>4 DEF Held
  <2>3. m[1] # i
    BY <1>2, <2>1, <2>2
  <2> QED BY <1>6, <2>1, <2>2, <2>3
<1>11. OneDirectoryEach => Own' /\ Gone'
  <2>1. Own => Own'
    BY <1>2 DEF Own, files
  <2>2. Gone => Gone'
    <3>1. leftover \subseteq leftover'
      BY <1>2
    <3> QED BY <1>2, <1>4, <1>5, <3>1 DEF Gone, files
  <2> QED BY <2>1, <2>2 DEF RegistryInv
<1> QED BY <1>1, <1>4, <1>5, <1>7, <1>8, <1>9, <1>10, <1>11 DEF RegistryInv

-----------------------------------------------------------------------------
(* Runs and persist tasks.                                                 *)

\* What is held is registered.
LEMMA WorkStep == ASSUME RegistryInv, Work PROVE RegistryInv'
<1>1. /\ Types /\ Handlers /\ Indexes /\ Disk /\ Alone /\ Soles /\ Listing /\ Published /\ Held
  BY DEF RegistryInv, Types
<1>2. PICK i \in Registered :
        /\ busy' = busy \cup {<<i, indexes[i].indexer>>}
        /\ UNCHANGED <<indexes, embedder, failed, todo, restoring, pc, req, files, history>>
  BY DEF Work
<1>3. i \in Id /\ indexes[i].indexer \in Indexer
  BY <1>1 DEF Registered, Indexes, Entry
<1>4. Types'
  <2>1. Indexes'
    BY <1>1, <1>2, <1>3 DEF Indexes
  <2>2. Handlers' /\ Disk' /\ Embedder'
    BY <1>1, <1>2 DEF Types, Handlers, Local, Disk, Embedder, Listed, files
  <2> QED BY <1>1, <1>2, <2>1, <2>2 DEF Types, history
<1>5. Load' = Load /\ Registered' = Registered
  BY <1>2 DEF files, Load, Registered
<1>6. Alone' /\ Soles' /\ Published' /\ Listing'
  BY <1>1, <1>2, <1>5 DEF files, history, Alone, Soles, Sole, Published, Listing, Ahead,
     Changed, Pending
<1>7. Held'
  BY <1>1, <1>2 DEF Held, history
<1>8. OneDirectoryEach => Own' /\ Gone'
  BY <1>2, <1>5 DEF RegistryInv, Own, Gone, files, history
<1> QED BY <1>4, <1>6, <1>7, <1>8 DEF RegistryInv

\* What is saved belongs to a registered index, but for what a delete left behind.
LEMMA SaveStep == ASSUME RegistryInv, Save PROVE RegistryInv'
<1>1. /\ Types /\ Handlers /\ Indexes /\ Disk /\ Alone /\ Soles /\ Listing /\ Published /\ Held
  BY DEF RegistryInv, Types
<1>2. PICK n \in busy :
        /\ busy' = busy \ {n}
        /\ disk' = [disk EXCEPT ![sanitize_id(n[1])] = n[1]]
        /\ UNCHANGED <<indexes, embedder, failed, todo, restoring, pc, req, toml, tmp, inode, history>>
  BY DEF Save
<1>3. n[1] \in Id /\ n[2] \in Indexer
  BY <1>1 DEF Indexes
<1>4. /\ disk'[sanitize_id(n[1])] = n[1]
      /\ \A i \in Id : sanitize_id(i) # sanitize_id(n[1]) =>
            disk'[sanitize_id(i)] = disk[sanitize_id(i)]
  BY <1>1, <1>2, <1>3, RegistryAssumption DEF Disk, sanitize_id
<1>5. Types'
  <2>1. Indexes' /\ Disk'
    BY <1>1, <1>2, <1>3 DEF Indexes, Disk
  <2>2. Handlers' /\ Embedder'
    BY <1>1, <1>2 DEF Types, Handlers, Local, Embedder, Listed
  <2> QED BY <1>1, <1>2, <2>1, <2>2 DEF Types, history
<1>6. Load' = Load /\ Registered' = Registered
  BY <1>2 DEF Load, Registered
<1>7. Alone' /\ Soles' /\ Published' /\ Listing'
  BY <1>1, <1>2, <1>6 DEF history, Alone, Soles, Sole, Published, Listing, Ahead,
     Changed, Pending
<1>8. Held'
  BY <1>1, <1>2 DEF Held, history
<1>9. OneDirectoryEach => Own' /\ Gone'
  <2> SUFFICES ASSUME OneDirectoryEach, Own, Gone PROVE Own' /\ Gone'
    BY DEF RegistryInv
  <2>1. \A i \in Id : i # n[1] => disk'[sanitize_id(i)] = disk[sanitize_id(i)]
    BY <1>3, <1>4 DEF OneDirectoryEach
  <2>2. Own'
    BY <1>4, <2>1 DEF Own
  <2>3. Gone'
    <3> SUFFICES ASSUME ~overlap, ~missed, NEW i \in Id \ leftover, disk'[sanitize_id(i)] # NoId
                 PROVE  Load[i] # NoRoot \/ \E g \in Handler : pc[g] = "rmdir" /\ req[g].id = i
      BY <1>2, <1>6 DEF Gone, history
    <3>1. CASE i = n[1]
      <4>1. n[2] = indexes[i].indexer
        BY <1>1, <3>1 DEF Held
      <4>2. i \in Registered
        BY <1>3, <4>1, Constants DEF Registered
      <4> QED BY <1>1, <4>2 DEF Listing
    <3>2. CASE i # n[1]
      BY <2>1, <3>2 DEF Gone
    <3> QED BY <3>1, <3>2
  <2> QED BY <2>2, <2>3
<1> QED BY <1>5, <1>7, <1>8, <1>9 DEF RegistryInv

-----------------------------------------------------------------------------
(* The embedder and the restore.                                           *)

\* The embedder is there or not; nothing is being restored before or after.
LEMMA InstallStep ==
    ASSUME RegistryInv, InstallSlot \/ InstallReady \/ InitFails
    PROVE  RegistryInv'
<1>1. /\ Types /\ Handlers /\ Indexes /\ Disk /\ Alone /\ Soles /\ Listing /\ Published /\ Held
  BY DEF RegistryInv, Types
<1>2. /\ embedder' \in {"slot", "list", "failed"} /\ failed' \in BOOLEAN
      /\ embedder' = "failed" => failed' = TRUE
      /\ UNCHANGED <<indexes, busy, todo, restoring, pc, req, files, history>>
  <2>1. CASE InstallSlot
    BY <1>1, <2>1 DEF InstallSlot, Types, Embedder
  <2>2. CASE InstallReady
    BY <2>2 DEF InstallReady
  <2>3. CASE InitFails
    BY <2>3 DEF InitFails
  <2> QED BY <2>1, <2>2, <2>3
<1>3. Types'
  BY <1>1, <1>2 DEF Types, Handlers, Local, Indexes, Disk, Embedder, files, history
<1>4. Load' = Load /\ Registered' = Registered
  BY <1>2 DEF files, Load, Registered
<1>5. Alone' /\ Soles' /\ Published' /\ Listing'
  BY <1>1, <1>2, <1>4 DEF files, history, Alone, Soles, Sole, Published, Listing, Ahead,
     Changed, Pending
<1>6. Held'
  BY <1>1, <1>2 DEF Held, history
<1>7. OneDirectoryEach => Own' /\ Gone'
  BY <1>2, <1>4 DEF RegistryInv, Own, Gone, files, history
<1> QED BY <1>3, <1>5, <1>6, <1>7 DEF RegistryInv

\* All that the file lists is to be restored.
LEMMA RestoreListStep == ASSUME RegistryInv, RestoreList PROVE RegistryInv'
<1> DEFINE q == [NoReq EXCEPT !.entries = Load]
<1>1. /\ Types /\ Handlers /\ Indexes /\ Disk /\ Alone /\ Soles /\ Listing /\ Published /\ Held
  BY DEF RegistryInv, Types
<1>2. /\ todo' = Listed(Load) /\ restoring' = q /\ embedder' = "restoring"
      /\ overlap' = (overlap \/ Mutating # {})
      /\ UNCHANGED <<indexes, busy, failed, pc, req, files, missed, moved, leftover>>
  BY DEF RestoreList
<1>3. q \in Request /\ q.entries = Load /\ q.indexer = None
  BY <1>1, LoadIs, Constants DEF Request
<1> HIDE DEF q
<1>4. overlap' \in BOOLEAN /\ (~overlap' => ~overlap /\ Mutating = {})
  BY <1>1, <1>2 DEF Types
<1>5. ~overlap' => \A g \in Handler : pc[g] = "idle"
  BY <1>4 DEF Mutating
<1>6. Load' = Load /\ Registered' = Registered
  BY <1>2 DEF files, Load, Registered
<1>7. Types'
  <2>1. Embedder'
    BY <1>1, <1>2, <1>3 DEF Types, Embedder, Listed
  <2>2. Handlers' /\ Indexes' /\ Disk'
    BY <1>1, <1>2 DEF Handlers, Local, Indexes, Disk, files
  <2> QED BY <1>1, <1>2, <1>4, <2>1, <2>2 DEF Types
<1>8. Alone' /\ Soles' /\ Published'
  BY <1>1, <1>2, <1>3, <1>4, <1>5 DEF files, Alone, Soles, Sole, Saving, Published
<1>9. Listing'
  <2> SUFFICES ASSUME ~overlap', ~missed PROVE Listing'
    BY <1>2 DEF Listing
  <2>1. \A g \in Handler : Ahead(g)'
    BY <1>2, <1>5 DEF Ahead
  <2>2. \A i \in Id : Load[i] # NoRoot => i \in todo'
    BY <1>2 DEF Listed
  <2> QED BY <1>1, <1>2, <1>3, <1>4, <1>6, <2>1, <2>2 DEF Listing
<1>10. Held'
  BY <1>1, <1>2, <1>4 DEF Held
<1>11. OneDirectoryEach => Own' /\ Gone'
  BY <1>2, <1>4, <1>6 DEF RegistryInv, Own, Gone, files
<1> QED BY <1>7, <1>8, <1>9, <1>10, <1>11 DEF RegistryInv

\* The next entry is built from what the file listed, or skipped.
LEMMA RestoreBuildStep == ASSUME RegistryInv, RestoreBuild PROVE RegistryInv'
<1>1. /\ Types /\ Handlers /\ Indexes /\ Disk /\ Embedder /\ Alone /\ Soles /\ Listing
      /\ Published /\ Held /\ embedder = "restoring" /\ restoring.indexer = None
      /\ restoring \in Request
  BY DEF RegistryInv, Types, Embedder, RestoreBuild
<1>2. UNCHANGED <<indexes, busy, embedder, failed, pc, req, files, history>>
  BY DEF RestoreBuild
<1>3. PICK i \in todo :
        \/ /\ i \in Registered
           /\ todo' = todo \ {i} /\ UNCHANGED <<restoring>>
        \/ /\ i \notin Registered /\ Unused(i) # {}
           /\ restoring' = [restoring EXCEPT !.id = i, !.indexer = Fresh(i),
                                             !.root = restoring.entries[i]]
           /\ UNCHANGED todo
  BY DEF RestoreBuild
<1>4. Load' = Load /\ Registered' = Registered
  BY <1>2 DEF files, Load, Registered
<1>5. i \in Id /\ restoring.entries[i] \in Root
  BY <1>1 DEF Embedder, Listed, Request, Listings
<1>6. /\ Embedder' /\ todo' \subseteq todo
      /\ restoring'.entries = restoring.entries
      /\ \A j \in todo \ todo' : j \in Registered
      /\ restoring'.indexer # None =>
            /\ restoring'.id = i /\ restoring'.root = restoring.entries[i]
            /\ i \notin Registered
  <2>1. CASE i \in Registered /\ todo' = todo \ {i} /\ UNCHANGED restoring
    BY <1>1, <1>2, <2>1 DEF Embedder
  <2>2. CASE /\ i \notin Registered /\ Unused(i) # {}
             /\ restoring' = [restoring EXCEPT !.id = i, !.indexer = Fresh(i),
                                               !.root = restoring.entries[i]]
             /\ UNCHANGED todo
    <3>1. Fresh(i) \in Indexer
      BY <1>5, <2>2, FreshIs
    <3>2. /\ restoring' \in Request /\ restoring'.id = i
          /\ restoring'.root = restoring.entries[i] /\ restoring'.entries = restoring.entries
      BY <1>1, <1>5, <2>2, <3>1 DEF Request
    <3> QED BY <1>1, <1>2, <1>5, <2>2, <3>2 DEF Embedder
  <2> QED BY <1>3, <2>1, <2>2
<1>7. Types'
  BY <1>1, <1>2, <1>6 DEF Types, Handlers, Local, Indexes, Disk, files, history
<1>8. Alone' /\ Soles' /\ Published'
  BY <1>1, <1>2, <1>4, <1>6 DEF files, history, Alone, Soles, Sole, Published
<1>9. Listing'
  <2> SUFFICES ASSUME ~overlap, ~missed PROVE Listing'
    BY <1>2 DEF Listing, history
  <2>1. /\ restoring.entries = Load /\ \A j \in Id : Load[j] # NoRoot => j \in Registered \cup todo
        /\ \A j \in Registered : Load[j] # NoRoot /\ (j \notin moved => indexes[j].root = Load[j])
        /\ \A h \in Handler : Ahead(h)
    BY <1>1 DEF Listing
  <2>2. \A h \in Handler : Ahead(h)'
    BY <1>2, <1>4, <2>1 DEF Ahead, Changed
  <2>3. Load[i] # NoRoot
    BY <1>5, <2>1, RegistryAssumption
  <2> QED BY <1>1, <1>2, <1>4, <1>6, <2>1, <2>2, <2>3 DEF Listing, history
<1>10. Held'
  BY <1>1, <1>2 DEF Held, history
<1>11. OneDirectoryEach => Own' /\ Gone'
  BY <1>2, <1>4 DEF RegistryInv, Own, Gone, files, history
<1> QED BY <1>7, <1>8, <1>9, <1>10, <1>11 DEF RegistryInv

\* ... and registered with the root the file has for it.
LEMMA RestoreRegisterStep == ASSUME RegistryInv, RestoreRegister PROVE RegistryInv'
<1> DEFINE i == restoring.id
           e == [indexer |-> restoring.indexer, root |-> restoring.root]
           q == [restoring EXCEPT !.indexer = None]
<1>1. /\ Types /\ Handlers /\ Indexes /\ Disk /\ Embedder /\ Alone /\ Soles /\ Listing
      /\ Published /\ Held /\ embedder = "restoring" /\ restoring \in Request
      /\ restoring.indexer \in Indexer /\ restoring.root \in Root /\ i \in Id
  BY DEF RegistryInv, Types, Embedder, RestoreRegister, Request
<1>2. /\ indexes' = [indexes EXCEPT ![i] = e] /\ todo' = todo \ {i} /\ restoring' = q
      /\ UNCHANGED <<busy, embedder, failed, pc, req, files, history>>
  BY DEF RestoreRegister
<1>3. e \in Entry /\ e.indexer = restoring.indexer /\ e.root = restoring.root /\ e # NoEntry
  BY <1>1, Constants DEF Entry
<1>4. q \in Request /\ q.entries = restoring.entries /\ q.indexer = None
  BY <1>1 DEF Request
<1> HIDE DEF e, q, i
<1>5. /\ indexes'[i] = e /\ \A j \in Id \ {i} : indexes'[j] = indexes[j]
      /\ Registered' = Registered \cup {i}
  BY <1>1, <1>2, <1>3, Constants DEF Indexes, Registered
<1>6. Load' = Load /\ Published' /\ Disk'
  BY <1>1, <1>2 DEF files, history, Load, Published, Disk
<1>7. ~overlap => i \notin Registered /\ \A h \in Handler : pc[h] = "idle"
  BY <1>1, Constants DEF Soles, Alone, i
<1>8. Types'
  <2>1. Indexes'
    BY <1>1, <1>2, <1>3, <1>5, Constants DEF Indexes
  <2>2. Embedder'
    BY <1>1, <1>2, <1>4 DEF Embedder, Listed
  <2>3. Handlers'
    BY <1>1, <1>2 DEF Handlers, Local
  <2> QED BY <1>1, <1>2, <1>6, <2>1, <2>2, <2>3 DEF Types, history
<1>9. Alone'
  BY <1>1, <1>2 DEF Alone, history
<1>10. Soles'
  BY <1>2, <1>4, <1>7 DEF Soles, Sole, Saving, history
<1>11. Listing'
  <2> SUFFICES ASSUME ~overlap, ~missed PROVE Listing'
    BY <1>2 DEF Listing, history
  <2>1. Load[i] # NoRoot /\ restoring.root = Load[i]
    BY <1>1, Constants DEF Listing, i
  <2>2. \A j \in Registered' : Load'[j] # NoRoot /\ (j \notin moved' => indexes'[j].root = Load'[j])
    BY <1>1, <1>2, <1>3, <1>5, <1>6, <2>1 DEF Listing, Registered, history
  <2>3. \A h \in Handler : Ahead(h)'
    BY <1>2, <1>7 DEF Ahead
  <2>4. \A j \in Id : Load[j] # NoRoot => j \in Registered' \cup todo'
    BY <1>1, <1>2, <1>5 DEF Listing
  <2> QED BY <1>1, <1>2, <1>4, <1>6, <2>2, <2>3, <2>4 DEF Listing, history
<1>12. Held'
  <2> SUFFICES ASSUME ~overlap, NEW m \in busy, m[1] \notin leftover
               PROVE  m[2] = indexes'[m[1]].indexer
    BY <1>2 DEF Held, history
  <2>1. m[2] = indexes[m[1]].indexer /\ m[1] \in Id /\ m[2] \in Indexer
    BY <1>1 DEF Held, Indexes
  <2>2. m[1] # i
    BY <1>1, <1>7, <2>1, Constants DEF Registered
  <2> QED BY <1>5, <2>1, <2>2
<1>13. OneDirectoryEach => Own' /\ Gone'
  BY <1>2, <1>6 DEF RegistryInv, Own, Gone, files, history
<1> QED BY <1>6, <1>8, <1>9, <1>10, <1>11, <1>12, <1>13 DEF RegistryInv

\* Nothing is left to restore.
LEMMA RestoreDoneStep == ASSUME RegistryInv, RestoreDone PROVE RegistryInv'
<1>1. /\ Types /\ Handlers /\ Indexes /\ Disk /\ Embedder /\ Alone /\ Soles /\ Listing
      /\ Published /\ Held /\ embedder = "restoring" /\ todo = {}
  BY DEF RegistryInv, Types, RestoreDone
<1>2. /\ embedder' = "done" /\ restoring' = NoReq
      /\ UNCHANGED <<indexes, busy, failed, todo, pc, req, files, history>>
  BY DEF RestoreDone
<1>3. Load' = Load /\ Registered' = Registered
  BY <1>2 DEF files, Load, Registered
<1>4. Types'
  <2>1. Embedder'
    BY <1>1, <1>2, Constants DEF Embedder
  <2>2. Handlers' /\ Indexes' /\ Disk'
    BY <1>1, <1>2 DEF Handlers, Local, Indexes, Disk, files
  <2> QED BY <1>1, <1>2, <2>1, <2>2 DEF Types, history
<1>5. Alone' /\ Soles' /\ Published' /\ Listing'
  BY <1>1, <1>2, <1>3 DEF files, history, Alone, Soles, Sole, Published, Listing, Ahead,
     Changed, Pending
<1>6. Held'
  BY <1>1, <1>2 DEF Held, history
<1>7. OneDirectoryEach => Own' /\ Gone'
  BY <1>2, <1>3 DEF RegistryInv, Own, Gone, files, history
<1> QED BY <1>4, <1>5, <1>6, <1>7 DEF RegistryInv

\* A new process finds the files as the last one left them.
LEMMA RestartStep == ASSUME RegistryInv, Restart PROVE RegistryInv'
<1>1. /\ Types /\ Handlers /\ Indexes /\ Disk /\ Embedder /\ Alone /\ Soles /\ Listing
      /\ Published /\ Held
  BY DEF RegistryInv, Types
<1>2. /\ indexes' = [i \in Id |-> NoEntry] /\ busy' = {}
      /\ embedder' = "loading" /\ failed' = FALSE /\ todo' = {} /\ restoring' = NoReq
      /\ pc' = [h \in Handler |-> "idle"] /\ req' = [h \in Handler |-> NoReq]
      /\ missed' = (missed \/ Mutating # {})
      /\ UNCHANGED <<files, overlap, leftover>>
  BY DEF Restart
<1>3. missed' \in BOOLEAN /\ (~missed' => ~missed /\ Mutating = {})
  BY <1>1, <1>2 DEF Types
<1>4. Load' = Load /\ Registered' = {}
  BY <1>2, Constants DEF files, Load, Registered
<1>5. Types'
  <2>1. Handlers'
    BY <1>2, Constants DEF Handlers, Local, Saving, Labels
  <2>2. Indexes'
    BY <1>2, Constants DEF Indexes
  <2>3. Disk' /\ Embedder'
    BY <1>1, <1>2, Constants DEF Disk, Embedder, files
  <2> QED BY <1>1, <1>2, <1>3, <2>1, <2>2, <2>3 DEF Types
<1>6. Alone' /\ Soles' /\ Published' /\ Listing'
  BY <1>1, <1>2, <1>4 DEF files, Alone, Soles, Sole, Saving, Published, Listing, Ahead
<1>7. Held'
  BY <1>2 DEF Held
<1>8. OneDirectoryEach => Own' /\ Gone'
  <2>1. Own => Own'
    BY <1>2 DEF Own, files
  <2>2. Gone => Gone'
    BY <1>2, <1>3, <1>4 DEF Gone, files, Mutating
  <2> QED BY <2>1, <2>2 DEF RegistryInv
<1> QED BY <1>5, <1>6, <1>7, <1>8 DEF RegistryInv

-----------------------------------------------------------------------------
(* The theorems.                                                           *)

\* A daemon that is started for the first time finds no file.
LEMMA RegistryInit == Init => RegistryInv
<1> SUFFICES ASSUME Init PROVE RegistryInv
  OBVIOUS
<1>1. Registered = {} /\ Load = Empty
  BY Constants DEF Init, Registered, Load
<1>2. Types
  <2>1. Handlers
    BY Constants DEF Init, Handlers, Local, Saving, Labels
  <2>2. Indexes
    BY Constants DEF Init, Indexes
  <2>3. Disk
    <3>1. Torn \in Listings \cup {Torn}
      OBVIOUS
    <3> QED BY <3>1 DEF Init, Disk
  <2>4. Embedder
    BY Constants DEF Init, Embedder
  <2> QED BY <2>1, <2>2, <2>3, <2>4 DEF Init, Types
<1>3. Alone /\ Soles /\ Published /\ Held
  BY DEF Init, Alone, Soles, Sole, Saving, Published, Held
<1>4. Listing
  BY <1>1 DEF Init, Listing, Ahead
<1>5. Own /\ Gone
  BY RegistryAssumption DEF Init, Own, Gone, sanitize_id
<1> QED BY <1>2, <1>3, <1>4, <1>5 DEF RegistryInv

\* Every step keeps the invariant.
LEMMA RegistryNext == RegistryInv /\ [Next]_vars => RegistryInv'
<1> SUFFICES ASSUME RegistryInv, [Next]_vars PROVE RegistryInv'
  OBVIOUS
<1>1. CASE UNCHANGED vars
  <2>1. Load' = Load /\ Registered' = Registered
    BY <1>1 DEF vars, files, memory, Load, Registered
  <2> QED BY <1>1, <2>1 DEF RegistryInv, vars, memory, files, history, Types, Handlers, Local,
          Indexes, Disk, Embedder, Alone, Soles, Sole, Published, Listing, Ahead, Changed,
          Pending, Held, Own, Gone
<1>2. CASE \E h \in Handler : Create(h) \/ Delete(h) \/ Reindex(h)
  BY <1>2, CreateStep, DeleteStep, ReindexStep
<1>3. CASE \E h \in Handler : HandlerStep(h)
  BY <1>3, CreateBuildStep, LoadTomlStep, OpenStep, WriteStep, WriteFailsStep, RenameStep,
     RegisterStep, RemoveDataDirStep, OverrideStep DEF HandlerStep
<1>4. CASE EmbedderStep
  BY <1>4, InstallStep, RestoreListStep, RestoreBuildStep, RestoreRegisterStep,
     RestoreDoneStep DEF EmbedderStep
<1>5. CASE Work
  BY <1>5, WorkStep
<1>6. CASE Save
  BY <1>6, SaveStep
<1>7. CASE Restart
  BY <1>7, RestartStep
<1> QED BY <1>1, <1>2, <1>3, <1>4, <1>5, <1>6, <1>7 DEF Next

\* The invariant holds throughout.
LEMMA Invariant == Spec => []RegistryInv
  BY RegistryInit, RegistryNext, PTL DEF Spec

\* As long as requests do not overlap, indexes.toml is complete at every moment, kills
\* included, and at rest lists what is registered, with the root of everything that a
\* reindex has not moved (save_index_registry, load_index_registry).
THEOREM TomlTrue == Spec => []TomlIsRegistry
<1>1. RegistryInv => TomlIsRegistry
  <2> SUFFICES ASSUME RegistryInv, ~overlap PROVE TomlIsRegistry!2
    BY DEF TomlIsRegistry
  <2>1. toml # None => inode[toml] # Torn
    BY DEF RegistryInv, Published
  <2>2. ASSUME AtRest, embedder = "done", ~missed
        PROVE  Registered = Listed(Load) /\ \A i \in Registered \ moved : indexes[i].root = Load[i]
    <3>1. \A h \in Handler : ~Pending(h)
      BY <2>2, IdlePromises DEF AtRest, Mutating
    <3>2. \A i \in Registered : Load[i] # NoRoot /\ (i \notin moved => indexes[i].root = Load[i])
      BY <2>2 DEF RegistryInv, Listing
    <3>3. \A i \in Id : Load[i] # NoRoot => i \in Registered
      BY <2>2, <3>1 DEF RegistryInv, Listing
    <3> QED BY <3>2, <3>3 DEF Listed, Registered
  <2> QED BY <2>1, <2>2
<1> QED BY <1>1, Invariant, PTL

\* At most one number is that of a writer.
LEMMA WritersOne ==
    ASSUME Indexes, Held, ~overlap, NEW i \in Id \ leftover
    PROVE  Cardinality(Writers(i)) <= 1
<1>1. Writers(i) \subseteq {indexes[i].indexer}
  <2> SUFFICES ASSUME NEW n \in Indexer, <<i, n>> \in busy PROVE n = indexes[i].indexer
    BY DEF Writers
  <2>1. <<i, n>>[1] = i /\ <<i, n>>[2] = n
    OBVIOUS
  <2> QED BY <2>1 DEF Held
<1>2. /\ IsFiniteSet({indexes[i].indexer}) /\ Cardinality({indexes[i].indexer}) = 1
  BY FS_Singleton
<1>3. Cardinality(Writers(i)) <= Cardinality({indexes[i].indexer})
  BY <1>1, <1>2, FS_Subset
<1> QED BY <1>2, <1>3

\* Two indexers never write the files of one id; and if no two ids share a directory, the
\* files of an index are its own, and go with it (build_indexer_with_persisted_state,
\* sanitize_id, delete_index_handler).
THEOREM FilesTrue == Spec => [](RegistryTypeOK /\ OneWriter /\ (OneDirectoryEach => FilesOwned))
<1>1. RegistryInv => RegistryTypeOK /\ OneWriter /\ (OneDirectoryEach => FilesOwned)
  <2> SUFFICES ASSUME RegistryInv
               PROVE  RegistryTypeOK /\ OneWriter /\ (OneDirectoryEach => FilesOwned)
    OBVIOUS
  <2>1. Types /\ Handlers /\ Indexes /\ Disk /\ Embedder /\ Held
    BY DEF RegistryInv, Types
  <2>2. RegistryTypeOK
    BY <2>1 DEF RegistryTypeOK, Handlers, Local, Indexes, Entry, Disk, Embedder
  <2>3. OneWriter
    BY <2>1, WritersOne DEF OneWriter
  <2>4. OneDirectoryEach => OwnData
    BY DEF RegistryInv, Own, OwnData, Registered
  <2>5. OneDirectoryEach => DeletedIsGone
    <3> SUFFICES ASSUME Gone, ~overlap, ~missed, AtRest, embedder = "done",
                        NEW i \in Id \ leftover, i \notin Registered, disk[sanitize_id(i)] # NoId
                 PROVE  FALSE
      BY DEF DeletedIsGone, RegistryInv
    <3>1. \A h \in Handler : pc[h] = "idle" /\ ~Pending(h)
      BY IdlePromises DEF AtRest, Mutating
    <3>2. Load[i] # NoRoot
      BY <3>1 DEF Gone
    <3> QED BY <3>1, <3>2 DEF RegistryInv, Listing
  <2> QED BY <2>2, <2>3, <2>4, <2>5 DEF FilesOwned
<1> QED BY <1>1, Invariant, PTL

\* The embedder's progress is that of one task, which a restart alone begins again.
LEMMA EmbedderMoves ==
    ASSUME [Next]_vars
    PROVE  \/ UNCHANGED <<embedder, failed, boots>>
           \/ embedder = "loading" /\ embedder' \in {"slot", "failed"} /\ boots' = boots
           \/ /\ embedder \notin {"loading", "failed"} /\ embedder' \notin {"loading", "failed"}
              /\ boots' = boots
           \/ boots' = boots + 1
<1>1. CASE UNCHANGED vars
  BY <1>1 DEF vars, memory, bounds
<1>2. CASE \E h \in Handler : Create(h) \/ Delete(h) \/ Reindex(h)
  BY <1>2 DEF Create, Delete, Reindex
<1>3. CASE \E h \in Handler : HandlerStep(h)
  BY <1>3 DEF HandlerStep, CreateBuild, LoadToml, Open, Write, WriteFails, Rename, Register,
     RemoveDataDir, Override, bounds
<1>4. CASE EmbedderStep
  BY <1>4 DEF EmbedderStep, InstallSlot, InstallReady, InitFails, RestoreList, RestoreBuild,
     RestoreRegister, RestoreDone, bounds
<1>5. CASE Work \/ Save
  BY <1>5 DEF Work, Save, bounds
<1>6. CASE Restart
  BY <1>6 DEF Restart
<1> QED BY <1>1, <1>2, <1>3, <1>4, <1>5, <1>6 DEF Next

\* Lives are counted.
LEMMA BootsCounted == Spec => [](boots \in Nat)
<1>1. Init => boots \in Nat
  BY DEF Init
<1>2. boots \in Nat /\ [Next]_vars => (boots \in Nat)'
  BY EmbedderMoves
<1> QED BY <1>1, <1>2, PTL DEF Spec

\* Within one life, what a client is told of the embedder when it is not "initializing"
\* stays so (health_handler, install_embedder).
THEOREM HealthTrue == Spec => HealthIsFinal
<1> DEFINE Final == boots' = boots /\ Health \in {"ready", "error"} => Health' = Health
<1>1. RegistryInv /\ boots \in Nat /\ [Next]_vars => Final
  <2> SUFFICES ASSUME RegistryInv, boots \in Nat, [Next]_vars, boots' = boots,
                      Health \in {"ready", "error"}
               PROVE  Health' = Health
    OBVIOUS
  <2>1. embedder # "loading"
    BY DEF RegistryInv, Types, Embedder, Health, HasEmbedder
  <2>2. boots' # boots + 1
    OBVIOUS
  <2> QED BY <2>1, <2>2, EmbedderMoves DEF Health, HasEmbedder
<1>2. RegistryInv /\ boots \in Nat /\ [Next]_vars => [Final]_vars
  BY <1>1
<1>3. Spec => [][Final]_vars
  BY <1>2, Invariant, BootsCounted, PTL DEF Spec
<1> QED BY <1>3 DEF HealthIsFinal
=============================================================================
