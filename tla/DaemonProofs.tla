----------------------------- MODULE DaemonProofs ----------------------------
(***************************************************************************)
(* The life of a daemon, for any processes, `stop' commands, clients and   *)
(* ports: there is one, its lock file names it and clients find it         *)
(* (DaemonSound).                                                          *)
(*                                                                         *)
(* What is so however starts, stops and kills interleave: a process that   *)
(* is past the lock has its flock, and has written its pid where it locked *)
(* (Process), and a flock is held by who has the inode open (Locks). While *)
(* no two starts are under way at once, a process that passes its pid      *)
(* check is alone from then on, and the name daemon.lock leads to what it  *)
(* opened (Alone), and the port file has its port (PortKnown).             *)
(*                                                                         *)
(* And its caps, for any shells and sizes of the machine's memory          *)
(* (CapsSound): when the policy is resolved, the persisted variables of a  *)
(* start that lasts are those a restart will find, in its agent or else in *)
(* daemon.env (Boots), and what it was seen with is what these lead to     *)
(* (SeenTrue).                                                             *)
(*                                                                         *)
(* Then what the watch loop follows in the index, and the chunks of the    *)
(* documents it reads (DocsAreExact): for files of any lines, names and    *)
(* windows, what has been cut is what lies before the scanner's cursor     *)
(* (Cursor), and the open section, paragraph or child starts where one     *)
(* does (SectionInv, PlainInv, XmlInv).                                    *)
(*                                                                         *)
(* And the chunks of the code it reads (AstChunksAreExact): whatever the   *)
(* tree, a node comes after those it is in (TreeInv), and the chunks are   *)
(* those of the nodes that the walk comes to, each after its pieces        *)
(* (Layout).                                                               *)
(***************************************************************************)
EXTENDS DaemonLifecycle, DaemonEnv, WatchLoop, DocChunker, AstChunker, FiniteSetTheorems, WellFoundedInduction, TLAPS

Opening == {"try", "stale", "last"}
Past == {"bind", "portfile", "addrfile", "serving"} \cup Ending
HasLock == {"pid"} \cup Past
Active == Booting \cup {"serving"} \cup Ending
Listens == {"portfile", "addrfile", "serving"}

LifeTypes ==
    /\ phase \in [Proc -> Phase] /\ file \in [Proc -> Inode \cup {None}]
    /\ flock \in [Inode -> Proc \cup {NoPid}] /\ pidIn \in [Inode -> Proc \cup {NoPid}]
    /\ lock \in Inode \cup {None} /\ listening \in [Proc -> Port \cup {None}]
    /\ foreign \subseteq Port /\ overlap \in BOOLEAN /\ robbed \in BOOLEAN

CommandTypes ==
    /\ portFile \in Port \cup {None} /\ addrFile \in Port \cup {None}
    /\ targets \in [Proc \cup Stopper -> SUBSET Proc]
    /\ stop \in [Stopper -> {"idle", "wait", "killed", "done"}]
    /\ client \in [Client -> {"idle", "refresh", "probe", "poll", "ok", "failed"}]
    /\ base \in [Client -> Port \cup {None}]

\* What a process has at each stage.
Process(p) ==
    /\ file[p] = None <=> phase[p] \notin Opening \cup HasLock
    /\ listening[p] # None <=> phase[p] \in Listens
    /\ phase[p] \in HasLock => flock[file[p]] = p
    /\ phase[p] \in Past => pidIn[file[p]] = p

Locks == \A k \in Inode : flock[k] # NoPid =>
    file[flock[k]] = k /\ phase[flock[k]] \in HasLock

Ports == \A p \in Proc :
    /\ \A q \in Proc : p # q /\ listening[p] # None => listening[p] # listening[q]
    /\ listening[p] \notin foreign

\* Starts that are not under way at once.
Alone == ~overlap => \A p \in Proc :
    /\ \A q \in Proc : phase[p] \in Active /\ phase[q] \in Active => p = q
    /\ phase[p] \in Opening \cup HasLock => lock = file[p]

PortKnown == ~overlap /\ ~robbed =>
    \A p \in Proc : phase[p] \in {"addrfile", "serving"} => portFile = listening[p]

Core == LifeTypes /\ (\A p \in Proc : Process(p)) /\ Locks /\ Ports /\ Alone
LifeInv == Core /\ CommandTypes /\ PortKnown

-----------------------------------------------------------------------------
(* Values.                                                                 *)

\* Stages are what their names say.
LEMMA Stages ==
    /\ Opening \cup HasLock \subseteq Active /\ Active \subseteq Phase
    /\ Past \subseteq HasLock /\ Listens \subseteq Past /\ Opening \cap HasLock = {}
    /\ {"off", "check", "dead"} \cap Active = {} /\ {"off", "check", "dead"} \subseteq Phase
    /\ {"scan", "reap", "open", "retry"} \subseteq Booting \ (Opening \cup HasLock)
    /\ "serving" \notin Booting /\ Ending \cap Booting = {} /\ Ending \subseteq Past
    /\ Ending \cap Listens = {}
  BY DEF Opening, HasLock, Past, Active, Listens, Phase, Booting, Ending

\* Numbers that are none.
LEMMA NoNumber == None \notin Inode /\ None \notin Port /\ 1 \in Port /\ NoPid \notin Proc
  BY DaemonAssumption DEF None, Inode, Port

\* There are more inodes than processes.
LEMMA FreeInode == ASSUME LifeTypes PROVE \E j \in Inode : \A q \in Proc : file[q] # j
<1> DEFINE open == {file[q] : q \in Proc}
           n == Cardinality(Proc)
<1>1. n \in Nat
  BY DaemonAssumption, FS_CardinalityType
<1>2. IsFiniteSet(open) /\ Cardinality(open) <= n
  <2>1. DOMAIN file = Proc
    BY DEF LifeTypes
  <2>2. file \in Surjection(Proc, open)
    BY <2>1 DEF Surjection, LifeTypes
  <2> HIDE DEF open
  <2> QED BY <2>2, DaemonAssumption, FS_Surjection
<1> HIDE DEF open
<1>3. Cardinality(Inode) = n + 2 /\ Cardinality(open) \in Nat
  <2>1. Cardinality(1..(n + 2)) = IF 1 > n + 2 THEN 0 ELSE (n + 2) - 1 + 1
    BY <1>1, FS_Interval
  <2> QED BY <1>1, <1>2, <2>1, FS_CardinalityType DEF Inode
<1>4. ~(Inode \subseteq open)
  <2> SUFFICES ASSUME Inode \subseteq open PROVE FALSE
    OBVIOUS
  <2>1. Cardinality(Inode) <= Cardinality(open)
    BY <1>2, FS_Subset
  <2> HIDE DEF n
  <2> QED BY <1>1, <1>2, <1>3, <2>1
<1> QED BY <1>4 DEF open

\* Of the ports that are free there is a first.
LEMMA FirstPort ==
    ASSUME NEW free \in SUBSET Port, free # {}
    PROVE  (CHOOSE port \in free : \A other \in free : port <= other) \in free
<1>1. free \subseteq Nat
  BY DaemonAssumption DEF Port
<1>2. PICK x \in free : \A y \in free : ~(<<y, x>> \in OpToRel(<, Nat))
  BY <1>1, WFMin, NatLessThanWellFounded
<1>3. \A y \in free : x <= y
  <2> SUFFICES ASSUME NEW y \in free PROVE x <= y
    OBVIOUS
  <2>1. x \in Nat /\ y \in Nat
    BY <1>1
  <2>2. ~(y < x)
    BY <1>2, <2>1 DEF OpToRel
  <2> QED BY <2>1, <2>2
<1> QED BY <1>3

-----------------------------------------------------------------------------
(* Signals.                                                                *)

\* Whoever is not hit moves, if at all, where it has nothing yet.
Moves(next) ==
    /\ next \in [Proc -> Phase]
    /\ \A p \in Proc : next[p] # phase[p] =>
          phase[p] \in {"scan", "reap", "open"} /\ next[p] \in {"scan", "reap", "open"}

\* A signal takes of others what they had.
Hit(p, ends, drains) ==
    /\ phase'[p] \in Phase
    /\ phase'[p] \in Active => phase[p] \in Active /\ p \notin ends
    /\ file'[p] = IF p \in ends THEN None ELSE file[p]
    /\ listening'[p] = IF p \in ends \cup drains THEN None ELSE listening[p]
    /\ p \notin ends => (phase'[p] \in Opening <=> phase[p] \in Opening)
    /\ p \notin ends => (phase'[p] \in HasLock <=> phase[p] \in HasLock)
    /\ p \notin ends => (phase'[p] \in Past <=> phase[p] \in Past)
    /\ phase'[p] \in Listens <=> phase[p] \in Listens /\ p \notin ends \cup drains
    /\ phase'[p] \in {"addrfile", "serving"} => phase[p] \in {"addrfile", "serving"}
    /\ p \in ends => phase'[p] = "dead"

\* That is what a signal does to each process.
LEMMA SignalledIs ==
    ASSUME LifeTypes, NEW next, Moves(next), NEW ends \in SUBSET Proc,
           NEW drains \in SUBSET Serving, Signalled(next, ends, drains), NEW p \in Proc
    PROVE  Hit(p, ends, drains)
<1>1. phase'[p] = IF p \in ends THEN "dead" ELSE IF p \in drains THEN "drain" ELSE next[p]
  BY DEF Signalled
<1>2. p \in drains => phase[p] = "serving"
  BY DEF Serving
<1>3. \/ next[p] = phase[p]
      \/ phase[p] \in {"scan", "reap", "open"} /\ next[p] \in {"scan", "reap", "open"}
  BY DEF Moves
<1>4. phase[p] \in Phase /\ next[p] \in Phase
  BY DEF LifeTypes, Moves
<1>5. /\ file'[p] = IF p \in ends THEN None ELSE file[p]
      /\ listening'[p] = IF p \in ends \cup drains THEN None ELSE listening[p]
  BY DEF Signalled
<1> QED BY <1>1, <1>2, <1>3, <1>4, <1>5
        DEF Hit, Opening, HasLock, Past, Active, Listens, Phase, Booting, Ending

\* ... and leaves the rest as it was.
LEMMA SignalStep ==
    ASSUME Core, NEW next, Moves(next), NEW ends \in SUBSET Proc,
           NEW drains \in SUBSET Serving, Signalled(next, ends, drains),
           UNCHANGED <<foreign, overlap>>, robbed' \in BOOLEAN, lock' \in {lock, None},
           lock' # lock => \A p \in Proc \ ends : phase[p] \notin Opening \cup HasLock \/ overlap
    PROVE  Core'
<1>0. \A p \in Proc : Hit(p, ends, drains)
  BY SignalledIs DEF Core
<1>1. LifeTypes'
  <2>1. flock' \in [Inode -> Proc \cup {NoPid}] /\ pidIn' \in [Inode -> Proc \cup {NoPid}]
    BY DEF Core, LifeTypes, Signalled
  <2>2. phase' = [p \in Proc |-> phase'[p]] /\ \A p \in Proc : phase'[p] \in Phase
    BY <1>0 DEF Hit, Signalled
  <2>3. file' \in [Proc -> Inode \cup {None}] /\ listening' \in [Proc -> Port \cup {None}]
    BY DEF Core, LifeTypes, Signalled
  <2>4. phase' \in [Proc -> Phase]
    BY <2>2
  <2> QED BY <2>1, <2>3, <2>4 DEF Core, LifeTypes
<1>2. ASSUME NEW p \in Proc PROVE Process(p)'
  <2>1. CASE p \in ends
    <3>1. phase'[p] = "dead" /\ file'[p] = None /\ listening'[p] = None
      BY <2>1, <1>0 DEF Hit
    <3> QED BY <3>1, Stages DEF Process
  <2>2. CASE p \notin ends
    <3>0. Process(p)
      BY DEF Core
    <3>1. Process(p) /\ file'[p] = file[p]
      BY <3>0, <2>2, <1>0 DEF Hit
    <3>2. file[p] # None => file[p] \in Inode
      BY DEF Core, LifeTypes
    <3>3. file[p] \in Inode /\ flock[file[p]] = p => flock'[file[p]] = p
      BY <2>2 DEF Signalled
    <3>4. /\ phase'[p] \in Opening <=> phase[p] \in Opening
          /\ phase'[p] \in HasLock <=> phase[p] \in HasLock
          /\ phase'[p] \in Past <=> phase[p] \in Past
      BY <2>2, <1>0 DEF Hit
    <3>5. phase[p] \in HasLock => flock'[file[p]] = p
      BY <3>1, <3>2, <3>3 DEF Process
    <3>6. listening'[p] # None <=> phase'[p] \in Listens
      BY <2>2, <3>1, <1>0 DEF Hit, Process
    <3>7. pidIn' = pidIn
      BY DEF Signalled
    <3> QED BY <3>1, <3>4, <3>5, <3>6, <3>7 DEF Process
  <2> QED BY <2>1, <2>2
<1>3. Locks'
  <2> SUFFICES ASSUME NEW k \in Inode, flock'[k] # NoPid
               PROVE  file'[flock'[k]] = k /\ phase'[flock'[k]] \in HasLock
    BY DEF Locks
  <2>1. flock'[k] = flock[k] /\ flock[k] \notin ends /\ flock[k] # NoPid /\ flock[k] \in Proc
    BY DEF Signalled, Core, LifeTypes
  <2>2. file[flock[k]] = k /\ phase[flock[k]] \in HasLock
    BY <2>1 DEF Core, Locks
  <2> QED BY <2>1, <2>2, <1>0 DEF Hit
<1>4. Ports'
  <2>1. \A p \in Proc : listening'[p] \in {None, listening[p]}
    BY <1>0 DEF Hit
  <2>2. None \notin foreign
    BY NoNumber DEF Core, LifeTypes
  <2> QED BY <2>1, <2>2 DEF Core, Ports
<1>5. Alone'
  <2> SUFFICES ASSUME ~overlap, NEW p \in Proc
               PROVE  /\ \A q \in Proc : phase'[p] \in Active /\ phase'[q] \in Active => p = q
                      /\ phase'[p] \in Opening \cup HasLock => lock' = file'[p]
    BY DEF Alone
  <2>1. \A q \in Proc : phase'[p] \in Active /\ phase'[q] \in Active => p = q
    BY <1>0 DEF Hit, Core, Alone
  <2>2. ASSUME phase'[p] \in Opening \cup HasLock PROVE lock' = file'[p]
    <3>1. p \notin ends
      BY <2>2, Stages, <1>0 DEF Hit
    <3>2. phase[p] \in Opening \cup HasLock /\ file'[p] = file[p]
      BY <2>2, <3>1, <1>0 DEF Hit
    <3>3. lock' = lock
      BY <3>1, <3>2
    <3> QED BY <3>2, <3>3 DEF Core, Alone
  <2> QED BY <2>1, <2>2
<1> QED BY <1>1, <1>2, <1>3, <1>4, <1>5 DEF Core

\* The port file stays true of who still serves.
LEMMA SignalPort ==
    ASSUME Core, PortKnown, NEW next, Moves(next), NEW ends \in SUBSET Proc,
           NEW drains \in SUBSET Serving, Signalled(next, ends, drains),
           UNCHANGED <<portFile, overlap, robbed>>
    PROVE  PortKnown'
<1> SUFFICES ASSUME ~overlap, ~robbed, NEW p \in Proc, phase'[p] \in {"addrfile", "serving"}
             PROVE  portFile = listening'[p]
  BY DEF PortKnown
<1>0. Hit(p, ends, drains)
  BY SignalledIs DEF Core
<1>1. phase[p] \in {"addrfile", "serving"} /\ phase'[p] \in Listens
  BY <1>0 DEF Hit, Listens
<1>2. listening'[p] = listening[p]
  BY <1>0, <1>1 DEF Hit
<1> QED BY <1>1, <1>2 DEF PortKnown

\* A process that exits is one that is hit.
LEMMA ExitStep ==
    ASSUME LifeInv, NEW p \in Proc, Exit(p), UNCHANGED <<lock, foreign, overlap>>
    PROVE  /\ robbed' \in BOOLEAN => Core'
           /\ UNCHANGED <<portFile, robbed>> => PortKnown'
<1>1. Moves(phase) /\ Signalled(phase, {p}, {})
  BY DEF LifeInv, Core, LifeTypes, Moves, Exit
<1>2. {p} \in SUBSET Proc /\ {} \in SUBSET Serving
  OBVIOUS
<1>3. LifeInv => Core /\ PortKnown
  BY DEF LifeInv
<1> QED BY <1>1, <1>2, <1>3, SignalStep, SignalPort

-----------------------------------------------------------------------------
(* One process moves.                                                      *)

\* Who moves on from a stage of Active while no two starts overlap is alone.
LEMMA ActsAlone ==
    ASSUME Core, NEW p \in Proc, phase[p] \in Active, ~overlap,
           \A q \in Proc \ {p} : phase'[q] = phase[q]
    PROVE  \A q \in Proc \ {p} : phase'[q] \notin Active
  BY DEF Core, Alone

\* A stage that differs from the last in nothing the process has.
LEMMA StageStep ==
    ASSUME Core, NEW p \in Proc, NEW label \in Phase, Goto(p, label),
           UNCHANGED <<file, listening, flock, pidIn, lock, foreign>>,
           overlap' \in BOOLEAN, overlap => overlap', robbed' \in BOOLEAN,
           label \in Opening <=> phase[p] \in Opening,
           label \in HasLock <=> phase[p] \in HasLock,
           label \in Past => phase[p] \in Past, label \in Listens <=> phase[p] \in Listens,
           label \in Active /\ ~overlap' => \A q \in Proc \ {p} : phase[q] \notin Active
    PROVE  Core'
<1>1. phase' = [phase EXCEPT ![p] = label]
  BY DEF Goto
<1>2. phase'[p] = label /\ \A q \in Proc \ {p} : phase'[q] = phase[q]
  BY <1>1 DEF Core, LifeTypes
<1>3. LifeTypes'
  BY <1>1 DEF Core, LifeTypes
<1>4. ASSUME NEW q \in Proc PROVE Process(q)'
  <2>1. Process(q)
    BY DEF Core
  <2>2. CASE q = p
    BY <1>2, <2>1, <2>2 DEF Process
  <2>3. CASE q # p
    BY <1>2, <2>1, <2>3 DEF Process
  <2> QED BY <2>2, <2>3
<1>5. Locks'
  <2> SUFFICES ASSUME NEW k \in Inode, flock[k] # NoPid
               PROVE  file[flock[k]] = k /\ phase'[flock[k]] \in HasLock
    BY DEF Locks
  <2>1. flock[k] \in Proc /\ file[flock[k]] = k /\ phase[flock[k]] \in HasLock
    BY DEF Core, LifeTypes, Locks
  <2> QED BY <1>2, <2>1
<1>6. Ports'
  BY DEF Core, Ports
<1>7. Alone'
  <2> SUFFICES ASSUME ~overlap', NEW q \in Proc
               PROVE  /\ \A r \in Proc : phase'[q] \in Active /\ phase'[r] \in Active => q = r
                      /\ phase'[q] \in Opening \cup HasLock => lock = file[q]
    BY DEF Alone
  <2>1. Alone /\ ~overlap
    BY DEF Core
  <2>2. phase'[q] \in Opening \cup HasLock => phase[q] \in Opening \cup HasLock
    BY <1>2
  <2>3. \A r \in Proc : phase'[q] \in Active /\ phase'[r] \in Active => q = r
    BY <1>2, <2>1 DEF Alone
  <2> QED BY <2>1, <2>2, <2>3 DEF Alone
<1> QED BY <1>3, <1>4, <1>5, <1>6, <1>7 DEF Core

\* What becomes of the port file does not matter while nobody is about to serve.
LEMMA NobodyServes ==
    ASSUME Core, NEW p \in Proc, phase[p] \in Active, overlap' = overlap,
           \A q \in Proc \ {p} : phase'[q] = phase[q], phase'[p] \notin {"addrfile", "serving"}
    PROVE  PortKnown'
<1> SUFFICES ASSUME ~overlap, NEW q \in Proc, phase'[q] \in {"addrfile", "serving"}
             PROVE  FALSE
  BY DEF PortKnown
<1>1. phase'[q] \in Active
  BY DEF Active, Booting
<1> QED BY <1>1, ActsAlone

\* A port that is known stays known.
LEMMA PortKept ==
    ASSUME PortKnown, UNCHANGED <<portFile, listening>>, overlap => overlap', robbed => robbed',
           overlap' \in BOOLEAN, robbed' \in BOOLEAN,
           \A q \in Proc : phase'[q] \in {"addrfile", "serving"} =>
               phase[q] \in {"addrfile", "serving"}
    PROVE  PortKnown'
  BY DEF PortKnown

-----------------------------------------------------------------------------
(* start --foreground                                                      *)

\* A process that is started has nothing yet.
LEMMA StartStep ==
    ASSUME LifeInv, NEW p \in Proc, phase[p] = "off", Goto(p, "check"),
           UNCHANGED <<file, listening, lockfile, portFile, foreign, overlap, robbed>>
    PROVE  Core' /\ PortKnown'
<1>1. "check" \notin Active \cup Opening \cup HasLock \cup Past \cup Listens
  BY Stages
<1>2. "off" \notin Active \cup Opening \cup HasLock \cup Past \cup Listens
  BY Stages
<1>3. Core'
  <2>1. Core /\ "check" \in Phase /\ overlap \in BOOLEAN /\ robbed \in BOOLEAN
    BY Stages DEF LifeInv, Core, LifeTypes
  <2> QED BY <1>1, <1>2, <2>1, StageStep DEF lockfile
<1>4. PortKnown'
  BY DEF LifeInv, Core, LifeTypes, Goto, PortKnown
<1> QED BY <1>3, <1>4

\* Nobody is past the lock when a pid check finds no live pid, so that a start is
\* alone from there on.
LEMMA PidCheckStep ==
    ASSUME LifeInv, NEW p \in Proc, PidCheck(p)
    PROVE  Core' /\ PortKnown'
<1>1. Core /\ PortKnown /\ phase[p] = "check"
  BY DEF LifeInv, PidCheck, Checked
<1>2. overlap' = (overlap \/ \E q \in Proc \ {p} : phase[q] \in Booting)
  BY DEF PidCheck, Checked
<1>3. UNCHANGED <<lock, portFile, foreign, robbed>>
  BY DEF PidCheck, Checked, discovery
<1>4. overlap \in BOOLEAN /\ robbed \in BOOLEAN /\ overlap' \in BOOLEAN /\ (overlap => overlap')
  BY <1>1, <1>2 DEF Core, LifeTypes
<1>5. CASE lock # None /\ pid_alive(pidIn[lock])
  <2>1. Exit(p)
    BY <1>5 DEF PidCheck
  <2> DEFINE next == [phase EXCEPT ![p] = "dead"]
  <2>2. Goto(p, "dead") /\ UNCHANGED <<file, listening, flock, pidIn>>
    <3>1. Process(p) /\ phase[p] \notin Opening \cup HasLock /\ phase[p] \notin Listens
      BY <1>1, Stages DEF Core
    <3>2. file[p] = None /\ listening[p] = None
      BY <3>1 DEF Process
    <3>3. phase' = next
      BY <2>1, <1>1 DEF Exit, Signalled, Core, LifeTypes
    <3>4. file' = file /\ listening' = listening
      BY <2>1, <1>1, <3>2 DEF Exit, Signalled, Core, LifeTypes
    <3>5. \A k \in Inode : flock[k] # p
      BY <1>1, <3>1, NoNumber DEF Core, Locks
    <3>6. flock' = [k \in Inode |-> flock[k]]
      BY <2>1, <3>5 DEF Exit, Signalled
    <3> QED BY <2>1, <3>3, <3>4, <3>6, <1>1 DEF Exit, Signalled, Goto, Core, LifeTypes
  <2>3. "dead" \notin Active \cup Opening \cup HasLock \cup Past \cup Listens /\ "dead" \in Phase
    BY Stages
  <2>4. "check" \notin Active \cup Opening \cup HasLock \cup Past \cup Listens
    BY Stages
  <2>5. Core'
    BY <1>1, <1>3, <1>4, <2>2, <2>3, <2>4, StageStep
  <2>6. \A q \in Proc : phase'[q] \in {"addrfile", "serving"} =>
                         phase[q] \in {"addrfile", "serving"}
    BY <2>2, <1>1 DEF Goto, Core, LifeTypes
  <2> QED BY <2>2, <2>5, <2>6, <1>1, <1>3, <1>4, PortKept
<1>6. CASE ~(lock # None /\ pid_alive(pidIn[lock]))
  <2>1. Goto(p, "scan") /\ UNCHANGED <<file, listening, flock, pidIn>>
    BY <1>6 DEF PidCheck
  <2>2. "check" \notin Active \cup Opening \cup HasLock \cup Past \cup Listens
    BY Stages
  <2>3. "scan" \notin Opening \cup HasLock \cup Past \cup Listens /\ "scan" \in Phase
    BY Stages DEF Phase
  <2>4. ASSUME ~overlap', NEW q \in Proc \ {p}, phase[q] \in Active PROVE FALSE
    <3>1. ~overlap /\ phase[q] \notin Booting
      BY <2>4, <1>2
    <3>2. phase[q] \in Past
      BY <2>4, <3>1 DEF Active, Past
    <3>3. phase[q] \in HasLock /\ Process(q)
      BY <3>2, <1>1, Stages DEF Core
    <3>4. lock = file[q]
      BY <3>1, <3>3, <1>1 DEF Core, Alone
    <3>5. pidIn[lock] = q /\ lock # None
      BY <3>2, <3>3, <3>4 DEF Process
    <3>6. Alive(q)
      BY <2>4, Stages DEF Alive
    <3>7. q # NoPid
      BY DaemonAssumption
    <3> QED BY <1>6, <3>5, <3>6, <3>7 DEF pid_alive
  <2>5. Core'
    BY <1>1, <1>3, <1>4, <2>1, <2>2, <2>3, <2>4, StageStep
  <2>6. \A q \in Proc : phase'[q] \in {"addrfile", "serving"} =>
                         phase[q] \in {"addrfile", "serving"}
    BY <2>1, <1>1 DEF Goto, Core, LifeTypes
  <2> QED BY <2>1, <2>5, <2>6, <1>1, <1>3, <1>4, PortKept
<1> QED BY <1>5, <1>6

\* The orphans that are found get a SIGTERM.
LEMMA ScanStep ==
    ASSUME LifeInv, NEW p \in Proc, Scan(p)
    PROVE  Core' /\ PortKnown'
<1>1. Core /\ PortKnown /\ phase[p] = "scan"
  BY DEF LifeInv, Scan
<1>2. UNCHANGED <<lock, portFile, foreign, overlap, robbed>>
  BY DEF Scan, discovery, world
<1>3. overlap \in BOOLEAN /\ robbed \in BOOLEAN /\ phase \in [Proc -> Phase]
  BY <1>1 DEF Core, LifeTypes
<1>4. PICK orphans \in find_daemon_pids(p) :
         IF orphans = {}
         THEN Goto(p, "open") /\ UNCHANGED <<file, listening, streams, flock, pidIn, targets>>
         ELSE /\ targets' = [targets EXCEPT ![p] = orphans]
              /\ Term([phase EXCEPT ![p] = "reap"], orphans)
  BY DEF Scan
<1>5. orphans \in SUBSET Proc
  BY DEF find_daemon_pids
<1> DEFINE next == [phase EXCEPT ![p] = IF orphans = {} THEN "open" ELSE "reap"]
           ends == {q \in orphans : phase[q] \in Booting \cup {"check"}}
<1>6. Moves(next)
  BY <1>1, <1>3 DEF Moves, Phase, Booting
<1>7. Signalled(next, ends, orphans \cap Serving)
  <2>1. CASE orphans = {}
    <3>1. /\ phase' = next /\ UNCHANGED <<file, listening, streams, flock, pidIn>>
          /\ ends = {} /\ orphans \cap Serving = {}
      BY <2>1, <1>4 DEF Goto
    <3>2. /\ phase' = [q \in Proc |-> next[q]] /\ listening' = [q \in Proc |-> listening[q]]
          /\ flock' = [k \in Inode |-> flock[k]] /\ file' = [q \in Proc |-> file[q]]
      BY <3>1, <1>1 DEF Core, LifeTypes
    <3>3. flock' = [k \in Inode |-> IF flock[k] \in {} THEN NoPid ELSE flock[k]]
      BY <3>2
    <3> HIDE DEF next, ends
    <3> QED BY <3>1, <3>2, <3>3 DEF Signalled
  <2>2. CASE orphans # {}
    BY <2>2, <1>4 DEF Term
  <2> QED BY <2>1, <2>2
<1>8. ends \in SUBSET Proc /\ orphans \cap Serving \in SUBSET Serving
  BY <1>5
<1> HIDE DEF next, ends
<1>9. Core'
  BY <1>1, <1>2, <1>3, <1>6, <1>7, <1>8, SignalStep
<1>10. PortKnown'
  BY <1>1, <1>2, <1>6, <1>7, <1>8, SignalPort
<1> QED BY <1>9, <1>10

\* Lock and port file are removed, but of others that are alive there is none.
LEMMA ReapStep ==
    ASSUME LifeInv, NEW p \in Proc, Reap(p)
    PROVE  Core' /\ PortKnown'
<1>1. Core /\ PortKnown /\ phase[p] = "reap"
  BY DEF LifeInv, Reap
<1>2. UNCHANGED <<foreign, overlap, robbed>> /\ lock' = None
  BY DEF Reap, world
<1>3. /\ overlap \in BOOLEAN /\ robbed \in BOOLEAN /\ phase \in [Proc -> Phase]
      /\ targets[p] \in SUBSET Proc
  BY <1>1 DEF Core, LifeTypes, LifeInv, CommandTypes
<1> DEFINE next == [phase EXCEPT ![p] = "open"]
           ends == {q \in targets[p] : Alive(q)}
<1>4. Moves(next) /\ Signalled(next, ends, {})
  BY <1>1, <1>3 DEF Moves, Phase, Booting, Reap, Kill
<1>5. ends \in SUBSET Proc /\ {} \in SUBSET Serving
  BY <1>3
<1> HIDE DEF next, ends
<1>6. phase[p] \in Active /\ phase[p] \notin Opening \cup HasLock
  BY <1>1, Stages DEF Active
<1>7. ~overlap => \A q \in Proc : phase[q] \notin Opening \cup HasLock
  BY <1>1, <1>6, Stages DEF Core, Alone
<1>8. Core'
  BY <1>1, <1>2, <1>3, <1>4, <1>5, <1>7, SignalStep
<1>9. PortKnown'
  <2> SUFFICES ASSUME ~overlap, NEW q \in Proc, phase'[q] \in {"addrfile", "serving"}
               PROVE  FALSE
    BY <1>2 DEF PortKnown
  <2>1. Hit(q, ends, {})
    BY <1>1, <1>4, <1>5, SignalledIs DEF Core
  <2>2. phase[q] \in HasLock
    BY <2>1 DEF Hit, HasLock, Past
  <2> QED BY <2>2, <1>7
<1> QED BY <1>8, <1>9

\* Who opens, locks or leaves the lock file while starts do not overlap is alone.
LEMMA AloneStep ==
    ASSUME Core, NEW p \in Proc, phase[p] \in Active, overlap' = overlap,
           \A q \in Proc \ {p} : phase'[q] = phase[q],
           phase'[p] \in Opening \cup HasLock => lock' = file'[p]
    PROVE  Alone'
<1> SUFFICES ASSUME ~overlap, NEW q \in Proc
             PROVE  /\ \A r \in Proc : phase'[q] \in Active /\ phase'[r] \in Active => q = r
                    /\ phase'[q] \in Opening \cup HasLock => lock' = file'[q]
  BY DEF Alone
<1>1. \A r \in Proc \ {p} : phase'[r] \notin Active
  BY ActsAlone
<1>2. \A r \in Proc \ {p} : phase'[r] \notin Opening \cup HasLock
  BY <1>1, Stages
<1> QED BY <1>1, <1>2

\* A new lock file is an inode that nobody has open.
LEMMA OpenLockStep ==
    ASSUME LifeInv, NEW p \in Proc, OpenLock(p)
    PROVE  Core' /\ PortKnown'
<1>1. Core /\ phase[p] \in {"open", "retry"} /\ LifeTypes
  BY DEF LifeInv, Core, OpenLock
<1> DEFINE k == IF lock # None THEN lock
                ELSE CHOOSE j \in Inode : \A q \in Proc : file[q] # j
           label == IF phase[p] = "open" THEN "try" ELSE "last"
<1>2. /\ lock' = k /\ file' = [file EXCEPT ![p] = k]
      /\ pidIn' = IF lock = None THEN [pidIn EXCEPT ![k] = NoPid] ELSE pidIn
      /\ phase' = [phase EXCEPT ![p] = label]
      /\ UNCHANGED <<flock, listening, portFile, foreign, overlap, robbed>>
  BY DEF OpenLock, Goto, discovery, world
<1>3. k \in Inode /\ (lock = None => \A q \in Proc : file[q] # k)
  BY <1>1, FreeInode DEF LifeTypes
<1> HIDE DEF k
<1>4. label \in Opening /\ label \in Phase /\ label \notin HasLock \cup Past \cup Listens
  BY DEF Opening, HasLock, Past, Listens, Ending, Phase, Booting
<1>5. phase[p] \in Active /\ phase[p] \notin Opening \cup HasLock \cup Past \cup Listens
  BY <1>1, Stages DEF Active
<1> HIDE DEF label
<1>6. /\ phase'[p] = label /\ file'[p] = k
      /\ \A q \in Proc \ {p} : phase'[q] = phase[q] /\ file'[q] = file[q]
  BY <1>1, <1>2 DEF LifeTypes
<1>7. LifeTypes'
  BY <1>1, <1>2, <1>3, <1>4 DEF LifeTypes
<1>8. ASSUME NEW q \in Proc PROVE Process(q)'
  <2>1. Process(q)
    BY <1>1 DEF Core
  <2>2. CASE q = p
    <3>1. listening[p] = None /\ file'[p] # None
      BY <2>1, <2>2, <1>3, <1>5, <1>6, NoNumber DEF Process
    <3> QED BY <3>1, <2>2, <1>2, <1>4, <1>6 DEF Process
  <2>3. CASE q # p
    <3>1. phase[q] \in Past => file[q] \in Inode
      BY <2>1, <1>1, Stages DEF Process, LifeTypes
    <3>2. phase[q] \in Past => pidIn'[file[q]] = pidIn[file[q]]
      BY <3>1, <1>1, <1>2, <1>3 DEF LifeTypes
    <3> QED BY <2>1, <2>3, <3>2, <1>2, <1>6 DEF Process
  <2> QED BY <2>2, <2>3
<1>9. Locks'
  <2> SUFFICES ASSUME NEW j \in Inode, flock[j] # NoPid
               PROVE  file'[flock[j]] = j /\ phase'[flock[j]] \in HasLock
    BY <1>2 DEF Locks
  <2>1. flock[j] \in Proc /\ file[flock[j]] = j /\ phase[flock[j]] \in HasLock
    BY <1>1 DEF Core, LifeTypes, Locks
  <2> QED BY <2>1, <1>5, <1>6
<1>10. Ports'
  BY <1>1, <1>2 DEF Core, Ports
<1>11. Alone'
  BY <1>1, <1>2, <1>5, <1>6, AloneStep
<1>12. PortKnown'
  BY <1>1, <1>2, <1>4, <1>5, <1>6, NobodyServes, Stages DEF Opening
<1> QED BY <1>7, <1>8, <1>9, <1>10, <1>11, <1>12 DEF Core

\* A process that gives up, or is killed, takes nothing from others.
LEMMA ExitHere ==
    ASSUME LifeInv, NEW p \in Proc, Exit(p),
           UNCHANGED <<lock, discovery, overlap, robbed, foreign>>
    PROVE  Core' /\ PortKnown'
  BY ExitStep DEF LifeInv, Core, LifeTypes, discovery

\* A flock is taken when nobody has it.
LEMMA TryLockStep ==
    ASSUME LifeInv, NEW p \in Proc, TryLock(p)
    PROVE  Core' /\ PortKnown'
<1>1. Core /\ PortKnown /\ phase[p] \in {"try", "last"} /\ LifeTypes
  BY DEF LifeInv, Core, TryLock
<1>2. UNCHANGED <<lock, discovery, portFile, foreign, overlap, robbed>>
  BY DEF TryLock, discovery, world
<1>3. phase[p] \in Opening /\ phase[p] \in Active /\ phase[p] \notin HasLock \cup Past \cup Listens
  BY <1>1, Stages DEF Opening
<1>4. CASE flock[file[p]] = NoPid
  <2>1. /\ flock' = [flock EXCEPT ![file[p]] = p] /\ phase' = [phase EXCEPT ![p] = "pid"]
        /\ UNCHANGED <<file, listening, pidIn>>
    BY <1>4 DEF TryLock, Goto
  <2>2. Process(p) /\ file[p] \in Inode /\ listening[p] = None
    BY <1>1, <1>3, NoNumber DEF Core, LifeTypes, Process
  <2>3. "pid" \in HasLock /\ "pid" \notin Past \cup Listens \cup {"addrfile", "serving"}
        /\ "pid" \in Phase
    BY DEF HasLock, Past, Listens, Phase, Booting, Ending
  <2>4. phase'[p] = "pid" /\ \A q \in Proc \ {p} : phase'[q] = phase[q]
    BY <1>1, <2>1 DEF LifeTypes
  <2>5. flock'[file[p]] = p /\ \A k \in Inode \ {file[p]} : flock'[k] = flock[k]
    BY <1>1, <2>1, <2>2 DEF LifeTypes
  <2>6. LifeTypes'
    BY <1>1, <1>2, <2>1, <2>3 DEF LifeTypes
  <2>7. ASSUME NEW q \in Proc PROVE Process(q)'
    <3>1. Process(q)
      BY <1>1 DEF Core
    <3>2. CASE q = p
      BY <3>1, <3>2, <1>3, <2>1, <2>2, <2>3, <2>4, <2>5, Stages DEF Process
    <3>3. CASE q # p
      <4>1. phase[q] \in HasLock => file[q] \in Inode /\ file[q] # file[p]
        BY <3>1, <1>1, <1>4, NoNumber DEF Process, LifeTypes
      <4> QED BY <3>1, <3>3, <4>1, <2>1, <2>4, <2>5 DEF Process
    <3> QED BY <3>2, <3>3
  <2>8. Locks'
    <3> SUFFICES ASSUME NEW k \in Inode, flock'[k] # NoPid
                 PROVE  file[flock'[k]] = k /\ phase'[flock'[k]] \in HasLock
      BY <2>1 DEF Locks
    <3>1. CASE k = file[p]
      BY <3>1, <2>3, <2>4, <2>5
    <3>2. CASE k # file[p]
      <4>1. flock'[k] = flock[k] /\ flock[k] \in Proc /\ file[flock[k]] = k
            /\ phase[flock[k]] \in HasLock
        BY <3>2, <2>5, <1>1 DEF Core, LifeTypes, Locks
      <4> QED BY <4>1, <1>3, <2>4
    <3> QED BY <3>1, <3>2
  <2>9. Ports'
    BY <1>1, <1>2, <2>1 DEF Core, Ports
  <2>10. Alone'
    <3>1. phase'[p] \in Opening \cup HasLock => lock' = file'[p] \/ overlap
      BY <1>1, <1>2, <1>3, <2>1 DEF Core, Alone
    <3>2. CASE overlap
      BY <3>2, <1>2 DEF Alone
    <3>3. CASE ~overlap
      BY <3>1, <3>3, <1>1, <1>2, <1>3, <2>4, AloneStep
    <3> QED BY <3>2, <3>3
  <2>11. PortKnown'
    BY <1>1, <1>2, <1>3, <2>3, <2>4, NobodyServes
  <2> QED BY <2>6, <2>7, <2>8, <2>9, <2>10, <2>11 DEF Core
<1>5. CASE flock[file[p]] # NoPid /\ phase[p] = "try"
  <2>1. Goto(p, "stale") /\ UNCHANGED <<file, listening, flock, pidIn>>
    BY <1>5 DEF TryLock
  <2>2. "stale" \in Opening /\ "stale" \notin HasLock \cup Past \cup Listens /\ "stale" \in Phase
    BY DEF Opening, HasLock, Past, Listens, Ending, Phase, Booting
  <2>3. overlap' \in BOOLEAN /\ robbed' \in BOOLEAN /\ (overlap => overlap')
    BY <1>1, <1>2 DEF LifeTypes
  <2>4. ~overlap' => \A q \in Proc \ {p} : phase[q] \notin Active
    BY <1>1, <1>2, <1>3 DEF Core, Alone
  <2>5. Core'
    BY <1>1, <1>2, <1>3, <2>1, <2>2, <2>3, <2>4, StageStep
  <2>6. \A q \in Proc : phase'[q] \in {"addrfile", "serving"} =>
                         phase[q] \in {"addrfile", "serving"}
    BY <2>1, <1>1 DEF Goto, LifeTypes
  <2>7. PortKnown'
    BY <1>1, <1>2, <2>1, <2>3, <2>6, PortKept
  <2> QED BY <2>5, <2>7
<1>6. CASE flock[file[p]] # NoPid /\ phase[p] # "try"
  BY <1>2, <1>6, ExitHere DEF TryLock
<1> QED BY <1>4, <1>5, <1>6

\* A name that leads to a dead pid is removed.
LEMMA StaleStep ==
    ASSUME LifeInv, NEW p \in Proc, Stale(p)
    PROVE  Core' /\ PortKnown'
<1>1. Core /\ PortKnown /\ phase[p] = "stale" /\ LifeTypes
  BY DEF LifeInv, Core, Stale
<1>2. UNCHANGED <<discovery, portFile, foreign, overlap, robbed>>
  BY DEF Stale, discovery, world
<1>3. phase[p] \in Opening /\ phase[p] \in Active /\ phase[p] \notin HasLock \cup Past \cup Listens
  BY <1>1, Stages DEF Opening
<1>4. CASE lock # None /\ pidIn[lock] # NoPid /\ ~pid_alive(pidIn[lock])
  <2>1. /\ phase' = [phase EXCEPT ![p] = "retry"] /\ file' = [file EXCEPT ![p] = None]
        /\ lock' = None /\ UNCHANGED <<listening, flock, pidIn>>
    BY <1>4 DEF Stale, Goto
  <2>2. "retry" \notin Opening \cup HasLock \cup Past \cup Listens \cup {"addrfile", "serving"}
        /\ "retry" \in Phase
    BY DEF Opening, HasLock, Past, Listens, Phase, Booting, Ending
  <2>3. /\ phase'[p] = "retry" /\ file'[p] = None
        /\ \A q \in Proc \ {p} : phase'[q] = phase[q] /\ file'[q] = file[q]
    BY <1>1, <2>1 DEF LifeTypes
  <2>4. LifeTypes'
    BY <1>1, <1>2, <2>1, <2>2 DEF LifeTypes
  <2>5. ASSUME NEW q \in Proc PROVE Process(q)'
    <3>1. Process(q)
      BY <1>1 DEF Core
    <3>2. CASE q = p
      BY <3>1, <3>2, <1>3, <2>1, <2>2, <2>3 DEF Process
    <3>3. CASE q # p
      BY <3>1, <3>3, <2>1, <2>3 DEF Process
    <3> QED BY <3>2, <3>3
  <2>6. Locks'
    <3> SUFFICES ASSUME NEW j \in Inode, flock[j] # NoPid
                 PROVE  file'[flock[j]] = j /\ phase'[flock[j]] \in HasLock
      BY <2>1 DEF Locks
    <3>1. flock[j] \in Proc /\ file[flock[j]] = j /\ phase[flock[j]] \in HasLock
      BY <1>1 DEF Core, LifeTypes, Locks
    <3> QED BY <3>1, <1>3, <2>3
  <2>7. Ports'
    BY <1>1, <1>2, <2>1 DEF Core, Ports
  <2>8. Alone'
    BY <1>1, <1>2, <1>3, <2>2, <2>3, AloneStep
  <2>9. PortKnown'
    BY <1>1, <1>2, <1>3, <2>2, <2>3, NobodyServes
  <2> QED BY <2>4, <2>5, <2>6, <2>7, <2>8, <2>9 DEF Core
<1>5. CASE ~(lock # None /\ pidIn[lock] # NoPid /\ ~pid_alive(pidIn[lock]))
  BY <1>2, <1>5, ExitHere DEF Stale
<1> QED BY <1>4, <1>5

\* The pid goes where the flock is.
LEMMA WritePidStep ==
    ASSUME LifeInv, NEW p \in Proc, WritePid(p)
    PROVE  Core' /\ PortKnown'
<1>1. Core /\ PortKnown /\ phase[p] = "pid" /\ LifeTypes /\ Process(p)
  BY DEF LifeInv, Core, WritePid
<1>2. /\ pidIn' = [pidIn EXCEPT ![file[p]] = p] /\ phase' = [phase EXCEPT ![p] = "bind"]
      /\ UNCHANGED <<file, listening, flock, lock, portFile, foreign, overlap, robbed>>
  BY DEF WritePid, Goto, discovery, world
<1>3. phase[p] \in HasLock /\ phase[p] \in Active /\ phase[p] \notin Opening \cup Past \cup Listens
  BY <1>1, Stages DEF HasLock, Past, Ending, Listens
<1>4. "bind" \in Past /\ "bind" \in HasLock /\ "bind" \in Phase
      /\ "bind" \notin Opening \cup Listens \cup {"addrfile", "serving"}
  BY DEF Opening, HasLock, Past, Listens, Ending, Phase, Booting
<1>5. phase'[p] = "bind" /\ \A q \in Proc \ {p} : phase'[q] = phase[q]
  BY <1>1, <1>2 DEF LifeTypes
<1>6. file[p] \in Inode /\ flock[file[p]] = p
  BY <1>1, <1>3 DEF Process, LifeTypes
<1>7. pidIn'[file[p]] = p /\ \A k \in Inode \ {file[p]} : pidIn'[k] = pidIn[k]
  BY <1>1, <1>2, <1>6 DEF LifeTypes
<1>8. LifeTypes'
  BY <1>1, <1>2, <1>4 DEF LifeTypes
<1>9. ASSUME NEW q \in Proc PROVE Process(q)'
  <2>1. Process(q)
    BY <1>1 DEF Core
  <2>2. CASE q = p
    BY <2>1, <2>2, <1>2, <1>3, <1>4, <1>5, <1>7 DEF Process
  <2>3. CASE q # p
    <3>1. phase[q] \in Past => file[q] \in Inode /\ file[q] # file[p]
      BY <2>1, <2>3, <1>1, <1>6, Stages DEF Process, LifeTypes
    <3> QED BY <2>1, <2>3, <3>1, <1>2, <1>5, <1>7 DEF Process
  <2> QED BY <2>2, <2>3
<1>10. Locks'
  <2> SUFFICES ASSUME NEW j \in Inode, flock[j] # NoPid
               PROVE  file[flock[j]] = j /\ phase'[flock[j]] \in HasLock
    BY <1>2 DEF Locks
  <2>1. flock[j] \in Proc /\ file[flock[j]] = j /\ phase[flock[j]] \in HasLock
    BY <1>1 DEF Core, LifeTypes, Locks
  <2> QED BY <2>1, <1>4, <1>5
<1>11. Ports'
  BY <1>1, <1>2 DEF Core, Ports
<1>12. Alone'
  <2>1. CASE overlap
    BY <2>1, <1>2 DEF Alone
  <2>2. CASE ~overlap
    <3>1. lock = file[p]
      BY <2>2, <1>1, <1>3 DEF Core, Alone
    <3> QED BY <3>1, <1>1, <1>2, <1>3, <1>5, AloneStep
  <2> QED BY <2>1, <2>2
<1>13. PortKnown'
  BY <1>1, <1>2, <1>3, <1>4, <1>5, NobodyServes
<1> QED BY <1>8, <1>9, <1>10, <1>11, <1>12, <1>13 DEF Core

\* The port is one that nobody listens on.
LEMMA BindStep ==
    ASSUME LifeInv, NEW p \in Proc, Bind(p)
    PROVE  Core' /\ PortKnown'
<1>1. Core /\ PortKnown /\ phase[p] = "bind" /\ LifeTypes /\ Process(p)
  BY DEF LifeInv, Core, Bind
<1>2. UNCHANGED <<lock, discovery, portFile, foreign, overlap, robbed>>
  BY DEF Bind, discovery, world
<1> DEFINE free == {port \in Port : ~Reachable(port)}
           mine == CHOOSE port \in free : \A other \in free : port <= other
<1>3. CASE free = {}
  BY <1>2, <1>3, ExitHere DEF Bind
<1>4. CASE free # {}
  <2>1. /\ listening' = [listening EXCEPT ![p] = mine]
        /\ phase' = [phase EXCEPT ![p] = "portfile"] /\ UNCHANGED <<file, flock, pidIn>>
    BY <1>4 DEF Bind, Goto
  <2>2. free \in SUBSET Port
    OBVIOUS
  <2>3. mine \in free
    <3> HIDE DEF free
    <3> QED BY <1>4, <2>2, FirstPort
  <2>4. /\ mine \in Port /\ mine \notin foreign /\ mine # None
        /\ \A q \in Proc : listening[q] # mine
    BY <2>3, NoNumber DEF Reachable
  <2> HIDE DEF mine
  <2>5. phase[p] \in Past /\ phase[p] \in HasLock /\ phase[p] \in Active
        /\ phase[p] \notin Opening \cup Listens
    BY <1>1, Stages DEF Past, Listens
  <2>6. "portfile" \in Past /\ "portfile" \in HasLock /\ "portfile" \in Phase
        /\ "portfile" \in Listens /\ "portfile" \notin Opening \cup {"addrfile", "serving"}
    BY DEF Opening, HasLock, Past, Listens, Ending, Phase, Booting
  <2>7. /\ phase'[p] = "portfile" /\ listening'[p] = mine
        /\ \A q \in Proc \ {p} : phase'[q] = phase[q] /\ listening'[q] = listening[q]
    BY <1>1, <2>1 DEF LifeTypes
  <2>8. LifeTypes'
    BY <1>1, <1>2, <2>1, <2>4, <2>6 DEF LifeTypes
  <2>9. ASSUME NEW q \in Proc PROVE Process(q)'
    <3>1. Process(q)
      BY <1>1 DEF Core
    <3>2. CASE q = p
      BY <3>1, <3>2, <2>1, <2>4, <2>5, <2>6, <2>7 DEF Process
    <3>3. CASE q # p
      BY <3>1, <3>3, <2>1, <2>7 DEF Process
    <3> QED BY <3>2, <3>3
  <2>10. Locks'
    <3> SUFFICES ASSUME NEW j \in Inode, flock[j] # NoPid
                 PROVE  file[flock[j]] = j /\ phase'[flock[j]] \in HasLock
      BY <2>1 DEF Locks
    <3>1. flock[j] \in Proc /\ file[flock[j]] = j /\ phase[flock[j]] \in HasLock
      BY <1>1 DEF Core, LifeTypes, Locks
    <3> QED BY <3>1, <2>6, <2>7
  <2>11. Ports'
    <3> SUFFICES ASSUME NEW q \in Proc
                 PROVE  /\ \A r \in Proc : q # r /\ listening'[q] # None
                                               => listening'[q] # listening'[r]
                        /\ listening'[q] \notin foreign
      BY <1>2 DEF Ports
    <3>1. Ports
      BY <1>1 DEF Core
    <3>2. CASE q = p
      BY <3>2, <2>4, <2>7
    <3>3. CASE q # p
      BY <3>1, <3>3, <2>4, <2>7 DEF Ports
    <3> QED BY <3>2, <3>3
  <2>12. Alone'
    <3>1. CASE overlap
      BY <3>1, <1>2 DEF Alone
    <3>2. CASE ~overlap
      <4>1. lock = file[p]
        BY <3>2, <1>1, <2>5 DEF Core, Alone
      <4> QED BY <4>1, <1>1, <1>2, <2>1, <2>5, <2>7, AloneStep
    <3> QED BY <3>1, <3>2
  <2>13. PortKnown'
    BY <1>1, <1>2, <2>5, <2>6, <2>7, NobodyServes
  <2> QED BY <2>8, <2>9, <2>10, <2>11, <2>12, <2>13 DEF Core
<1> QED BY <1>3, <1>4

\* Steps from one stage past the lock to another, but for the port file.
LEMMA PastStep ==
    ASSUME LifeInv, NEW p \in Proc, NEW label \in Past, Goto(p, label), phase[p] \in Past,
           label \in Listens <=> phase[p] \in Listens,
           UNCHANGED <<file, listening, lockfile, world>>
    PROVE  Core'
<1>1. Core /\ LifeTypes
  BY DEF LifeInv, Core
<1>2. UNCHANGED <<flock, pidIn, lock, foreign, overlap, robbed>>
  BY DEF lockfile, world
<1>3. /\ label \in HasLock /\ phase[p] \in HasLock /\ phase[p] \in Active /\ label \in Phase
      /\ label \notin Opening /\ phase[p] \notin Opening
  BY Stages
<1>4. overlap' \in BOOLEAN /\ robbed' \in BOOLEAN /\ (overlap => overlap')
  BY <1>1, <1>2 DEF LifeTypes
<1>5. ~overlap' => \A q \in Proc \ {p} : phase[q] \notin Active
  BY <1>1, <1>2, <1>3 DEF Core, Alone
<1> QED BY <1>1, <1>2, <1>3, <1>4, <1>5, StageStep

\* The port file is of who serves next.
LEMMA FilesStep ==
    ASSUME LifeInv, NEW p \in Proc, WritePortFile(p) \/ WriteAddrFile(p)
    PROVE  Core' /\ PortKnown'
<1>1. Core /\ PortKnown /\ LifeTypes
  BY DEF LifeInv, Core
<1>2. /\ "portfile" \in Past \cap Listens /\ "addrfile" \in Past \cap Listens
      /\ "serving" \in Past \cap Listens
  BY DEF Past, Listens
<1>3. CASE WritePortFile(p)
  <2>1. /\ phase[p] = "portfile" /\ Goto(p, "addrfile") /\ portFile' = listening[p]
        /\ UNCHANGED <<file, listening, lockfile, world, overlap, robbed>>
    BY <1>3 DEF WritePortFile, world
  <2>2. Core'
    BY <1>2, <2>1, PastStep
  <2>3. PortKnown'
    <3> SUFFICES ASSUME ~overlap, NEW q \in Proc, phase'[q] \in {"addrfile", "serving"}
                 PROVE  portFile' = listening'[q]
      BY <2>1 DEF PortKnown
    <3>1. phase[p] \in Active /\ phase'[q] \in Active
      BY <1>2, <2>1, Stages DEF Active, Booting
    <3>2. \A r \in Proc \ {p} : phase'[r] = phase[r]
      BY <1>1, <2>1 DEF Goto, LifeTypes
    <3>3. q = p
      BY <1>1, <3>1, <3>2, ActsAlone
    <3> QED BY <2>1, <3>3
  <2> QED BY <2>2, <2>3
<1>4. CASE WriteAddrFile(p)
  <2>1. /\ phase[p] = "addrfile" /\ Goto(p, "serving") /\ UNCHANGED portFile
        /\ UNCHANGED <<file, listening, lockfile, world, overlap, robbed>>
    BY <1>4 DEF WriteAddrFile, world
  <2>2. Core'
    BY <1>2, <2>1, PastStep
  <2>3. \A q \in Proc : phase'[q] \in {"addrfile", "serving"} =>
                         phase[q] \in {"addrfile", "serving"}
    BY <1>1, <2>1 DEF Goto, LifeTypes
  <2>4. overlap' \in BOOLEAN /\ robbed' \in BOOLEAN
    BY <1>1, <2>1 DEF LifeTypes
  <2> QED BY <1>1, <2>1, <2>2, <2>3, <2>4, PortKept
<1> QED BY <1>3, <1>4

-----------------------------------------------------------------------------
(* Shutdown, stop, commands, and what comes from outside.                  *)

\* A graceful shutdown keeps the lock to its end.
LEMMA ShutdownStep ==
    ASSUME LifeInv, NEW p \in Proc, Shutdown(p)
    PROVE  Core' /\ PortKnown'
<1>1. Core /\ PortKnown /\ LifeTypes
  BY DEF LifeInv, Core
<1>2. Ending \subseteq Past \ Listens
  BY Stages
<1>3. ASSUME NEW label \in Ending, Goto(p, label), phase[p] \in Ending,
             UNCHANGED <<file, listening, lockfile, world>>
      PROVE  Core' /\ PortKnown'
  <2>1. Core'
    BY <1>2, <1>3, PastStep
  <2>2. /\ phase[p] \in Active /\ phase'[p] \notin {"addrfile", "serving"}
        /\ \A q \in Proc \ {p} : phase'[q] = phase[q]
    BY <1>1, <1>2, <1>3, Stages DEF Goto, LifeTypes, Listens
  <2>3. overlap' = overlap
    BY <1>3 DEF world
  <2> QED BY <1>1, <2>1, <2>2, <2>3, NobodyServes
<1>4. {"drain", "flush", "unport", "unaddr"} \subseteq Ending
  BY DEF Ending
<1>5. CASE Drained(p)
  BY <1>3, <1>4, <1>5 DEF Drained
<1>6. CASE Flush(p)
  BY <1>3, <1>4, <1>6 DEF Flush
<1>7. CASE RemovePortFile(p)
  BY <1>3, <1>4, <1>7 DEF RemovePortFile
<1>8. CASE RemoveAddrFile(p)
  <2>1. Exit(p) /\ UNCHANGED <<lock, portFile, foreign, overlap, robbed>>
    BY <1>8 DEF RemoveAddrFile, world
  <2>2. robbed' \in BOOLEAN
    BY <1>1, <2>1 DEF LifeTypes
  <2> QED BY <2>1, <2>2, ExitStep
<1> QED BY <1>5, <1>6, <1>7, <1>8 DEF Shutdown

\* A signal of `stop', and a `stop' that takes the port file of another daemon.
LEMMA StopStep ==
    ASSUME LifeInv, NEW s \in Stopper, Stop(s)
    PROVE  Core' /\ PortKnown'
<1>1. Core /\ PortKnown /\ LifeTypes /\ CommandTypes
  BY DEF LifeInv, Core
<1>2. Moves(phase)
  BY <1>1 DEF LifeTypes, Moves
<1>3. ASSUME NEW ends \in SUBSET Proc, NEW drains \in SUBSET Serving,
             Signalled(phase, ends, drains),
             UNCHANGED <<lock, portFile, foreign, overlap, robbed>>
      PROVE  Core' /\ PortKnown'
  <2>1. robbed' \in BOOLEAN
    BY <1>1, <1>3 DEF LifeTypes
  <2> QED BY <1>1, <1>2, <1>3, <2>1, SignalStep, SignalPort
<1>4. CASE StopTerm(s)
  <2>1. PICK found \in find_daemon_pids(s) :
           Term(phase, found \cup (IF lock = None THEN {} ELSE {pidIn[lock]} \ {NoPid}))
    BY <1>4 DEF StopTerm
  <2> DEFINE all == found \cup (IF lock = None THEN {} ELSE {pidIn[lock]} \ {NoPid})
             ends == {p \in all : phase[p] \in Booting \cup {"check"}}
  <2>2. Signalled(phase, ends, all \cap Serving)
    BY <2>1 DEF Term
  <2>3. found \in SUBSET Proc /\ (lock # None => pidIn[lock] \in Proc \cup {NoPid})
    BY <1>1 DEF find_daemon_pids, LifeTypes
  <2>4. all \in SUBSET Proc
    BY <2>3
  <2>5. ends \in SUBSET Proc /\ all \cap Serving \in SUBSET Serving
    BY <2>4
  <2>6. UNCHANGED <<lock, portFile, foreign, overlap, robbed>>
    BY <1>4 DEF StopTerm, discovery, world
  <2> HIDE DEF ends, all
  <2> QED BY <1>3, <2>2, <2>5, <2>6
<1>5. CASE StopSeen(s)
  BY <1>1, <1>5 DEF StopSeen, process, lockfile, discovery, world, Core, LifeTypes, Process,
     Locks, Ports, Alone, PortKnown
<1>6. CASE StopKill(s)
  <2>1. {p \in targets[s] : Alive(p)} \in SUBSET Proc /\ {} \in SUBSET Serving
    BY <1>1 DEF CommandTypes
  <2>2. Signalled(phase, {p \in targets[s] : Alive(p)}, {})
    BY <1>6 DEF StopKill, Kill
  <2>3. UNCHANGED <<lock, portFile, foreign, overlap, robbed>>
    BY <1>6 DEF StopKill, discovery, world
  <2> QED BY <1>3, <2>1, <2>2, <2>3
<1>7. CASE StopCleanup(s)
  <2>1. /\ robbed' = (robbed \/ (portFile' # portFile /\ \E p \in Proc : listening[p] = portFile))
        /\ UNCHANGED <<phase, file, listening, flock, pidIn, lock, foreign, overlap>>
    BY <1>7 DEF StopCleanup, process, lockfile
  <2>2. Core'
    BY <1>1, <2>1 DEF Core, LifeTypes, Process, Locks, Ports, Alone
  <2>3. PortKnown'
    BY <1>1, <2>1 DEF PortKnown
  <2> QED BY <2>2, <2>3
<1> QED BY <1>4, <1>5, <1>6, <1>7 DEF Stop

\* A command changes no more than http_addr, and may start a process.
LEMMA CommandStep ==
    ASSUME LifeInv, NEW c \in Client, Command(c)
    PROVE  Core' /\ PortKnown'
<1>1. Core /\ PortKnown /\ LifeTypes
  BY DEF LifeInv, Core
<1>2. UNCHANGED <<file, listening, lockfile, portFile, foreign, overlap, robbed>>
  BY DEF Command, Resolve, Refresh, Probe, Poll, process, discovery, world
<1>3. CASE UNCHANGED phase
  BY <1>1, <1>2, <1>3 DEF lockfile, Core, LifeTypes, Process, Locks, Ports, Alone, PortKnown
<1>4. CASE ~UNCHANGED phase
  <2>1. PICK p \in Proc : phase[p] = "off" /\ Goto(p, "check")
    BY <1>4 DEF Command, Resolve, Refresh, Probe, Poll, process
  <2> QED BY <1>2, <2>1, StartStep
<1> QED BY <1>3, <1>4

\* A kill, a dashboard and another program.
LEMMA OutsideStep ==
    ASSUME LifeInv, Killed \/ Stream \/ OtherProgram
    PROVE  Core' /\ PortKnown'
<1>1. Core /\ PortKnown /\ LifeTypes
  BY DEF LifeInv, Core
<1>2. CASE Killed
  <2>1. PICK p \in Proc : Exit(p) /\ UNCHANGED <<lock, discovery, overlap, robbed, foreign>>
    BY <1>2 DEF Killed
  <2> QED BY <2>1, ExitHere
<1>3. CASE Stream
  BY <1>1, <1>3 DEF Stream, lockfile, discovery, world, Core, LifeTypes, Process, Locks, Ports,
     Alone, PortKnown
<1>4. CASE OtherProgram
  <2>1. PICK port \in Port :
           /\ \/ ~Reachable(port) /\ foreign' = foreign \cup {port}
              \/ port \in foreign /\ foreign' = foreign \ {port}
           /\ UNCHANGED <<process, lockfile, discovery, overlap, robbed>>
    BY <1>4 DEF OtherProgram
  <2>2. LifeTypes'
    BY <1>1, <2>1 DEF process, lockfile, LifeTypes
  <2>3. Ports'
    BY <1>1, <2>1 DEF process, Reachable, Core, Ports
  <2>4. (\A p \in Proc : Process(p)') /\ Locks' /\ Alone' /\ PortKnown'
    BY <1>1, <2>1 DEF process, lockfile, discovery, Core, Process, Locks, Alone, PortKnown
  <2> QED BY <2>2, <2>3, <2>4 DEF Core
<1> QED BY <1>2, <1>3, <1>4

\* Files, targets and commands keep their types.
LEMMA CommandTypesStep ==
    ASSUME LifeInv, [Next]_vars
    PROVE  CommandTypes'
<1>1. LifeTypes /\ CommandTypes
  BY DEF LifeInv, Core
<1>2. CASE UNCHANGED <<discovery, targets, commands>>
  BY <1>1, <1>2 DEF discovery, commands, CommandTypes
<1>3. ASSUME NEW p \in Proc, Start(p) \/ Boot(p) \/ Shutdown(p)
      PROVE  CommandTypes'
  <2>1. UNCHANGED commands
    BY <1>3 DEF Start, Boot, PidCheck, Checked, Scan, Reap, OpenLock, TryLock, Stale, WritePid,
       Bind, WritePortFile, WriteAddrFile, Shutdown, Drained, Flush, RemovePortFile,
       RemoveAddrFile
  <2>2. /\ portFile' \in {portFile, None, listening[p]}
        /\ addrFile' \in {addrFile, None, listening[p]}
    BY <1>3 DEF Start, Boot, PidCheck, Checked, Scan, Reap, OpenLock, TryLock, Stale, WritePid,
       Bind, WritePortFile, WriteAddrFile, Shutdown, Drained, Flush, RemovePortFile,
       RemoveAddrFile, discovery
  <2>3. \/ UNCHANGED targets
        \/ \E ps \in SUBSET Proc : targets' = [targets EXCEPT ![p] = ps]
    <3>1. CASE Scan(p)
      BY <3>1 DEF Scan, find_daemon_pids
    <3>2. CASE Reap(p)
      BY <3>2 DEF Reap
    <3>3. CASE ~Scan(p) /\ ~Reap(p)
      BY <1>3, <3>3 DEF Start, Boot, PidCheck, Checked, OpenLock, TryLock, Stale, WritePid,
         Bind, WritePortFile, WriteAddrFile, Shutdown, Drained, Flush, RemovePortFile,
         RemoveAddrFile
    <3> QED BY <3>1, <3>2, <3>3
  <2>4. targets' \in [Proc \cup Stopper -> SUBSET Proc]
    BY <1>1, <2>3 DEF CommandTypes
  <2> QED BY <1>1, <2>1, <2>2, <2>4 DEF CommandTypes, LifeTypes, commands
<1>4. ASSUME NEW s \in Stopper, Stop(s)
      PROVE  CommandTypes'
  <2>1. UNCHANGED <<client, base, addrFile>> /\ portFile' \in {portFile, None}
    BY <1>4 DEF Stop, StopTerm, StopSeen, StopKill, StopCleanup, discovery
  <2>2. stop' \in [Stopper -> {"idle", "wait", "killed", "done"}]
    BY <1>1, <1>4 DEF Stop, StopTerm, StopSeen, StopKill, StopCleanup, CommandTypes
  <2>3. \/ UNCHANGED targets
        \/ \E ps \in SUBSET Proc : targets' = [targets EXCEPT ![s] = ps]
    <3>1. CASE StopTerm(s)
      <4>1. PICK found \in find_daemon_pids(s) :
               targets' = [targets EXCEPT ![s] = found \cup
                              (IF lock = None THEN {} ELSE {pidIn[lock]} \ {NoPid})]
        BY <3>1 DEF StopTerm
      <4>2. found \in SUBSET Proc /\ (lock # None => pidIn[lock] \in Proc \cup {NoPid})
        BY <1>1 DEF find_daemon_pids, LifeTypes
      <4>3. found \cup (IF lock = None THEN {} ELSE {pidIn[lock]} \ {NoPid}) \in SUBSET Proc
        BY <4>2
      <4> QED BY <4>1, <4>3
    <3>2. CASE ~StopTerm(s)
      BY <1>4, <3>2 DEF Stop, StopSeen, StopKill, StopCleanup
    <3> QED BY <3>1, <3>2
  <2>4. targets' \in [Proc \cup Stopper -> SUBSET Proc]
    BY <1>1, <2>3 DEF CommandTypes
  <2> QED BY <1>1, <2>1, <2>2, <2>4 DEF CommandTypes
<1>5. ASSUME NEW c \in Client, Command(c)
      PROVE  CommandTypes'
  <2>1. UNCHANGED <<portFile, targets, stop>>
    BY <1>5 DEF Command, Resolve, Refresh, Probe, Poll, discovery
  <2>2. BaseUrl \in Port \cup {None}
    BY <1>1, NoNumber DEF BaseUrl, Fallback, CommandTypes
  <2>3. base' \in [Client -> Port \cup {None}] /\ addrFile' \in Port \cup {None}
    BY <1>1, <1>5, <2>2 DEF Command, Resolve, Refresh, Probe, Poll, discovery, CommandTypes
  <2>4. client' \in [Client -> {"idle", "refresh", "probe", "poll", "ok", "failed"}]
    BY <1>1, <1>5 DEF Command, Resolve, Refresh, Probe, Poll, CommandTypes
  <2> QED BY <1>1, <2>1, <2>3, <2>4 DEF CommandTypes
<1>6. CASE Killed \/ Stream \/ OtherProgram
  BY <1>2, <1>6 DEF Killed, Stream, OtherProgram
<1>7. CASE UNCHANGED vars
  BY <1>2, <1>7 DEF vars
<1> QED BY <1>3, <1>4, <1>5, <1>6, <1>7 DEF Next

-----------------------------------------------------------------------------
(* The theorem.                                                            *)

\* The invariant holds when nothing has been started,
LEMMA InitLifeInv == Init => LifeInv
<1> SUFFICES ASSUME Init PROVE LifeInv
  OBVIOUS
<1>1. LifeTypes /\ CommandTypes
  BY DEF Init, LifeTypes, CommandTypes, Phase
<1>2. (\A p \in Proc : Process(p)) /\ Locks /\ Ports /\ Alone /\ PortKnown
  BY Stages DEF Init, Process, Locks, Ports, Alone, PortKnown
<1> QED BY <1>1, <1>2 DEF LifeInv, Core

\* and every step preserves it.
LEMMA NextLifeInv == LifeInv /\ [Next]_vars => LifeInv'
<1> SUFFICES ASSUME LifeInv, [Next]_vars PROVE LifeInv'
  OBVIOUS
<1>1. CommandTypes'
  BY CommandTypesStep
<1>2. ASSUME NEW p \in Proc, Start(p) PROVE Core' /\ PortKnown'
  BY <1>2, StartStep DEF Start, discovery, world
<1>3. ASSUME NEW p \in Proc, Boot(p) PROVE Core' /\ PortKnown'
  BY <1>3, PidCheckStep, ScanStep, ReapStep, OpenLockStep, TryLockStep, StaleStep, WritePidStep,
     BindStep, FilesStep DEF Boot
<1>4. ASSUME UNCHANGED vars PROVE Core' /\ PortKnown'
  BY <1>4 DEF vars, process, lockfile, discovery, world, LifeInv, Core, LifeTypes, Process,
     Locks, Ports, Alone, PortKnown
<1>5. ASSUME NEW p \in Proc, Start(p) \/ Boot(p) \/ Shutdown(p) PROVE Core' /\ PortKnown'
  BY <1>2, <1>3, <1>5, ShutdownStep
<1>6. ASSUME NEW s \in Stopper, Stop(s) PROVE Core' /\ PortKnown'
  BY <1>6, StopStep
<1>7. ASSUME NEW c \in Client, Command(c) PROVE Core' /\ PortKnown'
  BY <1>7, CommandStep
<1>8. Core' /\ PortKnown'
  BY <1>4, <1>5, <1>6, <1>7, OutsideStep DEF Next
<1> QED BY <1>1, <1>8 DEF LifeInv

\* The invariant says that one process is past the lock ...
LEMMA OneDaemon == LifeInv => Singleton
<1> SUFFICES ASSUME LifeInv, ~overlap, NEW p \in Proc, phase[p] \in Past
             PROVE  /\ lock = file[p] /\ flock[lock] = p /\ pidIn[lock] = p
                    /\ \A q \in Proc \ {p} : phase[q] \notin Active
  BY DEF Singleton, Past, Active
<1>1. phase[p] \in HasLock /\ phase[p] \in Active
  BY Stages
<1>2. Process(p) /\ Alone
  BY DEF LifeInv, Core
<1> QED BY <1>1, <1>2 DEF Process, Alone

\* ... and that the address it is found at is its own.
LEMMA Found == LifeInv => Discoverable
<1> SUFFICES ASSUME LifeInv, Quiet, NEW p \in Serving, ~overlap, ~robbed, foreign = {}
             PROVE  Healthy(BaseUrl)
  BY DEF Discoverable
<1>1. p \in Proc /\ phase[p] = "serving"
  BY DEF Serving
<1>2. \A q \in Proc : listening[q] # None <=> phase[q] \in Listens
  BY DEF LifeInv, Core, Process
<1>3. portFile = listening[p] /\ portFile # None
  BY <1>1, <1>2 DEF LifeInv, PortKnown, Listens
<1>4. CASE addrFile # None /\ Reachable(addrFile)
  <2>1. PICK q \in Proc : listening[q] = addrFile
    BY <1>4 DEF Reachable
  <2>2. phase[q] \in Listens
    BY <1>2, <1>4, <2>1
  <2>3. phase[q] = "serving"
    BY <2>2 DEF Quiet, Listens
  <2> QED BY <1>4, <2>1, <2>3 DEF Healthy, Serving, BaseUrl
<1>5. CASE ~(addrFile # None /\ Reachable(addrFile))
  BY <1>1, <1>3, <1>5 DEF Healthy, BaseUrl, Fallback
<1> QED BY <1>4, <1>5

\* There is one daemon, the lock file names it, and a command finds it (daemon.rs,
\* start.rs, stop.rs), however many starts, stops and kills there are.
THEOREM OneDaemonFound == Spec => []DaemonSound
<1>1. Init => LifeInv
  BY InitLifeInv
<1>2. LifeInv /\ [Next]_vars => LifeInv'
  BY NextLifeInv
<1>3. LifeInv => DaemonSound
  <2> SUFFICES ASSUME LifeInv PROVE DaemonSound
    OBVIOUS
  <2>1. Core /\ LifeTypes /\ Locks /\ Ports /\ CommandTypes
    BY DEF LifeInv, Core
  <2>2. \A k \in Inode : flock[k] # NoPid => Alive(flock[k]) /\ file[flock[k]] = k
    <3> SUFFICES ASSUME NEW k \in Inode, flock[k] # NoPid
                 PROVE  Alive(flock[k]) /\ file[flock[k]] = k
      OBVIOUS
    <3>1. phase[flock[k]] \in HasLock /\ file[flock[k]] = k
      BY <2>1 DEF Locks
    <3> QED BY <3>1, Stages DEF Alive
  <2>3. DaemonTypeOK
    BY <2>1, <2>2 DEF DaemonTypeOK, LifeTypes, CommandTypes, Ports
  <2> QED BY <2>3, OneDaemon, Found DEF DaemonSound
<1> QED BY <1>1, <1>2, <1>3, PTL DEF Spec

-----------------------------------------------------------------------------
(* The caps.                                                               *)

Starting == {"flag", "save", "write", "load", "resolve"}

\* Only variables that are persisted.
Persistent(e) == e \in [Key -> Int] /\ \A k \in Key \ PERSISTED_ENV_VARS : e[k] = Unset

EnvTypes ==
    /\ stage \in {"down", "up"} \cup Starting
    /\ env \in [Key -> Int] /\ Persistent(env_file) /\ Persistent(agent) /\ Persistent(refused)
    /\ flag \in {Unset, Cpu, Gpu} /\ ram \in Ram /\ pinned \subseteq Key
    /\ stage # "up" => limit = Unset
    /\ embedder \in {"none", "loading", "cpu", "gpu"}
    /\ lasts \in BOOLEAN /\ DOMAIN seen = Ram

\* The caps a daemon has that finds these variables set.
EffectiveCaps(r, e) ==
    LET policy == Policy(r, e)
    IN [limit |-> memory_limit_mb(policy.limit),
        chunks |-> max_chunks_per_index(policy.chunks),
        vectors |-> hnsw_max_elements(policy.chunks),
        cache |-> embedding_cache_cap(policy.cache), bm25 |-> bm25_corpus_cap(policy.bm25),
        batch |-> embed_batch_size(policy.batch), device |-> e.device]

\* What the supervisor's restart will find set when it has loaded the file.
Back == IF agent = Bare THEN env_file ELSE agent
NoneSeen == \A r \in Ram : seen[r] = NoCaps

\* While a daemon starts that may write the file by which restarts go, nothing has been
\* seen; one that lasts has loaded by the end what they will find.
Boots ==
    /\ stage \in {"flag", "save", "write"} /\ agent = Bare
       => NoneSeen \/ (env = Bare /\ flag = Unset /\ stage # "write")
    /\ lasts /\ stage \in {"flag", "save", "write"} /\ agent # Bare
       => env = agent /\ (stage # "write" => flag = Unset)
    /\ lasts /\ stage = "load" => IF agent = Bare THEN Saved(env) \in {env_file, Bare}
                                  ELSE env = agent /\ env_file = agent
    /\ lasts /\ stage = "resolve" => Saved(env) = Back
    /\ lasts /\ stage \in Starting => NoneSeen \/ env.explicit = Unset
    /\ stage = "resolve" => \A k \in Key : k \in pinned <=> env[k] # Unset

SeenTrue == \A r \in Ram : seen[r] # NoCaps => seen[r] = EffectiveCaps(r, Back)

BatchResolved ==
    /\ env.explicit # 1 => env.batch <= batch_size_hard_cap(Tier(ram))
    /\ "batch" \notin pinned => env.batch \in {batch_size_hard_cap(Tier(ram)),
                                             compute_max_batch_size(env.limit)}
    /\ "batch" \notin pinned => env.batch <= compute_max_batch_size(env.limit)

\* What the policy has resolved, of what nobody had pinned.
Resolved == stage = "up" =>
    /\ \A k \in Numbers : env[k] >= 0
    /\ "limit" \notin pinned => env.limit = compute_memory_limit_mb(ram)
    /\ "chunks" \notin pinned => env.chunks = compute_max_chunks(env.limit)
    /\ "cache" \notin pinned => env.cache = TierDefaults(Tier(ram)).cache
    /\ "bm25" \notin pinned => env.bm25 = TierDefaults(Tier(ram)).bm25
    /\ limit # Unset => limit = memory_limit_mb(env.limit)
    /\ embedder # "gpu" => BatchResolved
    /\ embedder # "gpu" /\ lasts /\ seen[ram] # NoCaps => Caps = EffectiveCaps(ram, Back)

EnvInv == EnvTypes /\ Boots /\ SeenTrue /\ Resolved

\* Which variables there are.
LEMMA Keys ==
    /\ Numbers \subseteq PERSISTED_ENV_VARS /\ PERSISTED_ENV_VARS \subseteq Key
    /\ {"limit", "chunks", "cache", "batch", "bm25", "device", "nodes", "explicit"} = Key
    /\ "device" \in PERSISTED_ENV_VARS
    /\ "nodes" \notin PERSISTED_ENV_VARS /\ "explicit" \notin PERSISTED_ENV_VARS
    /\ Bare \in [Key -> Int] /\ \A k \in Key : Bare[k] = Unset
    /\ Saved(Bare) = Bare
  BY DEF Numbers, PERSISTED_ENV_VARS, Key, Bare, Unset, Saved

\* What is computed from the RAM and from the limit is a number.
LEMMA Computed ==
    /\ \A r \in Nat : compute_memory_limit_mb(r) \in Nat
    /\ \A l \in Int : compute_max_chunks(l) \in Nat /\ compute_max_batch_size(l) \in Nat
    /\ \A l \in Int : compute_max_batch_size(l) >= 8 /\ compute_max_batch_size(l) <= 64
    /\ \A r \in Nat : /\ batch_size_hard_cap(Tier(r)) \in Nat
                      /\ batch_size_hard_cap(Tier(r)) \in {16, 32, 64}
    /\ \A r \in Nat : /\ TierDefaults(Tier(r)).cache \in Nat
                      /\ TierDefaults(Tier(r)).bm25 \in Nat
                      /\ TierDefaults(Tier(r)).nodes \in Nat
<1>1. \A r \in Nat : compute_memory_limit_mb(r) \in Nat
  BY DEF compute_memory_limit_mb, Clamp
<1>2. \A l \in Int : compute_max_chunks(l) \in Nat
  BY DEF compute_max_chunks, Clamp
<1>3. \A l \in Int : /\ compute_max_batch_size(l) \in Nat
                     /\ compute_max_batch_size(l) >= 8 /\ compute_max_batch_size(l) <= 64
  BY DEF compute_max_batch_size, Clamp
<1>4. \A r \in Nat : Tier(r) \in {"Medium", "Large", "XLarge"}
  BY DEF Tier
<1>5. \A t \in {"Medium", "Large", "XLarge"} :
         /\ batch_size_hard_cap(t) \in {16, 32, 64}
         /\ TierDefaults(t).cache \in Nat /\ TierDefaults(t).bm25 \in Nat
         /\ TierDefaults(t).nodes \in Nat
  BY DEF batch_size_hard_cap, TierDefaults
<1> QED BY <1>1, <1>2, <1>3, <1>4, <1>5

\* The batch size that is set or computed, before the tier's cap.
RawBatch(r, e) ==
    env_override_usize(e.batch, compute_max_batch_size(Policy(r, e).limit))

\* The policy, variable by variable.
LEMMA PolicyIs ==
    ASSUME NEW r \in Nat, NEW e \in [Key -> Int]
    PROVE  LET p == Policy(r, e)
               cap == batch_size_hard_cap(Tier(r))
           IN /\ p.limit = env_override_usize(e.limit, compute_memory_limit_mb(r))
              /\ p.chunks = env_override_usize(e.chunks, compute_max_chunks(p.limit))
              /\ p.cache = env_override_usize(e.cache, TierDefaults(Tier(r)).cache)
              /\ p.bm25 = env_override_usize(e.bm25, TierDefaults(Tier(r)).bm25)
              /\ p.nodes = env_override_usize(e.nodes, TierDefaults(Tier(r)).nodes)
              /\ p.batch = IF RawBatch(r, e) > cap /\ ~(e.explicit = 1 /\ e.batch # Unset)
                           THEN cap ELSE RawBatch(r, e)
              /\ p.limit \in Nat /\ p.chunks \in Nat /\ p.cache \in Nat /\ p.bm25 \in Nat
              /\ p.nodes \in Nat /\ p.batch \in Nat /\ RawBatch(r, e) \in Nat
<1> DEFINE p == Policy(r, e)
           cap == batch_size_hard_cap(Tier(r))
<1>1. \A v \in Int, d \in Nat : env_override_usize(v, d) \in Nat
  BY DEF env_override_usize
<1>2. /\ e.limit \in Int /\ e.chunks \in Int /\ e.batch \in Int /\ e.cache \in Int
      /\ e.bm25 \in Int /\ e.nodes \in Int
  BY Keys
<1>3. /\ p.limit = env_override_usize(e.limit, compute_memory_limit_mb(r))
      /\ p.chunks = env_override_usize(e.chunks, compute_max_chunks(p.limit))
      /\ p.cache = env_override_usize(e.cache, TierDefaults(Tier(r)).cache)
      /\ p.bm25 = env_override_usize(e.bm25, TierDefaults(Tier(r)).bm25)
      /\ p.nodes = env_override_usize(e.nodes, TierDefaults(Tier(r)).nodes)
  BY DEF Policy
<1>4. p.batch = IF RawBatch(r, e) > cap /\ ~(e.explicit = 1 /\ e.batch # Unset)
                THEN cap ELSE RawBatch(r, e)
  BY DEF Policy, RawBatch
<1>5. p.limit \in Nat
  <2>1. compute_memory_limit_mb(r) \in Nat
    BY Computed
  <2> HIDE DEF p
  <2> QED BY <1>1, <1>2, <1>3, <2>1, Zenon
<1> HIDE DEF p
<1>6. p.limit \in Int
  BY <1>5
<1>7. compute_max_chunks(p.limit) \in Nat /\ compute_max_batch_size(p.limit) \in Nat
  <2>1. \A l \in Int : compute_max_chunks(l) \in Nat /\ compute_max_batch_size(l) \in Nat
    BY Computed
  <2> QED BY <1>6, <2>1, Zenon
<1>8. p.chunks \in Nat /\ p.cache \in Nat /\ p.bm25 \in Nat /\ p.nodes \in Nat
  <2>1. p.chunks \in Nat
    BY <1>1, <1>2, <1>3, <1>7, Zenon
  <2>2. /\ TierDefaults(Tier(r)).cache \in Nat /\ TierDefaults(Tier(r)).bm25 \in Nat
        /\ TierDefaults(Tier(r)).nodes \in Nat
    BY Computed
  <2> QED BY <1>1, <1>2, <1>3, <2>1, <2>2, Zenon
<1>9. RawBatch(r, e) \in Nat
  BY <1>1, <1>2, <1>7 DEF RawBatch, p
<1>10. cap \in Nat
  BY Computed
<1>11. p.batch \in Nat
  BY <1>4, <1>9, <1>10
<1> QED BY <1>3, <1>4, <1>5, <1>8, <1>9, <1>11 DEF p

\* The three bounds that depend only on the tier and on the key's own entry.
LEMMA PolicyCaps ==
    ASSUME NEW r \in Nat, NEW e \in [Key -> Int]
    PROVE  /\ Policy(r, e).chunks = env_override_usize(e.chunks, compute_max_chunks(Policy(r, e).limit))
           /\ Policy(r, e).cache = env_override_usize(e.cache, TierDefaults(Tier(r)).cache)
           /\ Policy(r, e).bm25 = env_override_usize(e.bm25, TierDefaults(Tier(r)).bm25)
BY DEF Policy

\* What is not persisted does not matter to the caps but for the switch.
LEMMA Alike ==
    ASSUME NEW r \in Nat, NEW e \in [Key -> Int], e.explicit # 1
    PROVE  EffectiveCaps(r, Saved(e)) = EffectiveCaps(r, e)
<1> DEFINE f == Saved(e)
<1>1. f \in [Key -> Int]
  BY DEF Saved, Unset
<1>2. /\ f.limit = e.limit /\ f.chunks = e.chunks /\ f.batch = e.batch /\ f.cache = e.cache
      /\ f.bm25 = e.bm25 /\ f.device = e.device /\ f.explicit # 1
  BY Keys DEF Saved, Unset, Numbers
<1> HIDE DEF f
<1>3. Policy(r, f).limit = Policy(r, e).limit
  <2>1. /\ Policy(r, f).limit = env_override_usize(f.limit, compute_memory_limit_mb(r))
        /\ Policy(r, e).limit = env_override_usize(e.limit, compute_memory_limit_mb(r))
    BY <1>1, PolicyIs
  <2> QED BY <1>2, <2>1
<1>4. RawBatch(r, f) = RawBatch(r, e)
  BY <1>2, <1>3 DEF RawBatch
<1>5. Policy(r, f).batch = Policy(r, e).batch
  <2>1. \A d \in {e, f} : Policy(r, d).batch =
           IF RawBatch(r, d) > batch_size_hard_cap(Tier(r)) /\ ~(d.explicit = 1 /\ d.batch # Unset)
           THEN batch_size_hard_cap(Tier(r)) ELSE RawBatch(r, d)
    BY <1>1, PolicyIs
  <2> QED BY ONLY <1>2, <1>4, <2>1, e.explicit # 1
<1>6. /\ Policy(r, f).chunks = Policy(r, e).chunks /\ Policy(r, f).cache = Policy(r, e).cache
      /\ Policy(r, f).bm25 = Policy(r, e).bm25
  <2>1. \A d \in {e, f} :
           /\ Policy(r, d).chunks = env_override_usize(d.chunks, compute_max_chunks(Policy(r, d).limit))
           /\ Policy(r, d).cache = env_override_usize(d.cache, TierDefaults(Tier(r)).cache)
           /\ Policy(r, d).bm25 = env_override_usize(d.bm25, TierDefaults(Tier(r)).bm25)
    BY ONLY r \in Nat, e \in [Key -> Int], <1>1, PolicyCaps, Zenon
  <2>2. Policy(r, f).chunks = Policy(r, e).chunks
    <3>1. \A d \in {e, f} : Policy(r, d).chunks = env_override_usize(d.chunks, compute_max_chunks(Policy(r, d).limit))
      BY ONLY <2>1
    <3> QED BY ONLY <1>2, <1>3, <3>1, Zenon
  <2>3. Policy(r, f).cache = Policy(r, e).cache /\ Policy(r, f).bm25 = Policy(r, e).bm25
    <3>1. \A d \in {e, f} : /\ Policy(r, d).cache = env_override_usize(d.cache, TierDefaults(Tier(r)).cache)
                            /\ Policy(r, d).bm25 = env_override_usize(d.bm25, TierDefaults(Tier(r)).bm25)
      BY ONLY <2>1
    <3> QED BY ONLY <1>2, <3>1, Zenon
  <2> QED BY <2>2, <2>3
<1>7. EffectiveCaps(r, f) = EffectiveCaps(r, e)
  BY ONLY <1>2, <1>3, <1>5, <1>6, Zenon DEF EffectiveCaps
<1> QED BY <1>7 DEF f

\* apply_to_env sets what the readers read.
LEMMA Applied ==
    ASSUME NEW r \in Nat, env \in [Key -> Int], env' = apply_to_env(Policy(r, env))
    PROVE  /\ env' \in [Key -> Int] /\ Caps' = EffectiveCaps(r, env)
           /\ env'.limit = Policy(r, env).limit /\ env'.chunks = Policy(r, env).chunks
           /\ env'.cache = Policy(r, env).cache /\ env'.bm25 = Policy(r, env).bm25
           /\ env'.batch = Policy(r, env).batch /\ env'.explicit = env.explicit
           /\ env'.device = env.device
<1> DEFINE p == Policy(r, env)
<1>1. /\ p.limit \in Nat /\ p.chunks \in Nat /\ p.cache \in Nat /\ p.bm25 \in Nat
      /\ p.nodes \in Nat /\ p.batch \in Nat
  BY PolicyIs
<1> HIDE DEF p
<1>2. env' = [env EXCEPT !.limit = p.limit, !.chunks = p.chunks, !.batch = p.batch,
                         !.cache = p.cache, !.bm25 = p.bm25, !.nodes = p.nodes]
  BY DEF apply_to_env, p
<1>3. env' \in [Key -> Int]
  <2>1. env' = [k \in Key |-> env'[k]]
    BY <1>2
  <2>2. \A k \in Key : env'[k] \in {env[k], p.limit, p.chunks, p.batch, p.cache, p.bm25, p.nodes}
    BY <1>2
  <2>3. \A k \in Key : env'[k] \in Int
    BY <1>1, <2>2
  <2> QED BY <2>1, <2>3
<1>4. /\ env'.limit = p.limit /\ env'.chunks = p.chunks /\ env'.cache = p.cache
      /\ env'.bm25 = p.bm25 /\ env'.batch = p.batch /\ env'.explicit = env.explicit
      /\ env'.device = env.device
  BY <1>2, Keys
<1>5. Caps' = EffectiveCaps(r, env)
  BY <1>4 DEF Caps, EffectiveCaps, p
<1> QED BY <1>3, <1>4, <1>5 DEF p

-----------------------------------------------------------------------------
(* A daemon comes up.                                                      *)

\* What is saved of variables that are all persisted is these.
LEMMA SavedIs ==
    /\ \A e : Persistent(e) => Saved(e) = e
    /\ \A e \in [Key -> Int] : Persistent(Saved(e))
    /\ \A e \in [Key -> Int], device \in Int : WithFlag(e, device) \in [Key -> Int]
<1>1. ASSUME NEW e, Persistent(e) PROVE Saved(e) = e
  <2>1. \A k \in Key : (IF k \in PERSISTED_ENV_VARS THEN e[k] ELSE Unset) = e[k]
    BY <1>1 DEF Persistent
  <2>2. e = [k \in Key |-> e[k]]
    BY <1>1 DEF Persistent
  <2> QED BY <2>1, <2>2 DEF Saved
<1>2. \A e \in [Key -> Int] : Persistent(Saved(e))
  BY DEF Persistent, Saved, Unset
<1>3. \A e \in [Key -> Int], device \in Int : WithFlag(e, device) \in [Key -> Int]
  BY DEF WithFlag
<1> QED BY <1>1, <1>2, <1>3

\* A start sets the variables of a shell, a supervisor's those of the agent.
LEMMA BootStep ==
    ASSUME EnvInv, OperatorStart \/ Respawn \/ DeviceFlag
    PROVE  EnvInv'
<1>1. EnvTypes /\ Boots /\ SeenTrue
  BY DEF EnvInv
<1>2. CASE OperatorStart
  <2>1. PICK e \in Shell, device \in {Unset, Cpu, Gpu} : StartProcess(e, device)
    BY <1>2 DEF OperatorStart
  <2>2. /\ stage = "down" /\ stage' = "flag" /\ env' = e /\ flag' = device
        /\ UNCHANGED <<limit, embedder, env_file, agent, refused, ram, pinned>>
        /\ lasts' = (agent = Bare) /\ seen' = IF agent = Bare THEN Unseen ELSE seen
    BY <1>2, <2>1 DEF OperatorStart, StartProcess, outside
  <2>3. EnvTypes'
    BY <1>1, <2>1, <2>2, EnvAssumption DEF EnvTypes, Starting, Persistent, Unseen
  <2>4. agent = Bare => NoneSeen'
    BY <2>2 DEF NoneSeen, Unseen
  <2>5. Boots' /\ SeenTrue' /\ Resolved'
    BY <1>1, <2>2, <2>4 DEF Boots, Starting, SeenTrue, Resolved, Back, NoneSeen
  <2> QED BY <2>3, <2>5 DEF EnvInv
<1>3. CASE Respawn
  <2>1. /\ stage = "down" /\ stage' = "flag" /\ env' = agent /\ flag' = Unset /\ lasts' = TRUE
        /\ UNCHANGED <<limit, embedder, env_file, agent, refused, ram, pinned, seen>>
    BY <1>3 DEF Respawn, StartProcess, outside
  <2>2. EnvTypes'
    BY <1>1, <2>1, Keys DEF EnvTypes, Starting, Persistent
  <2>3. env'.explicit = Unset
    BY <1>1, <2>1, Keys DEF EnvTypes, Persistent
  <2>4. Boots' /\ SeenTrue' /\ Resolved'
    BY <1>1, <2>1, <2>3 DEF Boots, Starting, SeenTrue, Resolved, Back
  <2> QED BY <2>2, <2>4 DEF EnvInv
<1>4. CASE DeviceFlag
  <2>1. /\ stage = "flag" /\ stage' = "save" /\ env' = WithFlag(env, flag)
        /\ UNCHANGED <<flag, env_file, agent, refused, ram, limit, embedder, pinned, lasts, seen>>
    BY <1>4 DEF DeviceFlag, unmoved, outside, envHistory
  <2>2. env \in [Key -> Int] /\ env' \in [Key -> Int]
    BY <1>1, <2>1, SavedIs DEF EnvTypes, Unset, Cpu, Gpu
  <2>3. EnvTypes'
    BY <1>1, <2>1, <2>2 DEF EnvTypes, Starting, Persistent
  <2>4. flag = Unset => env' = env
    BY <2>1, <2>2, Keys DEF WithFlag
  <2>5. env'.explicit = env.explicit
    BY <2>1, <2>2, Keys DEF WithFlag
  <2>6. Boots' /\ SeenTrue' /\ Resolved'
    BY <1>1, <2>1, <2>4, <2>5 DEF Boots, Starting, SeenTrue, Resolved, Back, NoneSeen
  <2> QED BY <2>3, <2>6 DEF EnvInv
<1> QED BY <1>2, <1>3, <1>4

\* daemon.env is written by a start that nobody has seen yet, or with what it had.
LEMMA SaveStep ==
    ASSUME EnvInv, Save \/ Write \/ SaveFails
    PROVE  EnvInv'
<1>1. EnvTypes /\ Boots /\ SeenTrue
  BY DEF EnvInv
<1>2. UNCHANGED <<env, flag, agent, refused, ram, limit, embedder, pinned, seen>>
  BY DEF Save, Write, SaveFails, unmoved, outside, envHistory
<1>3. Persistent(Saved(env)) /\ Saved(env)' = Saved(env) /\ (NoneSeen <=> NoneSeen')
  BY <1>1, <1>2, SavedIs DEF EnvTypes, Saved, NoneSeen
<1>4. agent # Bare => Back' = Back
  BY <1>2 DEF Back
<1>5. Persistent(Bare) /\ Saved(agent) = agent
  BY <1>1, Keys, SavedIs DEF EnvTypes, Persistent
<1>6. CASE Save
  <2>1. lasts' = lasts /\ stage = "save"
    BY <1>6 DEF Save, envHistory
  <2>2. CASE Saved(env) = Bare
    <3>1. stage' = "load" /\ env_file' = env_file
      BY <1>6, <2>2 DEF Save
    <3>2. EnvTypes'
      BY <1>1, <1>2, <2>1, <3>1 DEF EnvTypes, Starting, Persistent
    <3>3. lasts => agent = Bare
      BY <1>1, <1>5, <2>1, <2>2 DEF Boots
    <3>4. Boots' /\ SeenTrue' /\ Resolved'
      BY <1>1, <1>2, <1>3, <2>1, <2>2, <3>1, <3>3 DEF Boots, Starting, SeenTrue, Resolved, Back
    <3> QED BY <3>2, <3>4 DEF EnvInv
  <2>3. CASE Saved(env) # Bare
    <3>1. stage' = "write" /\ env_file' = Bare
      BY <1>6, <2>3 DEF Save
    <3>2. EnvTypes'
      BY <1>1, <1>2, <1>5, <2>1, <3>1 DEF EnvTypes, Starting, Persistent
    <3>3. agent = Bare => NoneSeen
      BY <1>1, <2>1, <2>3, Keys DEF Boots
    <3>4. Boots' /\ Resolved'
      BY <1>1, <1>2, <1>3, <2>1, <3>1, <3>3 DEF Boots, Starting, Resolved
    <3>5. SeenTrue'
      BY <1>1, <1>2, <1>4, <3>3 DEF SeenTrue, NoneSeen
    <3> QED BY <3>2, <3>4, <3>5 DEF EnvInv
  <2> QED BY <2>2, <2>3
<1>7. CASE Write
  <2>1. stage = "write" /\ stage' = "load" /\ env_file' = Saved(env) /\ lasts' = lasts
    BY <1>7 DEF Write, envHistory
  <2>2. EnvTypes'
    BY <1>1, <1>2, <1>3, <2>1 DEF EnvTypes, Starting, Persistent
  <2>3. agent = Bare => NoneSeen
    BY <1>1, <2>1 DEF Boots
  <2>4. lasts /\ agent # Bare => env = agent /\ Saved(env) = agent
    BY <1>1, <1>5, <2>1 DEF Boots
  <2>5. Boots' /\ Resolved'
    BY <1>1, <1>2, <1>3, <2>1, <2>4 DEF Boots, Starting, Resolved
  <2>6. SeenTrue'
    BY <1>1, <1>2, <1>4, <2>3 DEF SeenTrue, NoneSeen
  <2> QED BY <2>2, <2>5, <2>6 DEF EnvInv
<1>8. CASE SaveFails
  <2>1. stage # "up" /\ stage' = "load" /\ lasts' = FALSE /\ env_file' = env_file
    BY <1>8 DEF SaveFails
  <2>2. EnvTypes'
    BY <1>1, <1>2, <2>1 DEF EnvTypes, Starting, Persistent
  <2>3. Boots' /\ Resolved'
    BY <2>1 DEF Boots, Resolved
  <2>4. Back' = Back
    BY <1>2, <2>1 DEF Back
  <2>5. SeenTrue'
    BY <1>1, <1>2, <2>4 DEF SeenTrue
  <2> QED BY <2>2, <2>3, <2>5 DEF EnvInv
<1> QED BY <1>6, <1>7, <1>8

\* After load_daemon_env the persisted variables of a start that lasts are those a
\* restart will find, whether they were written just now or are of an earlier start.
LEMMA LoadStep ==
    ASSUME EnvInv, Load
    PROVE  EnvInv'
<1>1. EnvTypes /\ Boots /\ SeenTrue
  BY DEF EnvInv
<1>2. /\ stage = "load" /\ stage' = "resolve"
      /\ env' = [k \in Key |-> IF env[k] = Unset THEN env_file[k] ELSE env[k]]
      /\ pinned' = {k \in Key : env'[k] # Unset}
      /\ UNCHANGED <<flag, env_file, agent, refused, ram, limit, embedder, lasts, seen>>
  BY DEF Load, unmoved, outside, envHistory
<1>3. EnvTypes'
  BY <1>1, <1>2 DEF EnvTypes, Starting, Persistent
<1>4. Back' = Back /\ Back \in [Key -> Int] /\ (\A k \in Key \ PERSISTED_ENV_VARS : Back[k] = Unset)
  BY <1>1, <1>2 DEF Back, EnvTypes, Persistent
<1>5. ASSUME lasts, NEW k \in PERSISTED_ENV_VARS PROVE env'[k] = Back[k]
  <2>1. k \in Key /\ Saved(env)[k] = env[k] /\ Bare[k] = Unset
    BY Keys DEF Saved
  <2>2. CASE agent = Bare
    <3>1. Saved(env) \in {env_file, Bare} /\ Back = env_file
      BY <1>1, <1>2, <1>5, <2>2 DEF Boots, Back
    <3>2. env[k] = env_file[k] \/ env[k] = Unset
      BY <2>1, <3>1
    <3> QED BY <1>2, <2>1, <3>1, <3>2
  <2>3. CASE agent # Bare
    <3>1. env = Back /\ env_file = Back
      BY <1>1, <1>2, <1>5, <2>3 DEF Boots, Back
    <3> QED BY <1>2, <2>1, <3>1
  <2> QED BY <2>2, <2>3
<1>6. lasts => Saved(env)' = Back
  <2> SUFFICES ASSUME lasts PROVE Saved(env)' = Back
    OBVIOUS
  <2>1. \A k \in Key : Saved(env)'[k] = Back[k]
    BY <1>4, <1>5 DEF Saved
  <2>2. Saved(env)' = [k \in Key |-> Saved(env)'[k]]
    BY DEF Saved
  <2>3. Back = [k \in Key |-> Back[k]]
    BY <1>4
  <2> QED BY <2>1, <2>2, <2>3
<1>7. env.explicit = Unset => env'.explicit = Unset
  <2>1. env_file.explicit = Unset /\ "explicit" \in Key
    BY <1>1, Keys DEF EnvTypes, Persistent
  <2> QED BY <1>2, <2>1
<1>8. NoneSeen => NoneSeen'
  BY <1>2 DEF NoneSeen
<1>9. Boots' /\ SeenTrue' /\ Resolved'
  BY <1>1, <1>2, <1>4, <1>6, <1>7, <1>8 DEF Boots, Starting, SeenTrue, Resolved
<1> QED BY <1>3, <1>9 DEF EnvInv

\* An agent that is installed anew and a start that is refused take what has been seen
\* with them, where restarts go by what they write.
LEMMA OutsideEnvStep ==
    ASSUME EnvInv, InstallService \/ RefusedStart \/ RefusedWrites \/ RefusedDies
    PROVE  EnvInv'
<1>1. EnvTypes /\ Boots /\ SeenTrue /\ Resolved
  BY DEF EnvInv
<1>2. /\ UNCHANGED <<stage, env, flag, limit, embedder, pinned, ram>>
      /\ Caps' = Caps /\ (BatchResolved => BatchResolved')
  BY DEF InstallService, RefusedStart, RefusedWrites, RefusedDies, Rewritten, envProcess, Caps,
         BatchResolved
<1>3. CASE InstallService
  <2>1. PICK e \in Shell : agent' = Saved(e)
    BY <1>3 DEF InstallService
  <2>2. lasts' = FALSE /\ seen' = Unseen /\ env_file' = env_file /\ refused' = refused
    BY <1>3 DEF InstallService
  <2>3. Persistent(agent')
    BY <2>1, EnvAssumption, SavedIs
  <2>4. EnvTypes'
    BY <1>1, <1>2, <2>2, <2>3 DEF EnvTypes, Starting, Persistent, Unseen
  <2>5. NoneSeen'
    BY <2>2 DEF NoneSeen, Unseen
  <2>6. Boots' /\ SeenTrue' /\ Resolved'
    BY <1>1, <1>2, <2>2, <2>5 DEF Boots, SeenTrue, NoneSeen, Resolved
  <2> QED BY <2>4, <2>6 DEF EnvInv
<1>4. CASE RefusedStart \/ RefusedWrites
  <2>1. /\ lasts' = (lasts /\ stage = "up") /\ agent' = agent
        /\ seen' = IF agent = Bare THEN Unseen ELSE seen
    BY <1>4 DEF RefusedStart, RefusedWrites, Rewritten
  <2>2. Persistent(env_file') /\ Persistent(refused')
    <3>1. Persistent(Bare)
      BY Keys DEF Persistent
    <3>2. CASE RefusedStart
      <4>1. env_file' = Bare
        BY <3>2 DEF RefusedStart
      <4>2. CASE refused' = agent
        BY <1>1, <3>1, <4>1, <4>2 DEF EnvTypes
      <4>3. CASE refused' # agent
        <5>1. PICK e \in Shell, device \in {Unset, Cpu, Gpu} : refused' = Saved(WithFlag(e, device))
          BY <3>2, <4>3 DEF RefusedStart
        <5>2. e \in [Key -> Int] /\ device \in Int
          BY EnvAssumption DEF Unset, Cpu, Gpu
        <5> QED BY <3>1, <4>1, <5>1, <5>2, SavedIs
      <4> QED BY <4>2, <4>3
    <3>3. CASE RefusedWrites
      BY <1>1, <3>1, <3>3 DEF RefusedWrites, EnvTypes
    <3> QED BY <1>4, <3>2, <3>3
  <2>3. EnvTypes'
    BY <1>1, <1>2, <2>1, <2>2 DEF EnvTypes, Starting, Persistent, Unseen
  <2>4. /\ agent = Bare => NoneSeen'
        /\ agent # Bare => seen' = seen /\ Back' = Back /\ (NoneSeen => NoneSeen')
    BY <2>1 DEF NoneSeen, Unseen, Back
  <2>5. Boots'
    BY <1>1, <1>2, <2>1, <2>4 DEF Boots, Starting
  <2>6. SeenTrue' /\ Resolved'
    BY <1>1, <1>2, <2>1, <2>3, <2>4 DEF SeenTrue, Resolved, NoneSeen, EnvTypes
  <2> QED BY <2>3, <2>5, <2>6 DEF EnvInv
<1>5. CASE RefusedDies
  <2>1. UNCHANGED <<env_file, agent, lasts, seen>> /\ refused' = Bare
    BY <1>5 DEF RefusedDies, envHistory
  <2>2. EnvTypes'
    BY <1>1, <1>2, <2>1, Keys DEF EnvTypes, Starting, Persistent
  <2>3. Boots' /\ SeenTrue' /\ Resolved'
    BY <1>1, <1>2, <2>1 DEF Boots, Starting, SeenTrue, Resolved, Back, NoneSeen, Saved
  <2> QED BY <2>2, <2>3 DEF EnvInv
<1> QED BY <1>3, <1>4, <1>5

\* The policy is resolved from what a restart finds too.
LEMMA ResolveStep ==
    ASSUME EnvInv, ResolvePolicy
    PROVE  EnvInv'
<1>1. EnvTypes /\ Boots /\ SeenTrue
  BY DEF EnvInv
<1>2. /\ stage = "resolve" /\ env' = apply_to_env(Policy(ram, env))
      /\ UNCHANGED <<flag, env_file, agent, refused, ram, limit, pinned, lasts>>
  BY DEF ResolvePolicy, unmoved, outside
<1>3. ram \in Nat /\ env \in [Key -> Int] /\ ram \in Ram
  BY <1>1, EnvAssumption DEF EnvTypes
<1>4. /\ env' \in [Key -> Int] /\ Caps' = EffectiveCaps(ram, env)
      /\ env'.limit = Policy(ram, env).limit /\ env'.chunks = Policy(ram, env).chunks
      /\ env'.cache = Policy(ram, env).cache /\ env'.bm25 = Policy(ram, env).bm25
      /\ env'.batch = Policy(ram, env).batch /\ env'.explicit = env.explicit
  BY <1>2, <1>3, Applied
<1>5. limit = Unset
  BY <1>1, <1>2 DEF EnvTypes
<1>6. CASE ram < MIN_RAM_MB
  <2>1. stage' = "down" /\ UNCHANGED <<embedder, seen>>
    BY <1>6 DEF ResolvePolicy
  <2>2. EnvTypes'
    BY <1>1, <1>2, <1>4, <1>5, <2>1 DEF EnvTypes, Persistent
  <2>3. Boots' /\ SeenTrue' /\ Resolved'
    BY <1>1, <1>2, <2>1 DEF Boots, Starting, SeenTrue, Resolved, Back
  <2> QED BY <2>2, <2>3 DEF EnvInv
<1>7. CASE ~(ram < MIN_RAM_MB)
  <2>1. /\ stage' = "up" /\ embedder' = "loading"
        /\ seen' = IF lasts /\ env.explicit # 1 /\ seen[ram] = NoCaps
                   THEN [seen EXCEPT ![ram] = Caps'] ELSE seen
    BY <1>7 DEF ResolvePolicy
  <2>2. EnvTypes'
    BY <1>1, <1>2, <1>4, <1>5, <2>1 DEF EnvTypes, Persistent
  <2>3. Boots'
    BY <2>1 DEF Boots, Starting
  <2>4. lasts /\ env.explicit # 1 => Caps' = EffectiveCaps(ram, Back)
    BY <1>1, <1>2, <1>3, <1>4, Alike DEF Boots
  <2>5. Back' = Back
    BY <1>2 DEF Back
  <2>6. SeenTrue'
    <3> SUFFICES ASSUME NEW r \in Ram, seen'[r] # NoCaps
                 PROVE  seen'[r] = EffectiveCaps(r, Back)
      BY <1>2, <2>5 DEF SeenTrue
    <3>1. CASE lasts /\ env.explicit # 1 /\ seen[ram] = NoCaps /\ r = ram
      BY <1>1, <2>1, <2>4, <3>1 DEF EnvTypes
    <3>2. CASE ~(lasts /\ env.explicit # 1 /\ seen[ram] = NoCaps /\ r = ram)
      BY <1>1, <2>1, <3>2 DEF EnvTypes, SeenTrue
    <3> QED BY <3>1, <3>2
  <2>7. lasts' /\ seen'[ram] # NoCaps => Caps' = EffectiveCaps(ram, Back')
    <3> SUFFICES ASSUME lasts, seen'[ram] # NoCaps PROVE env.explicit # 1
      BY <1>2, <2>4, <2>5
    <3>1. CASE seen[ram] = NoCaps
      BY <2>1, <3>1
    <3>2. CASE seen[ram] # NoCaps
      BY <1>1, <1>2, <1>3, <3>2 DEF Boots, Starting, NoneSeen, Unset
    <3> QED BY <3>1, <3>2
  <2>8. \A k \in Key : k \in pinned' <=> env[k] # Unset
    BY <1>1, <1>2 DEF Boots
  <2> DEFINE p == Policy(ram, env)
             cap == batch_size_hard_cap(Tier(ram))
  <2>9. /\ p.limit = env_override_usize(env.limit, compute_memory_limit_mb(ram))
        /\ p.chunks = env_override_usize(env.chunks, compute_max_chunks(p.limit))
        /\ p.cache = env_override_usize(env.cache, TierDefaults(Tier(ram)).cache)
        /\ p.bm25 = env_override_usize(env.bm25, TierDefaults(Tier(ram)).bm25)
        /\ p.batch = IF RawBatch(ram, env) > cap /\ ~(env.explicit = 1 /\ env.batch # Unset)
                     THEN cap ELSE RawBatch(ram, env)
        /\ p.limit \in Nat /\ p.chunks \in Nat /\ p.cache \in Nat /\ p.bm25 \in Nat
        /\ p.batch \in Nat /\ RawBatch(ram, env) \in Nat
    BY <1>3, PolicyIs
  <2>10. RawBatch(ram, env) = env_override_usize(env.batch, compute_max_batch_size(p.limit))
    BY DEF RawBatch
  <2>11. cap \in Nat
    BY <1>3, Computed
  <2> HIDE DEF p, cap
  <2>12. \A v \in {Unset} : \A d : env_override_usize(v, d) = d
    BY DEF env_override_usize, Unset
  <2>13. /\ "limit" \notin pinned' => p.limit = compute_memory_limit_mb(ram)
         /\ "chunks" \notin pinned' => p.chunks = compute_max_chunks(p.limit)
         /\ "cache" \notin pinned' => p.cache = TierDefaults(Tier(ram)).cache
         /\ "bm25" \notin pinned' => p.bm25 = TierDefaults(Tier(ram)).bm25
         /\ "batch" \notin pinned' => /\ env.batch = Unset
                                      /\ RawBatch(ram, env) = compute_max_batch_size(p.limit)
    BY <2>8, <2>9, <2>10, <2>12, Keys
  <2>14. \A k \in Numbers : env'[k] >= 0
    BY <1>4, <2>9 DEF Numbers, p
  <2>15. /\ env.explicit # 1 => p.batch <= cap
         /\ env.batch = Unset => p.batch \in {cap, RawBatch(ram, env)}
         /\ env.batch = Unset => p.batch <= RawBatch(ram, env)
    BY <2>9, <2>11
  <2>16. BatchResolved'
    BY <1>2, <1>4, <2>13, <2>15 DEF BatchResolved, p, cap
  <2>17. Resolved'
    BY <1>2, <1>4, <1>5, <2>7, <2>13, <2>14, <2>16 DEF Resolved, p
  <2> QED BY <2>2, <2>3, <2>6, <2>17 DEF EnvInv
<1> QED BY <1>6, <1>7

\* Reading the limit changes nothing else, and a GPU only the batch size.
LEMMA RunStep ==
    ASSUME EnvInv, ReadLimit \/ EmbedderUp \/ ProcessEnds
    PROVE  EnvInv'
<1>1. EnvTypes /\ Boots /\ SeenTrue /\ Resolved
  BY DEF EnvInv
<1>2. CASE ReadLimit
  <2>1. /\ stage = "up" /\ limit' = memory_limit_mb(env.limit)
        /\ UNCHANGED <<stage, env, flag, env_file, agent, refused, ram, embedder, pinned, lasts, seen>>
    BY <1>2 DEF ReadLimit, unmoved, outside, envHistory
  <2>2. EnvTypes' /\ Boots' /\ SeenTrue'
    BY <1>1, <2>1 DEF EnvTypes, Persistent, Boots, Starting, SeenTrue, Back
  <2>3. Caps' = Caps /\ (BatchResolved => BatchResolved')
    BY <2>1 DEF Caps, BatchResolved
  <2>4. Resolved'
    BY <1>1, <2>1, <2>3 DEF Resolved, Back
  <2> QED BY <2>2, <2>4 DEF EnvInv
<1>3. CASE EmbedderUp
  <2>1. PICK provider \in {"cpu", "gpu"} :
           embedder' = provider /\ env' = tune_batch_size_for_provider(provider)
    BY <1>3 DEF EmbedderUp
  <2>2. stage = "up" /\ embedder = "loading"
        /\ UNCHANGED <<stage, flag, env_file, agent, refused, ram, limit, pinned, lasts, seen>>
    BY <1>3 DEF EmbedderUp, unmoved, outside, envHistory
  <2>3. env \in [Key -> Int]
    BY <1>1 DEF EnvTypes
  <2>4. /\ env' \in [Key -> Int] /\ \A k \in Key \ {"batch"} : env'[k] = env[k]
        /\ env'.batch = env.batch \/ env'.batch = 512
        /\ provider = "cpu" => env' = env
    BY <2>1, <2>3, Keys DEF tune_batch_size_for_provider
  <2>5. EnvTypes' /\ Boots' /\ SeenTrue'
    BY <1>1, <2>1, <2>2, <2>4 DEF EnvTypes, Persistent, Boots, Starting, SeenTrue, Back
  <2>6. CASE provider = "cpu"
    <3>1. Caps' = Caps /\ (BatchResolved => BatchResolved')
      BY <2>2, <2>4, <2>6 DEF Caps, BatchResolved
    <3>2. Resolved'
      BY <1>1, <2>1, <2>2, <2>4, <2>6, <3>1 DEF Resolved, Back
    <3> QED BY <2>5, <3>2 DEF EnvInv
  <2>7. CASE provider = "gpu"
    <3>1. /\ env'.limit = env.limit /\ env'.chunks = env.chunks /\ env'.cache = env.cache
          /\ env'.bm25 = env.bm25
      BY <2>4, Keys
    <3>2. \A k \in Numbers : env'[k] >= 0
      BY <1>1, <2>2, <2>4, Keys DEF Resolved, Numbers
    <3>3. Resolved'
      BY <1>1, <2>1, <2>2, <2>7, <3>1, <3>2 DEF Resolved
    <3> QED BY <2>5, <3>3 DEF EnvInv
  <2> QED BY <2>1, <2>6, <2>7
<1>4. CASE ProcessEnds
  <2>1. /\ stage' = "down" /\ env' = Bare /\ flag' = Unset /\ limit' = Unset
        /\ embedder' = "none" /\ pinned' = {} /\ ram' \in Ram
        /\ UNCHANGED <<env_file, agent, refused, lasts, seen>>
    BY <1>4 DEF ProcessEnds, unmoved, outside, envHistory
  <2>2. EnvTypes'
    BY <1>1, <2>1, Keys DEF EnvTypes, Persistent
  <2>3. Boots' /\ SeenTrue' /\ Resolved'
    BY <1>1, <2>1 DEF Boots, Starting, SeenTrue, Resolved, Back
  <2> QED BY <2>2, <2>3 DEF EnvInv
<1> QED BY <1>2, <1>3, <1>4

-----------------------------------------------------------------------------
(* The theorem.                                                            *)

\* Nothing has been set before the first start,
LEMMA InitEnvInv == EnvInit => EnvInv
<1> SUFFICES ASSUME EnvInit PROVE EnvInv
  OBVIOUS
<1>1. PICK e \in Shell \cup {Bare} : agent = Saved(e)
  BY DEF EnvInit
<1>2. Persistent(agent) /\ Persistent(Bare)
  BY <1>1, EnvAssumption, SavedIs, Keys DEF Persistent
<1>3. EnvTypes
  BY <1>2, Keys DEF EnvInit, EnvTypes, Starting, Unseen, Persistent
<1>4. Boots /\ SeenTrue /\ Resolved
  BY DEF EnvInit, Boots, Starting, SeenTrue, Resolved, Unseen
<1> QED BY <1>3, <1>4 DEF EnvInv

\* and every step preserves the invariant.
LEMMA NextEnvInv == EnvInv /\ [EnvNext]_evars => EnvInv'
<1> SUFFICES ASSUME EnvInv, [EnvNext]_evars PROVE EnvInv'
  OBVIOUS
<1>1. CASE UNCHANGED evars
  <2>1. UNCHANGED <<stage, env, flag, limit, embedder, pinned, env_file, agent, refused, ram,
                    lasts, seen>>
    BY <1>1 DEF evars, envProcess, outside, envHistory
  <2>2. EnvTypes' /\ Boots' /\ SeenTrue'
    BY <2>1 DEF EnvInv, EnvTypes, Persistent, Boots, Starting, SeenTrue, Saved, Back, NoneSeen
  <2>3. Caps' = Caps /\ (BatchResolved => BatchResolved')
    BY <2>1 DEF Caps, BatchResolved
  <2>4. Resolved'
    BY <2>1, <2>3 DEF EnvInv, Resolved, Back
  <2> QED BY <2>2, <2>4 DEF EnvInv
<1> QED BY <1>1, OutsideEnvStep, BootStep, SaveStep, LoadStep, ResolveStep, RunStep DEF EnvNext

\* What follows for a running daemon: restarts are alike,
LEMMA RestartIsAlike == EnvInv => RestartsAlike
<1> SUFFICES ASSUME EnvInv, Up, lasts, seen[ram] # NoCaps PROVE Caps = seen[ram]
  BY DEF RestartsAlike
<1>1. ram \in Ram
  BY DEF EnvInv, EnvTypes
<1>2. seen[ram] = EffectiveCaps(ram, Back)
  BY <1>1 DEF EnvInv, SeenTrue
<1>3. Caps = EffectiveCaps(ram, Back)
  BY DEF EnvInv, Resolved, Up
<1> QED BY <1>2, <1>3

\* the embedder's arena fits, and the tier's cap holds,
LEMMA BatchFits == EnvInv => ArenaWithinLimit /\ TierCapHolds
<1> SUFFICES ASSUME EnvInv, Up PROVE ArenaWithinLimit /\ TierCapHolds
  BY DEF ArenaWithinLimit, TierCapHolds
<1> DEFINE cap == batch_size_hard_cap(Tier(ram))
           slots == compute_max_batch_size(env.limit)
           l == env.limit
           b == env.batch
<1>1. ram \in Nat /\ l \in Nat /\ b \in Nat
  <2>1. env.limit \in Int /\ env.batch \in Int /\ env.limit >= 0 /\ env.batch >= 0
    BY Keys DEF EnvInv, EnvTypes, Resolved, Up, Numbers
  <2>2. ram \in Nat
    BY EnvAssumption DEF EnvInv, EnvTypes
  <2> QED BY <2>1, <2>2
<1>2. cap \in {16, 32, 64} /\ slots \in Nat /\ slots >= 8 /\ slots <= 64
  <2>1. \A k \in Nat : k \in Int
    OBVIOUS
  <2>2. l \in Int
    BY <1>1, <2>1
  <2> HIDE DEF l
  <2> QED BY <1>1, <2>2, Computed DEF l
<1>3. /\ env.explicit # 1 => b <= cap
      /\ "batch" \notin pinned => b \in {cap, slots} /\ b <= slots
  BY DEF EnvInv, Resolved, BatchResolved, Up
<1>4. Caps.batch = embed_batch_size(b) /\ Caps.limit = memory_limit_mb(l)
  BY DEF Caps
<1>5. slots = Clamp(((l * 75) \div 100) \div 200, 8, 64)
  BY DEF compute_max_batch_size
<1> HIDE DEF cap, slots, l, b
<1>6. TierCapHolds
  <2> SUFFICES ASSUME env.explicit # 1, b # 0 PROVE Caps.batch <= cap
    BY DEF TierCapHolds, b, cap
  <2> QED BY <1>1, <1>2, <1>3, <1>4 DEF embed_batch_size, Clamp
<1>7. ArenaWithinLimit
  <2> SUFFICES ASSUME "batch" \notin pinned, Caps.limit # NoLimit
               PROVE  Caps.batch = 8 \/ Caps.batch * 200 * 100 <= Caps.limit * 75
    BY DEF ArenaWithinLimit
  <2>1. Caps.limit = l
    BY <1>1, <1>4 DEF memory_limit_mb, env_override_usize
  <2>2. Caps.batch = b /\ b >= 8
    BY <1>1, <1>2, <1>3, <1>4 DEF embed_batch_size, Clamp
  <2>3. slots = 8 \/ slots <= ((l * 75) \div 100) \div 200
    BY <1>1, <1>5 DEF Clamp
  <2>4. slots * 200 * 100 <= l * 75 \/ slots = 8
    BY <1>1, <1>2, <2>3
  <2> QED BY <1>1, <1>2, <1>3, <2>1, <2>2, <2>4
<1> QED BY <1>6, <1>7

\* and the readers see what the policy resolved.
LEMMA ReadersFollow == EnvInv => ReadersFollowPolicy
<1> SUFFICES ASSUME EnvInv, Up PROVE ReadersFollowPolicy
  BY DEF ReadersFollowPolicy
<1> DEFINE e == [k \in Key |-> IF k \in pinned THEN env[k] ELSE Unset]
           p == Policy(ram, e)
<1>1. ram \in Nat /\ env \in [Key -> Int] /\ stage = "up"
  BY EnvAssumption DEF EnvInv, EnvTypes, Up
<1>2. e \in [Key -> Int]
  BY <1>1 DEF Unset
<1>3. /\ env.limit >= 0 /\ env.chunks >= 0 /\ env.cache >= 0 /\ env.bm25 >= 0
      /\ "limit" \notin pinned => env.limit = compute_memory_limit_mb(ram)
      /\ "chunks" \notin pinned => env.chunks = compute_max_chunks(env.limit)
      /\ "cache" \notin pinned => env.cache = TierDefaults(Tier(ram)).cache
      /\ "bm25" \notin pinned => env.bm25 = TierDefaults(Tier(ram)).bm25
      /\ limit # Unset => limit = memory_limit_mb(env.limit)
  BY <1>1 DEF EnvInv, Resolved, Numbers
<1>4. \A k \in Key : e[k] = IF k \in pinned THEN env[k] ELSE Unset
  OBVIOUS
<1>5. /\ p.limit = env_override_usize(e.limit, compute_memory_limit_mb(ram))
      /\ p.chunks = env_override_usize(e.chunks, compute_max_chunks(p.limit))
      /\ p.cache = env_override_usize(e.cache, TierDefaults(Tier(ram)).cache)
      /\ p.bm25 = env_override_usize(e.bm25, TierDefaults(Tier(ram)).bm25)
  <2> HIDE DEF e
  <2> QED BY <1>1, <1>2, PolicyIs
<1> HIDE DEF e, p
<1>6. p.limit = env.limit
  BY <1>3, <1>4, <1>5, Keys DEF env_override_usize, Unset
<1>7. p.chunks = env.chunks /\ p.cache = env.cache /\ p.bm25 = env.bm25
  BY <1>3, <1>4, <1>5, <1>6, Keys DEF env_override_usize, Unset
<1>8. /\ limit # Unset => limit = memory_limit_mb(p.limit)
      /\ p.chunks > 0 => Caps.chunks = p.chunks /\ Caps.vectors = p.chunks
      /\ p.cache > 0 => Caps.cache = p.cache
      /\ p.bm25 > 0 => Caps.bm25 = p.bm25
  BY <1>3, <1>6, <1>7 DEF Caps, max_chunks_per_index, hnsw_max_elements, embedding_cache_cap,
     bm25_corpus_cap, Positive
<1> QED BY <1>8 DEF ReadersFollowPolicy, p, e

\* Whatever shells it is started from, whatever RAM it finds and wherever it is killed,
\* the supervisor's restarts of a daemon run alike, with the variables of the agent or,
\* where that has none, with those of the start that wrote daemon.env last; the caps fit
\* the memory it may use (memory_policy.rs, service.rs, daemon.rs).
THEOREM CapsAreSound == EnvSpec => []CapsSound
<1>1. EnvInit => EnvInv
  BY InitEnvInv
<1>2. EnvInv /\ [EnvNext]_evars => EnvInv'
  BY NextEnvInv
<1>3. EnvInv => CapsSound
  <2>1. EnvInv => EnvTypeOK
    BY DEF EnvInv, EnvTypes, Resolved, EnvTypeOK, Starting, Persistent
  <2> QED BY <2>1, RestartIsAlike, BatchFits, ReadersFollow DEF CapsSound
<1> QED BY <1>1, <1>2, <1>3, PTL DEF EnvSpec

-----------------------------------------------------------------------------
(* The watch loop.                                                         *)

\* No event of f is on its way to the loop.
Still(f) == f \notin touched /\ \A i \in DOMAIN queue : queue[i][2] # f

WatchTypes ==
    /\ handle \in Handles /\ disk \in [File -> Content \cup {Absent}]
    /\ touched \subseteq File /\ queue \in Seq({"Removed", "Modified"} \X File)
    /\ at \in Step /\ path \in File \cup {NoFile} /\ content \in Readable \cup {Absent}
    /\ at = "recv" => path = NoFile
    /\ at # "recv" => path \in File /\ content \in Readable
    /\ indexed_files \in [File -> (SUBSET Id) \cup {NotRecorded}]
    /\ index \in [File -> [Id -> Content \cup {Absent}]]
    /\ payload \in (File \X Readable) \cup {<<NoFile, Absent>>}

\* An event says whether its file exists, unless the file has changed again.
IsLast(i) == \A j \in DOMAIN queue : j > i => queue[j][2] # queue[i][2]
EventsTrue ==
    \A i \in DOMAIN queue : queue[i][2] \notin touched /\ IsLast(i) =>
        (queue[i][1] = "Removed" <=> disk[queue[i][2]] = Absent)

\* What the loop works with is the file as it is, unless it has changed again.
ReadTrue == at # "recv" /\ Still(path) => content = disk[path]

\* What is recorded, or about to be, is in the index.
Recorded ==
    /\ RecordedExist
    /\ at \in {"index", "record"} => indexed_files[path] = NotRecorded
    /\ at = "record" => \A i \in ChunksOf[content] : index[path][i] # Absent

\* The index has of f what is recorded of it: nothing, or the chunks of one content.
Nothing(f) == indexed_files[f] = NotRecorded /\ Stored(f) = {}
One(f) == \E c \in Readable : indexed_files[f] = ChunksOf[c] /\ Holds(f, c)
Owned ==
    \A f \in File \ (reindexed \cup broken) :
        IF at = "record" /\ f = path THEN Holds(f, content) ELSE Nothing(f) \/ One(f)

\* What Synced says, also while a run has read f.
Exact(f) ==
    /\ disk[f] = Absent => Stored(f) = {}
    /\ disk[f] \in Readable /\ Watched(handle, f, disk[f] \in Big) => Holds(f, disk[f])
InStep == \A f \in followed \ (reindexed \cup broken) : Still(f) /\ f # path => Exact(f)

\* What Fresh says, of all files the watch lets in.
Has(f, c) == \A i \in ChunksOf[c] : index[f][i] = c
Current ==
    /\ \A f \in followed \ (outdated \cup broken) :
           Still(f) /\ f # path /\ disk[f] \in Readable /\ Watched(handle, f, disk[f] \in Big)
           => Has(f, disk[f])
    /\ at = "record" /\ path \notin outdated \cup broken /\ Still(path) => Has(path, content)

WatchInv ==
    /\ WatchTypes /\ EventsTrue /\ ReadTrue /\ Recorded /\ Owned /\ InStep /\ Current
    /\ followed \subseteq File

-----------------------------------------------------------------------------
(* The filters.                                                            *)

\* Below a root and subtrees whose names are not to be skipped, a walk finds only what
\* the watch lets in too.
LEMMA WalkedIsWatched ==
  ASSUME handle \in Handles, Clean(handle), NEW f \in File, NEW big,
         collect_files_to_index(handle, f, big)
  PROVE  Watched(handle, f, big)
<1>1. PICK s \in (IF handle.include_paths = {} THEN {<<>>} ELSE handle.include_paths) :
         walk_source_files(s, f, big)
  BY DEF collect_files_to_index
<1>2. ~should_skip_path(f, big)
  BY <1>1 DEF walk_source_files
<1>3. s \in Seq(STRING) /\ f.dirs \in Seq(STRING)
  <2>1. handle.include_paths \subseteq Seq(STRING) /\ f.dirs \in Seq(STRING)
    BY WatchAssumption
  <2>2. <<>> \in Seq(STRING)
    OBVIOUS
  <2>q. QED  BY <1>1, <2>1, <2>2
<1>4. \A i \in DOMAIN s : s[i] \notin SKIP_DIRS
  <2>1. CASE s = <<>>
    BY <2>1
  <2>2. CASE s \in handle.include_paths
    BY <2>2 DEF Clean, Range
  <2>q. QED  BY <2>1, <2>2
<1>5. Len(s) <= Len(f.dirs) /\ SubSeq(s, 1, Len(s)) = SubSeq(f.dirs, 1, Len(s))
  BY <1>1 DEF walk_source_files, IsPrefix
<1>6. \A i \in DOMAIN f.dirs : f.dirs[i] \notin SKIP_DIRS
  <2> TAKE i \in DOMAIN f.dirs
  <2>1. CASE i > Len(s)
    BY <2>1, <1>1, <1>3 DEF walk_source_files
  <2>2. CASE i <= Len(s)
    <3>1. SubSeq(s, 1, Len(s))[i] = s[i] /\ SubSeq(f.dirs, 1, Len(s))[i] = f.dirs[i]
      BY <2>2, <1>3, <1>5
    <3>q. QED  BY <3>1, <2>2, <1>3, <1>4, <1>5
  <2>q. QED  BY <2>1, <2>2, <1>3
<1>7. ~path_in_skipped_dir(handle.above, f)
  BY <1>6 DEF Clean, path_in_skipped_dir, Range
<1>q. QED  BY <1>2, <1>7 DEF Watched

-----------------------------------------------------------------------------
(* What the loop does to the index.                                        *)

\* An index is updated at one file, and keeps its type.
LEMMA Removes ==
  ASSUME index \in [File -> [Id -> Content \cup {Absent}]], NEW f \in File, NEW ids,
         index' = remove_chunks(f, ids)
  PROVE  /\ index' \in [File -> [Id -> Content \cup {Absent}]]
         /\ \A g \in File \ {f} : index'[g] = index[g]
         /\ \A i \in Id : index'[f][i] = IF i \in ids THEN Absent ELSE index[f][i]
  BY DEF remove_chunks

\* Also when chunks are stored.
LEMMA Stores ==
  ASSUME index \in [File -> [Id -> Content \cup {Absent}]], NEW f \in File, NEW ids,
         NEW c \in Content, index' = store_chunks(f, ids, c)
  PROVE  /\ index' \in [File -> [Id -> Content \cup {Absent}]]
         /\ \A g \in File \ {f} : index'[g] = index[g]
         /\ \A i \in Id : index'[f][i] = IF i \in ids THEN c ELSE index[f][i]
  BY DEF store_chunks

\* Ids are no mark, contents are no absence.
LEMMA Marks ==
  /\ 0 \notin Id /\ Absent \notin Content /\ NoFile \notin File
  /\ \A c \in Content : ChunksOf[c] # NotRecorded /\ ChunksOf[c] \subseteq Id
  /\ Readable \subseteq Content
  BY WatchAssumption DEF Id, NotRecorded, Readable

\* What the map gives is taken out of the index, and is all there is of a file that only
\* the watch has stored.
LEMMA Takes ==
  ASSUME WatchTypes, RecordedExist, NEW f \in File, TakeStale(f)
  PROVE  /\ index' \in [File -> [Id -> Content \cup {Absent}]]
         /\ indexed_files' \in [File -> (SUBSET Id) \cup {NotRecorded}]
         /\ \A g \in File \ {f} : index'[g] = index[g] /\ indexed_files'[g] = indexed_files[g]
         /\ indexed_files'[f] = NotRecorded
         /\ RecordedExist'
         /\ Nothing(f) \/ One(f) => Stored(f)' = {}
<1>1. /\ index' \in [File -> [Id -> Content \cup {Absent}]]
      /\ \A g \in File \ {f} : index'[g] = index[g]
      /\ \A i \in Id : index'[f][i] = IF i \in indexed_files[f] THEN Absent ELSE index[f][i]
  <2>1. index' = remove_chunks(f, indexed_files[f])
    BY DEF TakeStale
  <2> HIDE DEF TakeStale
  <2>q. QED  BY <2>1, Removes DEF WatchTypes
<1>2. /\ indexed_files' \in [File -> (SUBSET Id) \cup {NotRecorded}]
      /\ \A g \in File \ {f} : indexed_files'[g] = indexed_files[g]
      /\ indexed_files'[f] = NotRecorded
  BY DEF TakeStale, WatchTypes
<1>3. RecordedExist'
  BY <1>1, <1>2 DEF RecordedExist
<1>4. Nothing(f) => Stored(f)' = {}
  BY <1>1, Marks DEF Nothing, Stored, NotRecorded
<1>5. One(f) => Stored(f)' = {}
  BY <1>1 DEF One, Holds, Stored
<1>q. QED  BY <1>1, <1>2, <1>3, <1>4, <1>5

-----------------------------------------------------------------------------
(* Files and events.                                                       *)

\* At the start nothing is stored, nothing is on its way.
LEMMA WatchStarts == ASSUME WatchInit PROVE WatchInv
<1>1. WatchTypes
  <2>1. indexed_files \in [File -> (SUBSET Id) \cup {NotRecorded}]
    BY DEF WatchInit, NothingRecorded
  <2>2. index \in [File -> [Id -> Content \cup {Absent}]]
    BY DEF WatchInit
  <2>3. disk \in [File -> Content \cup {Absent}]
    BY DEF WatchInit
  <2>q. QED  BY <2>1, <2>2, <2>3 DEF WatchInit, WatchTypes, Step
<1>2. EventsTrue /\ ReadTrue /\ InStep /\ Current /\ followed \subseteq File
  BY DEF WatchInit, EventsTrue, ReadTrue, InStep, Current
<1>3. \A f \in File : Nothing(f)
  BY DEF WatchInit, NothingRecorded, Nothing, Stored
<1>4. Recorded /\ Owned
  BY <1>3 DEF WatchInit, Recorded, RecordedExist, Owned, Nothing
<1>q. QED  BY <1>1, <1>2, <1>4 DEF WatchInv

\* A file that changes is not quiet.
LEMMA EditKeeps ==
  ASSUME WatchInv, NEW f \in File, NEW c \in Content \cup {Absent}, Edit(f, c)
  PROVE  WatchInv'
<1> USE DEF WatchInv
<1>1. /\ disk' = [disk EXCEPT ![f] = c] /\ touched' = touched \cup {f}
      /\ followed' = followed \cup {f}
      /\ UNCHANGED <<handle, queue, at, path, content, indexed_files, index, payload, reindexed,
                     outdated, broken>>
  BY DEF Edit, loop
<1>2. \A g : Still(g)' => Still(g) /\ g # f
  BY <1>1 DEF Still
<1>3. WatchTypes' /\ followed' \subseteq File
  BY <1>1 DEF WatchTypes
<1>4. EventsTrue' /\ ReadTrue'
  BY <1>1, <1>2 DEF WatchTypes, EventsTrue, IsLast, ReadTrue
<1>5. Recorded' /\ Owned'
  <2>1. \A g : Stored(g)' = Stored(g)
    BY <1>1 DEF Stored
  <2>q. QED  BY <1>1, <2>1 DEF Recorded, RecordedExist, Owned, Nothing, One, Holds
<1>6. \A g \in followed' : Still(g)' => g \in followed /\ Still(g) /\ disk'[g] = disk[g]
  BY <1>1, <1>2 DEF WatchTypes
<1>7. InStep'
  BY <1>1, <1>6 DEF InStep, Exact, Stored, Holds
<1>8. Current'
  BY <1>1, <1>2, <1>6 DEF Current, Has
<1>q. QED  BY <1>3, <1>4, <1>5, <1>7, <1>8

\* The event that is sent is the last of its file, and true of it.
LEMMA DebouncedKeeps == ASSUME WatchInv, NEW f \in File, Debounced(f) PROVE WatchInv'
<1> USE DEF WatchInv
<1> DEFINE e == <<IF disk[f] = Absent THEN "Removed" ELSE "Modified", f>>
<1>1. /\ touched' = touched \ {f} /\ queue' = Append(queue, e)
      /\ UNCHANGED <<handle, disk, at, path, content, indexed_files, index, payload, followed,
                     reindexed, outdated, broken>>
  BY DEF Debounced, loop, ghosts
<1>2. /\ e \in {"Removed", "Modified"} \X File /\ e[2] = f
      /\ e[1] = "Removed" <=> disk[f] = Absent
  OBVIOUS
<1> HIDE DEF e
<1>3. /\ queue' \in Seq({"Removed", "Modified"} \X File)
      /\ DOMAIN queue = 1..Len(queue) /\ DOMAIN queue' = 1..(Len(queue) + 1) /\ Len(queue) \in Nat
      /\ queue'[Len(queue) + 1] = e /\ \A i \in 1..Len(queue) : queue'[i] = queue[i]
  BY <1>1, <1>2 DEF WatchTypes
<1>4. \A g : Still(g)' => Still(g) /\ g # f
  <2> SUFFICES ASSUME NEW g, Still(g)' PROVE Still(g) /\ g # f
    OBVIOUS
  <2>1. g # f
    BY <1>2, <1>3 DEF Still
  <2>2. \A i \in DOMAIN queue : queue[i][2] # g
    BY <1>3 DEF Still
  <2>q. QED  BY <2>1, <2>2, <1>1 DEF Still
<1>5. WatchTypes' /\ followed' \subseteq File
  BY <1>1, <1>3 DEF WatchTypes
<1>6. EventsTrue'
  <2> SUFFICES ASSUME NEW i \in DOMAIN queue', queue'[i][2] \notin touched', IsLast(i)'
               PROVE  queue'[i][1] = "Removed" <=> disk[queue'[i][2]] = Absent
    BY <1>1 DEF EventsTrue
  <2>1. CASE i = Len(queue) + 1
    BY <2>1, <1>2, <1>3
  <2>2. CASE i \in 1..Len(queue)
    <3>1. queue'[i] = queue[i] /\ \A j \in 1..(Len(queue) + 1) : j > i => queue'[j][2] # queue[i][2]
      BY <2>2, <1>3 DEF IsLast
    <3>2. queue[i][2] # f
      <4>1. Len(queue) + 1 \in 1..(Len(queue) + 1) /\ Len(queue) + 1 > i
        BY ONLY <1>3, <2>2
      <4> QED BY ONLY <1>2, <1>3, <3>1, <4>1
    <3>3. IsLast(i)
      BY <3>1, <2>2, <1>3 DEF IsLast
    <3>4. queue[i][2] \notin touched
      BY <3>1, <3>2, <1>1
    <3>q. QED  BY <3>1, <3>3, <3>4, <2>2, <1>3 DEF EventsTrue
  <2>q. QED  BY <2>1, <2>2, <1>3
<1>7. ReadTrue'
  BY <1>1, <1>4 DEF ReadTrue
<1>8. Recorded' /\ Owned'
  <2>1. \A g : Stored(g)' = Stored(g)
    BY <1>1 DEF Stored
  <2>q. QED  BY <1>1, <2>1 DEF Recorded, RecordedExist, Owned, Nothing, One, Holds
<1>9. InStep' /\ Current'
  BY <1>1, <1>4 DEF InStep, Exact, Stored, Holds, Current, Has
<1>q. QED  BY <1>5, <1>6, <1>7, <1>8, <1>9

\* Taking an event leaves its file quiet only if the event is true of it.
LEMMA Pops ==
  ASSUME WatchTypes, EventsTrue, queue # <<>>, queue' = Tail(queue), touched' = touched,
         disk' = disk
  PROVE  /\ queue' \in Seq({"Removed", "Modified"} \X File) /\ EventsTrue'
         /\ Head(queue)[2] \in File
         /\ \A g : Still(g)' /\ g # Head(queue)[2] => Still(g)
         /\ \A g : Still(g)' /\ g = Head(queue)[2] =>
                (Head(queue)[1] = "Removed" <=> disk[g] = Absent)
<1> DEFINE n == Len(queue)
<1>1. /\ n \in Nat /\ n >= 1 /\ DOMAIN queue = 1..n /\ DOMAIN queue' = 1..(n - 1)
      /\ queue' \in Seq({"Removed", "Modified"} \X File)
      /\ \A i \in 1..(n - 1) : queue'[i] = queue[i + 1]
      /\ Head(queue) = queue[1] /\ queue[1] \in {"Removed", "Modified"} \X File
  BY DEF WatchTypes
<1> HIDE DEF n
<1>2. \A i \in 2..n : queue'[i - 1] = queue[i] /\ i - 1 \in 1..(n - 1)
  BY <1>1
<1>3. \A g : Still(g)' /\ g # queue[1][2] => Still(g)
  <2> SUFFICES ASSUME NEW g, Still(g)', g # queue[1][2] PROVE Still(g)
    OBVIOUS
  <2>1. \A i \in 1..(n - 1) : queue'[i][2] # g
    BY <1>1 DEF Still
  <2>2. \A i \in 2..n : queue[i][2] # g
    BY <2>1, <1>2
  <2>q. QED  BY <2>2, <1>1 DEF Still
<1>4. \A g : Still(g)' /\ g = queue[1][2] => (queue[1][1] = "Removed" <=> disk[g] = Absent)
  <2> SUFFICES ASSUME NEW g, Still(g)', g = queue[1][2]
               PROVE  queue[1][1] = "Removed" <=> disk[g] = Absent
    OBVIOUS
  <2>1. g \notin touched /\ \A i \in 1..(n - 1) : queue'[i][2] # g
    BY <1>1 DEF Still
  <2>2. \A i \in 2..n : queue[i][2] # g
    BY <2>1, <1>2
  <2>3. IsLast(1)
    BY <2>2, <1>1 DEF IsLast
  <2>q. QED  BY <2>1, <2>3, <1>1 DEF EventsTrue
<1>5. EventsTrue'
  <2> SUFFICES ASSUME NEW i \in DOMAIN queue', queue'[i][2] \notin touched, IsLast(i)'
               PROVE  queue'[i][1] = "Removed" <=> disk[queue'[i][2]] = Absent
    BY DEF EventsTrue
  <2>0. i \in 1..(n - 1) /\ i + 1 \in 1..n
    <3>1. DOMAIN queue' = 1..(n - 1) /\ n \in Nat
      BY <1>1
    <3>q. QED  BY <3>1
  <2>1. queue'[i] = queue[i + 1] /\ \A j \in 1..(n - 1) : j > i => queue'[j][2] # queue[i + 1][2]
    BY <2>0, <1>1 DEF IsLast
  <2>2. \A j \in 2..n : j > i + 1 => queue[j][2] # queue[i + 1][2]
    <3> SUFFICES ASSUME NEW j \in 2..n, j > i + 1 PROVE queue[j][2] # queue[i + 1][2]
      OBVIOUS
    <3>1. j - 1 \in 1..(n - 1) /\ j - 1 > i /\ queue'[j - 1] = queue[j]
      BY <2>0, <1>2, <1>1
    <3>q. QED  BY <3>1, <2>1
  <2>3. IsLast(i + 1)
    <3>1. \A j \in 1..n : j > i + 1 => j \in 2..n
      BY <2>0, <1>1
    <3>q. QED  BY <3>1, <2>2, <1>1 DEF IsLast
  <2>q. QED  BY <2>0, <2>1, <2>3, <1>1 DEF EventsTrue
<1>q. QED  BY <1>1, <1>3, <1>4, <1>5

-----------------------------------------------------------------------------
(* The loop's steps.                                                       *)

\* Files whose chunks and record stay are as they were.
LEMMA Untouched ==
  ASSUME NEW g, index'[g] = index[g], indexed_files'[g] = indexed_files[g]
  PROVE  /\ Stored(g)' = Stored(g) /\ Nothing(g)' = Nothing(g) /\ One(g)' = One(g)
         /\ \A c : Holds(g, c)' = Holds(g, c) /\ Has(g, c)' = Has(g, c)
<1>1. Stored(g)' = Stored(g)
  BY DEF Stored
<1>2. \A c : Holds(g, c)' = Holds(g, c) /\ Has(g, c)' = Has(g, c)
  BY <1>1 DEF Holds, Has
<1>3. Nothing(g)' = Nothing(g)
  BY <1>1 DEF Nothing
<1>4. One(g)' = One(g)
  BY <1>2 DEF One
<1>q. QED  BY <1>1, <1>2, <1>3, <1>4

\* A deletion takes all there is of a file that only the watch has stored.
LEMMA RemovedKeeps == ASSUME WatchInv, handle_removed PROVE WatchInv'
<1> USE DEF WatchInv
<1>1. /\ at = "recv" /\ queue # <<>> /\ Head(queue)[1] = "Removed" /\ queue' = Tail(queue)
      /\ TakeStale(Head(queue)[2])
      /\ UNCHANGED <<handle, disk, touched, at, path, content, payload, followed, reindexed,
                     outdated, broken>>
  BY DEF handle_removed, loop, ghosts
<1>2. PICK f \in File : f = Head(queue)[2]
  BY <1>1, Pops
<1>3. /\ queue' \in Seq({"Removed", "Modified"} \X File) /\ EventsTrue'
      /\ \A g : Still(g)' /\ g # f => Still(g)
      /\ \A g : Still(g)' /\ g = f => disk[g] = Absent
  BY <1>1, <1>2, Pops
<1>4. /\ index' \in [File -> [Id -> Content \cup {Absent}]]
      /\ indexed_files' \in [File -> (SUBSET Id) \cup {NotRecorded}]
      /\ \A g \in File \ {f} : index'[g] = index[g] /\ indexed_files'[g] = indexed_files[g]
      /\ indexed_files'[f] = NotRecorded
      /\ RecordedExist'
      /\ Nothing(f) \/ One(f) => Stored(f)' = {}
  BY <1>1, <1>2, Takes DEF Recorded
<1>5. f \notin reindexed \cup broken => Stored(f)' = {}
  BY <1>1, <1>4 DEF Owned
<1>6. WatchTypes' /\ followed' \subseteq File
  BY <1>1, <1>3, <1>4 DEF WatchTypes
<1>7. ReadTrue' /\ Recorded'
  BY <1>1, <1>4 DEF ReadTrue, Recorded
<1>8. Owned'
  <2> SUFFICES ASSUME NEW g \in File \ (reindexed \cup broken) PROVE Nothing(g)' \/ One(g)'
    BY <1>1 DEF Owned
  <2>1. CASE g = f
    BY <2>1, <1>4, <1>5 DEF Nothing
  <2>2. CASE g # f
    BY <2>2, <1>1, <1>4, Untouched DEF Owned
  <2>q. QED  BY <2>1, <2>2
<1>9. InStep'
  <2> SUFFICES ASSUME NEW g \in followed \ (reindexed \cup broken), Still(g)', g # path
               PROVE  Exact(g)'
    BY <1>1 DEF InStep
  <2>1. CASE g = f
    <3>1. disk[g] = Absent /\ Stored(g)' = {}
      BY <2>1, <1>3, <1>5
    <3>q. QED  BY <3>1, <1>1, Marks DEF Exact
  <2>2. CASE g # f
    <3>1. Exact(g)
      BY <2>2, <1>3 DEF InStep
    <3>2. Stored(g)' = Stored(g) /\ \A c : Holds(g, c)' = Holds(g, c)
      BY <2>2, <1>4, Untouched
    <3>q. QED  BY <3>1, <3>2, <1>1 DEF Exact, Holds, Stored
  <2>q. QED  BY <2>1, <2>2
<1>10. Current'
  <2> SUFFICES ASSUME NEW g \in followed \ (outdated \cup broken), Still(g)', g # path,
                      disk[g] \in Readable, Watched(handle, g, disk[g] \in Big)
               PROVE  \A i \in ChunksOf[disk[g]] : index'[g][i] = disk[g]
    BY <1>1 DEF Current, Has
  <2>1. g # f
    BY <1>3, Marks
  <2>q. QED  BY <2>1, <1>3, <1>4 DEF Current, Has
<1>q. QED  BY <1>3, <1>6, <1>7, <1>8, <1>9, <1>10

\* What is read is the file as it is; a file that is left out owes nothing.
LEMMA ModifiedKeeps == ASSUME WatchInv, handle_modified PROVE WatchInv'
<1> USE DEF WatchInv
<1>1. /\ at = "recv" /\ queue # <<>> /\ Head(queue)[1] = "Modified" /\ queue' = Tail(queue)
      /\ UNCHANGED <<handle, disk, touched, indexed_files, index, payload, followed, reindexed,
                     outdated, broken>>
  BY DEF handle_modified, ghosts
<1>2. PICK f \in File : f = Head(queue)[2]
  BY <1>1, Pops
<1>3. /\ queue' \in Seq({"Removed", "Modified"} \X File) /\ EventsTrue'
      /\ \A g : Still(g)' /\ g # f => Still(g)
      /\ \A g : Still(g)' /\ g = f => disk[g] # Absent
  BY <1>1, <1>2, Pops
<1>4. \A g : Stored(g)' = Stored(g)
  BY <1>1 DEF Stored
<1>5. path \notin File
  BY <1>1, Marks DEF WatchTypes
<1>6. CASE Watched(handle, f, disk[f] \in Big) /\ disk[f] \in Readable
  <2>1. at' = "take" /\ path' = f /\ content' = disk[f]
    BY <1>2, <1>6 DEF handle_modified
  <2>2. WatchTypes' /\ followed' \subseteq File
    BY <1>1, <1>3, <1>6, <2>1 DEF WatchTypes, Step
  <2>3. ReadTrue' /\ Recorded'
    BY <1>1, <2>1 DEF ReadTrue, Recorded, RecordedExist
  <2>4. Owned'
    BY <1>1, <1>4, <2>1 DEF Owned, Nothing, One, Holds
  <2>5. InStep' /\ Current'
    BY <1>1, <1>3, <1>4, <1>5, <2>1 DEF InStep, Exact, Holds, Current, Has
  <2>q. QED  BY <1>3, <2>2, <2>3, <2>4, <2>5
<1>7. CASE ~(Watched(handle, f, disk[f] \in Big) /\ disk[f] \in Readable)
  <2>1. UNCHANGED <<at, path, content>>
    BY <1>2, <1>7 DEF handle_modified, loop
  <2>2. WatchTypes' /\ followed' \subseteq File
    BY <1>1, <1>3, <2>1 DEF WatchTypes
  <2>3. ReadTrue' /\ Recorded'
    BY <1>1, <2>1 DEF ReadTrue, Recorded, RecordedExist
  <2>4. Owned'
    BY <1>1, <1>4, <2>1 DEF Owned, Nothing, One, Holds
  <2>5. InStep'
    <3> SUFFICES ASSUME NEW g \in followed \ (reindexed \cup broken), Still(g)' PROVE Exact(g)'
      BY <1>1 DEF InStep
    <3>1. CASE g = f
      BY <3>1, <1>1, <1>3, <1>7 DEF Exact
    <3>2. CASE g # f
      BY <3>2, <1>1, <1>3, <1>4, <1>5 DEF InStep, Exact, Holds
    <3>q. QED  BY <3>1, <3>2
  <2>6. Current'
    BY <1>1, <1>3, <1>5, <1>7, <2>1 DEF Current, Has
  <2>q. QED  BY <1>3, <2>2, <2>3, <2>4, <2>5, <2>6
<1>q. QED  BY <1>6, <1>7

\* Nothing is left of a file that only the watch has stored.
LEMMA DropKeeps == ASSUME WatchInv, DropStale PROVE WatchInv'
<1> USE DEF WatchInv
<1>1. /\ at = "take" /\ at' = "index" /\ TakeStale(path)
      /\ UNCHANGED <<handle, disk, touched, queue, path, content, payload, followed, reindexed,
                     outdated, broken>>
  BY DEF DropStale, ghosts
<1>2. PICK f \in File : f = path
  BY <1>1 DEF WatchTypes
<1>3. /\ index' \in [File -> [Id -> Content \cup {Absent}]]
      /\ indexed_files' \in [File -> (SUBSET Id) \cup {NotRecorded}]
      /\ \A g \in File \ {f} : index'[g] = index[g] /\ indexed_files'[g] = indexed_files[g]
      /\ indexed_files'[f] = NotRecorded
      /\ RecordedExist'
      /\ Nothing(f) \/ One(f) => Stored(f)' = {}
  BY <1>1, <1>2, Takes DEF Recorded
<1>4. WatchTypes' /\ followed' \subseteq File
  BY <1>1, <1>3 DEF WatchTypes, Step
<1>5. EventsTrue' /\ ReadTrue' /\ Recorded' /\ \A g : Still(g)' = Still(g)
  BY <1>1, <1>2, <1>3 DEF EventsTrue, IsLast, ReadTrue, Recorded, Still
<1>6. Owned'
  <2> SUFFICES ASSUME NEW g \in File \ (reindexed \cup broken) PROVE Nothing(g)' \/ One(g)'
    BY <1>1 DEF Owned
  <2>1. CASE g = f
    BY <2>1, <1>1, <1>3 DEF Owned, Nothing
  <2>2. CASE g # f
    BY <2>2, <1>1, <1>3, Untouched DEF Owned
  <2>q. QED  BY <2>1, <2>2
<1>7. InStep'
  <2> SUFFICES ASSUME NEW g \in followed \ (reindexed \cup broken), Still(g), g # f
               PROVE  Exact(g)'
    BY <1>1, <1>2, <1>5 DEF InStep
  <2>1. Exact(g)
    BY <1>2 DEF InStep
  <2>2. index'[g] = index[g]
    BY <1>3
  <2>q. QED  BY <2>1, <2>2, <1>1 DEF Exact, Holds, Stored
<1>8. Current'
  <2> SUFFICES ASSUME NEW g \in followed \ (outdated \cup broken), Still(g), g # f,
                      disk[g] \in Readable, Watched(handle, g, disk[g] \in Big)
               PROVE  \A i \in ChunksOf[disk[g]] : index'[g][i] = disk[g]
    BY <1>1, <1>2, <1>5 DEF Current, Has
  <2>q. QED  BY <1>2, <1>3 DEF Current, Has
<1>q. QED  BY <1>4, <1>5, <1>6, <1>7, <1>8

\* The chunks of the content are all that is stored then.
LEMMA IndexKeeps == ASSUME WatchInv, IndexFile PROVE WatchInv'
<1> USE DEF WatchInv
<1>1. /\ at = "index" /\ at' = "record" /\ index' = store_chunks(path, ChunksOf[content], content)
      /\ UNCHANGED <<handle, disk, touched, queue, path, content, indexed_files, payload, followed,
                     reindexed, outdated, broken>>
  BY DEF IndexFile, ghosts
<1>2. PICK f \in File, c \in Readable : f = path /\ c = content
  BY <1>1 DEF WatchTypes
<1>3. c \in Content /\ ChunksOf[c] \subseteq Id /\ c # Absent
  BY <1>2, Marks
<1>4. /\ index' \in [File -> [Id -> Content \cup {Absent}]]
      /\ \A g \in File \ {f} : index'[g] = index[g]
      /\ \A i \in Id : index'[f][i] = IF i \in ChunksOf[c] THEN c ELSE index[f][i]
  <2>1. index' = store_chunks(f, ChunksOf[c], c)
    BY <1>1, <1>2
  <2>q. QED  BY <2>1, <1>3, Stores DEF WatchTypes
<1>5. WatchTypes' /\ followed' \subseteq File
  BY <1>1, <1>4 DEF WatchTypes, Step
<1>6. EventsTrue' /\ ReadTrue' /\ \A g : Still(g)' = Still(g)
  BY <1>1 DEF EventsTrue, IsLast, ReadTrue, Still
<1>7. Recorded'
  <2>1. indexed_files[f] = NotRecorded
    BY <1>1, <1>2 DEF Recorded
  <2>2. \A i \in ChunksOf[c] : index'[f][i] # Absent
    BY <1>3, <1>4
  <2>3. RecordedExist'
    BY <2>1, <1>1, <1>4 DEF Recorded, RecordedExist
  <2>q. QED  BY <2>1, <2>2, <2>3, <1>1, <1>2 DEF Recorded
<1>8. \A g \in File \ {f} : Nothing(g)' = Nothing(g) /\ One(g)' = One(g)
  BY <1>1, <1>4, Untouched
<1>9. Owned'
  <2> SUFFICES ASSUME NEW g \in File \ (reindexed \cup broken)
               PROVE  IF g = f
                      THEN Stored(g)' = ChunksOf[c] /\ \A i \in ChunksOf[c] : index'[g][i] = c
                      ELSE Nothing(g)' \/ One(g)'
    BY <1>1, <1>2 DEF Owned, Holds, Stored
  <2>1. CASE g = f
    <3>1. indexed_files[g] = NotRecorded /\ (Nothing(g) \/ One(g))
      BY <2>1, <1>1, <1>2 DEF Owned, Recorded
    <3>2. Stored(g) = {}
      BY <3>1, Marks DEF Nothing, One
    <3>3. Stored(g)' = ChunksOf[c]
      BY <3>2, <2>1, <1>3, <1>4 DEF Stored
    <3>q. QED  BY <3>3, <2>1, <1>3, <1>4
  <2>2. CASE g # f
    BY <2>2, <1>1, <1>2, <1>8 DEF Owned
  <2>q. QED  BY <2>1, <2>2
<1>10. InStep'
  <2> SUFFICES ASSUME NEW g \in followed \ (reindexed \cup broken), Still(g), g # f
               PROVE  Exact(g)'
    BY <1>1, <1>2, <1>6 DEF InStep
  <2>1. Exact(g)
    BY <1>2 DEF InStep
  <2>2. index'[g] = index[g]
    BY <1>4
  <2>q. QED  BY <2>1, <2>2, <1>1 DEF Exact, Holds, Stored
<1>11. Current'
  <2>1. \A g \in followed \ (outdated \cup broken) :
            Still(g) /\ g # f /\ disk[g] \in Readable /\ Watched(handle, g, disk[g] \in Big)
            => \A i \in ChunksOf[disk[g]] : index'[g][i] = disk[g]
    BY <1>2, <1>4 DEF Current, Has
  <2>2. \A i \in ChunksOf[c] : index'[f][i] = c
    BY <1>3, <1>4
  <2>q. QED  BY <2>1, <2>2, <1>1, <1>2, <1>6 DEF Current, Has
<1>q. QED  BY <1>5, <1>6, <1>7, <1>9, <1>10, <1>11

\* What is left of a file then is not said; the others stay.
LEMMA FailureKeeps == ASSUME WatchInv, IndexFails PROVE WatchInv'
<1> USE DEF WatchInv
<1>1. /\ at = "index" /\ at' = "recv" /\ path' = NoFile /\ content' = Absent
      /\ \E ids \in SUBSET ChunksOf[content] : index' = store_chunks(path, ids, content)
      /\ broken' = broken \cup {path}
      /\ UNCHANGED <<handle, disk, touched, queue, indexed_files, payload, followed, reindexed,
                     outdated>>
  BY DEF IndexFails
<1>2. PICK f \in File, c \in Readable : f = path /\ c = content
  BY <1>1 DEF WatchTypes
<1>3. PICK ids : index' = store_chunks(f, ids, c)
  BY <1>1, <1>2
<1>4. c \in Content /\ c # Absent
  BY <1>2, Marks
<1>5. /\ index' \in [File -> [Id -> Content \cup {Absent}]]
      /\ \A g \in File \ {f} : index'[g] = index[g]
      /\ \A i \in Id : index'[f][i] = IF i \in ids THEN c ELSE index[f][i]
  BY <1>3, <1>4, Stores DEF WatchTypes
<1>6. WatchTypes' /\ followed' \subseteq File
  BY <1>1, <1>5 DEF WatchTypes, Step
<1>7. EventsTrue' /\ ReadTrue' /\ \A g : Still(g)' = Still(g)
  BY <1>1 DEF EventsTrue, IsLast, ReadTrue, Still
<1>8. Recorded'
  <2>1. indexed_files[f] = NotRecorded
    BY <1>1, <1>2 DEF Recorded
  <2>2. RecordedExist'
    BY <2>1, <1>1, <1>5 DEF Recorded, RecordedExist
  <2>q. QED  BY <2>2, <1>1 DEF Recorded
<1>9. \A g \in File \ {f} : Nothing(g)' = Nothing(g) /\ One(g)' = One(g)
  BY <1>1, <1>5, Untouched
<1>10. Owned'
  BY <1>1, <1>2, <1>9 DEF Owned
<1>11. InStep'
  <2> SUFFICES ASSUME NEW g \in followed \ (reindexed \cup broken), Still(g), g # f
               PROVE  Exact(g)'
    BY <1>1, <1>2, <1>7 DEF InStep
  <2>1. Exact(g)
    BY <1>2 DEF InStep
  <2>2. index'[g] = index[g]
    BY <1>5
  <2>q. QED  BY <2>1, <2>2, <1>1 DEF Exact, Holds, Stored
<1>12. Current'
  <2>1. \A g \in followed \ (outdated \cup broken') :
            Still(g) /\ disk[g] \in Readable /\ Watched(handle, g, disk[g] \in Big)
            => \A i \in ChunksOf[disk[g]] : index'[g][i] = disk[g]
    BY <1>1, <1>2, <1>5 DEF Current, Has
  <2>q. QED  BY <2>1, <1>1, <1>7 DEF Current, Has
<1>q. QED  BY <1>6, <1>7, <1>8, <1>10, <1>11, <1>12

\* A record is of what is stored, and what is stored is current.
LEMMA RecordKeeps == ASSUME WatchInv, Record PROVE WatchInv'
<1> USE DEF WatchInv
<1>1. /\ at = "record" /\ at' = "recv" /\ path' = NoFile /\ content' = Absent
      /\ indexed_files' = [indexed_files EXCEPT ![path] = ChunksOf[content]]
      /\ UNCHANGED <<handle, disk, touched, queue, index, payload, followed, reindexed, outdated,
                     broken>>
  BY DEF Record, ghosts
<1>2. PICK f \in File, c \in Readable : f = path /\ c = content
  BY <1>1 DEF WatchTypes
<1>3. c \in Content /\ c # Absent /\ ChunksOf[c] \subseteq Id /\ ChunksOf[c] # NotRecorded
  BY <1>2, Marks
<1>4. /\ indexed_files' \in [File -> (SUBSET Id) \cup {NotRecorded}]
      /\ \A g \in File \ {f} : indexed_files'[g] = indexed_files[g]
      /\ indexed_files'[f] = ChunksOf[c]
  BY <1>1, <1>2, <1>3 DEF WatchTypes
<1>5. WatchTypes' /\ followed' \subseteq File
  BY <1>1, <1>4 DEF WatchTypes, Step
<1>6. EventsTrue' /\ ReadTrue' /\ \A g : Still(g)' = Still(g)
  BY <1>1 DEF EventsTrue, IsLast, ReadTrue, Still
<1>7. Recorded'
  <2>1. \A i \in ChunksOf[c] : index[f][i] # Absent
    BY <1>1, <1>2 DEF Recorded
  <2>q. QED  BY <2>1, <1>1, <1>4 DEF Recorded, RecordedExist
<1>8. \A g : Stored(g)' = Stored(g) /\ \A d : Holds(g, d)' = Holds(g, d)
  BY <1>1 DEF Stored, Holds
<1>9. f \notin reindexed \cup broken => Holds(f, c)
  BY <1>1, <1>2 DEF Owned
<1>10. Owned'
  <2> SUFFICES ASSUME NEW g \in File \ (reindexed \cup broken) PROVE Nothing(g)' \/ One(g)'
    BY <1>1 DEF Owned
  <2>1. CASE g = f
    BY <2>1, <1>2, <1>4, <1>8, <1>9 DEF One
  <2>2. CASE g # f
    BY <2>2, <1>1, <1>2, <1>4, Untouched DEF Owned
  <2>q. QED  BY <2>1, <2>2
<1>11. Still(f) => c = disk[f]
  BY <1>1, <1>2 DEF ReadTrue
<1>12. InStep'
  <2> SUFFICES ASSUME NEW g \in followed \ (reindexed \cup broken), Still(g) PROVE Exact(g)'
    BY <1>1, <1>6 DEF InStep
  <2>1. Exact(g)
    <3>1. CASE g = f
      BY <3>1, <1>3, <1>9, <1>11 DEF Exact
    <3>2. CASE g # f
      BY <3>2, <1>2 DEF InStep
    <3>q. QED  BY <3>1, <3>2
  <2>q. QED  BY <2>1, <1>1, <1>8 DEF Exact, Stored, Holds
<1>13. Current'
  <2>1. Still(f) /\ f \notin outdated \cup broken =>
            \A i \in ChunksOf[disk[f]] : index[f][i] = disk[f]
    BY <1>1, <1>2, <1>11 DEF Current, Has
  <2>q. QED  BY <2>1, <1>1, <1>2, <1>6 DEF Current, Has
<1>q. QED  BY <1>5, <1>6, <1>7, <1>10, <1>12, <1>13

-----------------------------------------------------------------------------
(* Runs and restarts.                                                      *)

\* A run has a file and what it read of it.
LEMMA ReadsKeeps == ASSUME WatchInv, NEW f \in File, RunReads(f) PROVE WatchInv'
<1> USE DEF WatchInv
<1>1. /\ disk[f] \in Readable /\ payload' = <<f, disk[f]>>
      /\ UNCHANGED <<handle, disk, touched, queue, at, path, content, indexed_files, index,
                     followed, reindexed, outdated, broken>>
  BY DEF RunReads, loop, ghosts
<1>2. WatchTypes'
  BY <1>1 DEF WatchTypes
<1>3. EventsTrue' /\ ReadTrue' /\ \A g : Still(g)' = Still(g)
  BY <1>1 DEF EventsTrue, IsLast, ReadTrue, Still
<1>4. Recorded' /\ Owned'
  BY <1>1 DEF Recorded, RecordedExist, Owned, Nothing, One, Holds, Stored
<1>5. InStep' /\ Current'
  BY <1>1, <1>3 DEF InStep, Exact, Holds, Stored, Current, Has
<1>q. QED  BY <1>1, <1>2, <1>3, <1>4, <1>5

\* What a run stores is current, or its file is marked.
LEMMA CommitsKeep == ASSUME WatchInv, RunCommits PROVE WatchInv'
<1> USE DEF WatchInv
<1>1. PICK f \in File, c \in Readable : payload = <<f, c>>
  BY DEF RunCommits, WatchTypes
<1>2. /\ payload' = <<NoFile, Absent>> /\ index' = store_chunks(f, ChunksOf[c], c)
      /\ reindexed' = reindexed \cup {f}
      /\ outdated' = IF c # disk[f] THEN outdated \cup {f} ELSE outdated \ {f}
      /\ UNCHANGED <<handle, disk, touched, queue, at, path, content, indexed_files, followed,
                     broken>>
  BY <1>1 DEF RunCommits, loop
<1>3. c \in Content /\ c # Absent /\ ChunksOf[c] \subseteq Id
  BY Marks
<1>4. /\ index' \in [File -> [Id -> Content \cup {Absent}]]
      /\ \A g \in File \ {f} : index'[g] = index[g]
      /\ \A i \in Id : index'[f][i] = IF i \in ChunksOf[c] THEN c ELSE index[f][i]
  BY <1>2, <1>3, Stores DEF WatchTypes
<1>5. WatchTypes' /\ followed' \subseteq File
  BY <1>2, <1>4 DEF WatchTypes
<1>6. EventsTrue' /\ ReadTrue' /\ \A g : Still(g)' = Still(g)
  BY <1>2 DEF EventsTrue, IsLast, ReadTrue, Still
<1>7. \A g \in File, i \in Id : index[g][i] # Absent => index'[g][i] # Absent
  BY <1>3, <1>4
<1>8. Recorded'
  <2>1. RecordedExist'
    <3> SUFFICES ASSUME NEW g \in File, indexed_files[g] # NotRecorded, NEW i \in indexed_files[g]
                 PROVE  index'[g][i] # Absent
      BY <1>2 DEF RecordedExist
    <3>1. i \in Id
      BY DEF WatchTypes
    <3>q. QED  BY <3>1, <1>7 DEF Recorded, RecordedExist
  <2>2. at = "record" => \A i \in ChunksOf[content] : index'[path][i] # Absent
    <3> SUFFICES ASSUME at = "record", NEW i \in ChunksOf[content] PROVE index'[path][i] # Absent
      OBVIOUS
    <3>1. path \in File /\ i \in Id
      BY Marks DEF WatchTypes
    <3>q. QED  BY <3>1, <1>7 DEF Recorded
  <2>q. QED  BY <2>1, <2>2, <1>2 DEF Recorded
<1>9. Owned'
  <2> SUFFICES ASSUME NEW g \in File \ (reindexed \cup broken), g # f
               PROVE  (IF at = "record" /\ g = path
                       THEN Holds(g, content) ELSE Nothing(g) \/ One(g))'
    BY <1>2 DEF Owned
  <2>1. index'[g] = index[g] /\ indexed_files'[g] = indexed_files[g]
    BY <1>2, <1>4
  <2>2. IF at = "record" /\ g = path THEN Holds(g, content) ELSE Nothing(g) \/ One(g)
    BY DEF Owned
  <2>q. QED  BY <2>1, <2>2, <1>2 DEF Nothing, One, Holds, Stored
<1>10. InStep'
  <2> SUFFICES ASSUME NEW g \in followed \ (reindexed \cup broken), g # f, Still(g), g # path
               PROVE  Exact(g)'
    BY <1>2, <1>6 DEF InStep
  <2>1. Exact(g) /\ index'[g] = index[g]
    BY <1>4 DEF InStep
  <2>q. QED  BY <2>1, <1>2 DEF Exact, Holds, Stored
<1>11. \A g \in File \ outdated' : g = f => c = disk[f] /\ \A i \in ChunksOf[c] : index'[f][i] = c
  BY <1>2, <1>3, <1>4
<1>12. \A g \in File \ outdated' : g # f => g \notin outdated /\ index'[g] = index[g]
  BY <1>2, <1>4
<1>13. Current'
  <2>1. \A g \in followed \ (outdated' \cup broken) :
            Still(g) /\ g # path /\ disk[g] \in Readable /\ Watched(handle, g, disk[g] \in Big)
            => \A i \in ChunksOf[disk[g]] : index'[g][i] = disk[g]
    <3> SUFFICES ASSUME NEW g \in followed \ (outdated' \cup broken), Still(g), g # path,
                        disk[g] \in Readable, Watched(handle, g, disk[g] \in Big)
                 PROVE  \A i \in ChunksOf[disk[g]] : index'[g][i] = disk[g]
      OBVIOUS
    <3>1. CASE g = f
      BY <3>1, <1>11
    <3>2. CASE g # f
      BY <3>2, <1>12 DEF Current, Has
    <3>q. QED  BY <3>1, <3>2
  <2>2. at = "record" /\ path \notin outdated' \cup broken /\ Still(path)
        => \A i \in ChunksOf[content] : index'[path][i] = content
    <3> SUFFICES ASSUME at = "record", path \notin outdated' \cup broken, Still(path)
                 PROVE  \A i \in ChunksOf[content] : index'[path][i] = content
      OBVIOUS
    <3>1. path \in File /\ content = disk[path]
      BY DEF WatchTypes, ReadTrue
    <3>2. CASE path = f
      BY <3>1, <3>2, <1>11
    <3>3. CASE path # f
      BY <3>1, <3>3, <1>12 DEF Current, Has
    <3>q. QED  BY <3>2, <3>3
  <2>q. QED  BY <2>1, <2>2, <1>2, <1>6 DEF Current, Has
<1>q. QED  BY <1>5, <1>6, <1>8, <1>9, <1>10, <1>13

\* A new process has seen no file change and recorded none.
LEMMA RestartKeeps == ASSUME WatchInv, Restart PROVE WatchInv'
<1> USE DEF WatchInv
<1>1. /\ touched' = {} /\ queue' = <<>> /\ at' = "recv" /\ path' = NoFile /\ content' = Absent
      /\ indexed_files' = [g \in File |-> NotRecorded] /\ payload' = <<NoFile, Absent>>
      /\ followed' = {} /\ reindexed' = {g \in File : \E i \in Id : index[g][i] # Absent}
      /\ UNCHANGED <<handle, disk, index, outdated, broken>>
  BY DEF Restart, NothingRecorded
<1>2. indexed_files' \in [File -> (SUBSET Id) \cup {NotRecorded}]
  BY <1>1
<1>3. WatchTypes'
  BY <1>1, <1>2 DEF WatchTypes, Step
<1>4. EventsTrue' /\ ReadTrue' /\ InStep' /\ Current'
  BY <1>1 DEF EventsTrue, ReadTrue, InStep, Current
<1>5. Recorded'
  BY <1>1 DEF Recorded, RecordedExist
<1>6. Owned'
  <2> SUFFICES ASSUME NEW g \in File \ reindexed' PROVE Nothing(g)'
    BY <1>1 DEF Owned
  <2>1. Stored(g)' = {}
    BY <1>1 DEF Stored
  <2>q. QED  BY <2>1, <1>1 DEF Nothing
<1>q. QED  BY <1>1, <1>3, <1>4, <1>5, <1>6

-----------------------------------------------------------------------------
(* The properties.                                                         *)

\* What holds however edits, events, the loop, runs and restarts interleave.
LEMMA WatchKept == WatchSpec => []WatchInv
<1>1. ASSUME WatchInv, [WatchNext]_wvars PROVE WatchInv'
  <2>1. CASE UNCHANGED wvars
    <3>1. UNCHANGED <<handle, disk, touched, queue, at, path, content, indexed_files, index,
                      payload, followed, reindexed, outdated, broken>>
      BY <2>1 DEF wvars, loop, ghosts
    <3> USE DEF WatchInv
    <3>2. WatchTypes' /\ EventsTrue' /\ ReadTrue' /\ followed' \subseteq File
      BY <1>1, <3>1 DEF WatchTypes, EventsTrue, IsLast, ReadTrue, Still
    <3>3. Recorded' /\ Owned'
      BY <1>1, <3>1 DEF Recorded, RecordedExist, Owned, Nothing, One, Holds, Stored
    <3>4. InStep' /\ Current'
      BY <1>1, <3>1 DEF InStep, Exact, Holds, Stored, Current, Has, Still
    <3>q. QED  BY <3>2, <3>3, <3>4
  <2>2. ASSUME NEW f \in File, NEW c \in Content \cup {Absent}, Edit(f, c) PROVE WatchInv'
    BY <1>1, <2>2, EditKeeps
  <2>3. ASSUME NEW f \in File, Debounced(f) PROVE WatchInv'
    BY <1>1, <2>3, DebouncedKeeps
  <2>4. ASSUME NEW f \in File, RunReads(f) PROVE WatchInv'
    BY <1>1, <2>4, ReadsKeeps
  <2>5. CASE handle_removed
    BY <1>1, <2>5, RemovedKeeps
  <2>6. CASE handle_modified
    BY <1>1, <2>6, ModifiedKeeps
  <2>7. CASE DropStale
    BY <1>1, <2>7, DropKeeps
  <2>8. CASE IndexFile
    BY <1>1, <2>8, IndexKeeps
  <2>9. CASE IndexFails
    BY <1>1, <2>9, FailureKeeps
  <2>10. CASE Record
    BY <1>1, <2>10, RecordKeeps
  <2>11. CASE RunCommits
    BY <1>1, <2>11, CommitsKeep
  <2>12. CASE Restart
    BY <1>1, <2>12, RestartKeeps
  <2>q. QED
    BY <1>1, <2>1, <2>2, <2>3, <2>4, <2>5, <2>6, <2>7, <2>8, <2>9, <2>10, <2>11, <2>12 DEF WatchNext
<1>q. QED  BY WatchStarts, <1>1, PTL DEF WatchSpec

\* Settled files are quiet, and files a walk collects are watched.
LEMMA WatchGives == WatchInv => WatchSound
<1> SUFFICES ASSUME WatchInv PROVE WatchSound
  OBVIOUS
<1> USE DEF WatchInv
<1>1. WatchTypeOK
  BY Marks DEF WatchTypes, WatchTypeOK
<1>2. \A f : Settled(f) => Still(f) /\ f # path
  BY DEF Settled, Still
<1>3. Synced
  BY <1>2 DEF Synced, InStep, Exact
<1>4. Fresh
  <2> SUFFICES ASSUME NEW f \in followed \ (outdated \cup broken), Settled(f),
                      disk[f] \in Readable, Clean(handle),
                      collect_files_to_index(handle, f, disk[f] \in Big)
               PROVE  \A i \in ChunksOf[disk[f]] : index[f][i] = disk[f]
    BY DEF Fresh
  <2>1. Watched(handle, f, disk[f] \in Big)
    BY WalkedIsWatched DEF WatchTypes
  <2>q. QED  BY <2>1, <1>2 DEF Current, Has
<1>q. QED  BY <1>1, <1>3, <1>4 DEF WatchSound, Recorded

\* What the watch alone stored is exact once it has settled, what runs and the watch
\* stored together is current, and what is recorded can be removed (spawn_watch_loop,
\* handle_modified, handle_removed, IndexedFiles).
THEOREM FollowsFiles == WatchSpec => []WatchSound
BY WatchKept, WatchGives, PTL

-----------------------------------------------------------------------------
(* The chunks of a document.                                               *)

\* What is cut from lines: its lines are those from a to b, in their order.
DocChunk == [start : Nat, end : Nat, name : Name \cup {NoName}]
Cut(s, a, b) ==
    /\ s \in Seq(DocChunk)
    /\ \A i \in DOMAIN s : a <= s[i].start /\ s[i].start <= s[i].end /\ s[i].end <= b
    /\ \A i, j \in DOMAIN s : i < j => s[i].end < s[j].start

Covers(s, i) == \E k \in DOMAIN s : s[k].start <= i /\ i <= s[k].end

\* The formats that are cut at headers.
Sections == Markdown \cup Keyed

\* The chunks of a document: from header to header, with every line that has text.
SectionsAre(s) ==
    /\ Cut(s, 1, Len(lines))
    /\ \A i \in 1..Len(lines) : ~Blank(lines[i]) => Covers(s, i)
    /\ \A i \in 1..Len(lines) : Header(i) =>
          \E k \in DOMAIN s : s[k].start = i /\ s[k].name = lines[i].name
    /\ \A k \in DOMAIN s : s[k].start > 1 => Header(s[k].start)

\* The current section, paragraph or child starts after what has been cut.
Cursor ==
    /\ ext \in Ext /\ lines \in Seq(LinesOf(ext)) /\ Len(lines) <= MaxLines
    /\ start \in 0..Len(lines) + 1 /\ name \in Name \cup {NoName}
    /\ fence \in BOOLEAN /\ depth \in Int
    /\ Cut(out, 1, IF start = 0 THEN Len(lines) ELSE start - 1)

\* A section starts with its header, or with the file.
SectionInv ==
    /\ start \in 1..Len(lines) + 1
    /\ \/ start = 1 /\ name = NoName
       \/ start <= Len(lines) /\ Header(start) /\ name = lines[start].name
    /\ ext \in Markdown => (fence <=> Fenced(Len(lines) + 1))
    /\ \A i \in 1..Len(lines) : i < start /\ ~Blank(lines[i]) => Covers(out, i)
    /\ \A i \in 1..Len(lines) : Header(i) =>
          \/ i = start /\ name = lines[i].name
          \/ \E k \in DOMAIN out : out[k].start = i /\ out[k].name = lines[i].name
    /\ \A k \in DOMAIN out : out[k].start > 1 => Header(out[k].start)

\* A piece of a paragraph: text only, and as long as it can be.
PlainPiece(c) ==
    /\ \A i \in 1..Len(lines) : c.start <= i /\ i <= c.end => ~Blank(lines[i])
    /\ c.end - c.start < PLAINTEXT_MAX_LINES
    /\ \/ c.end - c.start = PLAINTEXT_MAX_LINES - 1
       \/ c.end < Len(lines) /\ Blank(lines[c.end + 1])

\* Every line with text is in a piece or in the open paragraph.
PlainInv ==
    /\ start # 0 => start <= Len(lines) /\ \A i \in 1..Len(lines) : start <= i => ~Blank(lines[i])
    /\ \A i \in 1..Len(lines) : ~Blank(lines[i]) => (start # 0 /\ start <= i) \/ Covers(out, i)
    /\ \A k \in DOMAIN out : PlainPiece(out[k])

\* The open child and the chunks are children of the root.
XmlInv ==
    /\ start # 0 => start <= Len(lines)
    /\ OneTagALine =>
          /\ depth = Depth(Len(lines))
          /\ start = 0 <=> depth <= 1
          /\ start # 0 => /\ Depth(start - 1) = 1 /\ Depth(start) = 2
                          /\ \A k \in start..Len(lines) : Depth(k) > 1
          /\ \A i, j \in 1..Len(lines) :
                Child(i, j) <=> \E k \in DOMAIN out : out[k].start = i /\ out[k].end = j

\* What the scanner goes by before the end of the file.
Scanning ==
    /\ Cursor
    /\ ext \in Sections => SectionInv
    /\ ext \in Plain => PlainInv
    /\ ext = "xml" => XmlInv
    /\ ext \in {"json", "csv"} => out = <<>>

\* The inductive invariant.
DocInv == done \in BOOLEAN /\ IF done THEN DocChunksExact ELSE Scanning

\* The lesser of two numbers.
LEMMA LesserOf ==
  ASSUME NEW a \in Int, NEW b \in Int
  PROVE  Min({a, b}) = IF a <= b THEN a ELSE b
BY DEF Min

\* Multiples grow with what is multiplied.
LEMMA Multiples ==
  ASSUME NEW p \in Nat \ {0}
  PROVE  /\ \A a \in Nat : a * p \in Nat /\ (a + 1) * p = a * p + p /\ a <= a * p
         /\ \A a, b \in Nat : a <= b => a * p <= b * p
         /\ \A a, b \in Nat : a < b => a * p + p <= b * p
<1>1. \A a \in Nat : a * p \in Nat /\ (a + 1) * p = a * p + p
  OBVIOUS
<1>2. \A a, b \in Nat : a <= b => a * p <= b * p
  <2> SUFFICES ASSUME NEW a \in Nat, NEW b \in Nat, a <= b PROVE a * p <= b * p
    OBVIOUS
  <2>1. b = a + (b - a) /\ b - a \in Nat
    OBVIOUS
  <2>2. b * p = a * p + (b - a) * p /\ (b - a) * p \in Nat
    BY <2>1
  <2> QED BY <2>2, <1>1
<1>3. \A a, b \in Nat : a < b => a * p + p <= b * p
  <2> SUFFICES ASSUME NEW a \in Nat, NEW b \in Nat, a < b PROVE a * p + p <= b * p
    OBVIOUS
  <2>1. a + 1 \in Nat /\ a + 1 <= b
    OBVIOUS
  <2> QED BY <1>1, <1>2, <2>1
<1>4. \A a \in Nat : a <= a * p
  <2> SUFFICES ASSUME NEW a \in Nat PROVE a <= a * p
    OBVIOUS
  <2>1. p = 1 + (p - 1) /\ p - 1 \in Nat
    OBVIOUS
  <2>2. a * p = a + a * (p - 1) /\ a * (p - 1) \in Nat
    BY <2>1
  <2> QED BY <2>2
<1> QED BY <1>1, <1>2, <1>3, <1>4

\* Of the numbers in a set there is a first.
LEMMA FirstOf ==
  ASSUME NEW S \in SUBSET Nat, S # {}
  PROVE  \E x \in S : \A y \in S : x <= y
<1>1. PICK x \in S : \A y \in S : ~(<<y, x>> \in OpToRel(<, Nat))
  BY WFMin, NatLessThanWellFounded
<1>2. \A y \in S : x <= y
  <2> SUFFICES ASSUME NEW y \in S PROVE x <= y
    OBVIOUS
  <2>1. x \in Nat /\ y \in Nat
    OBVIOUS
  <2>2. ~(y < x)
    BY <1>1, <2>1 DEF OpToRel
  <2> QED BY <2>1, <2>2
<1> QED BY <1>2

\* Two cuts, one after the other, are one.
LEMMA CutsJoin ==
  ASSUME NEW s, NEW t, NEW a \in Nat, NEW m \in Nat, NEW c \in Nat, NEW b \in Nat,
         Cut(s, a, m), Cut(t, c, b), a <= c, m < c, m <= b
  PROVE  /\ Cut(s \o t, a, b)
         /\ Len(s \o t) = Len(s) + Len(t)
         /\ \A i \in DOMAIN s : (s \o t)[i] = s[i] /\ i \in DOMAIN (s \o t)
         /\ \A i \in DOMAIN t : (s \o t)[Len(s) + i] = t[i] /\ Len(s) + i \in DOMAIN (s \o t)
         /\ \A i \in DOMAIN (s \o t) :
               \/ i \in DOMAIN s
               \/ i - Len(s) \in DOMAIN t /\ (s \o t)[i] = t[i - Len(s)]
<1> DEFINE u == s \o t
<1>1. s \in Seq(DocChunk) /\ t \in Seq(DocChunk)
  BY DEF Cut
<1> DEFINE H == DocChunk
<1> HIDE DEF H
<1>2. s \in Seq(H) /\ t \in Seq(H)
  BY <1>1 DEF H
<1>3. /\ u \in Seq(H) /\ Len(u) = Len(s) + Len(t)
      /\ DOMAIN s = 1..Len(s) /\ DOMAIN t = 1..Len(t) /\ DOMAIN u = 1..Len(u)
      /\ Len(s) \in Nat /\ Len(t) \in Nat
      /\ \A i \in 1..Len(u) : u[i] = IF i <= Len(s) THEN s[i] ELSE t[i - Len(s)]
  BY <1>2
<1> HIDE DEF u
<1>4. \A i \in DOMAIN s : u[i] = s[i] /\ i \in DOMAIN u
  BY <1>3
<1>5. \A i \in DOMAIN t : u[Len(s) + i] = t[i] /\ Len(s) + i \in DOMAIN u
  <2> SUFFICES ASSUME NEW i \in 1..Len(t) PROVE u[Len(s) + i] = t[i] /\ Len(s) + i \in DOMAIN u
    BY <1>3
  <2>1. Len(s) + i \in 1..Len(u) /\ ~(Len(s) + i <= Len(s)) /\ (Len(s) + i) - Len(s) = i
    BY <1>3
  <2> QED BY <1>3, <2>1
<1>6. \A i \in DOMAIN u : i \in DOMAIN s \/ (i - Len(s) \in DOMAIN t /\ u[i] = t[i - Len(s)])
  BY <1>3
<1>7. \A i \in DOMAIN s : s[i].start \in Nat /\ s[i].end \in Nat
  <2>1. \A i \in DOMAIN s : s[i] \in H
    BY <1>2
  <2> QED BY <2>1 DEF H, DocChunk
<1>8. \A i \in DOMAIN t : t[i].start \in Nat /\ t[i].end \in Nat
  <2>1. \A i \in DOMAIN t : t[i] \in H
    BY <1>2
  <2> QED BY <2>1 DEF H, DocChunk
<1>9. \A i \in DOMAIN u : a <= u[i].start /\ u[i].start <= u[i].end /\ u[i].end <= b
  <2> SUFFICES ASSUME NEW i \in DOMAIN u
               PROVE  a <= u[i].start /\ u[i].start <= u[i].end /\ u[i].end <= b
    OBVIOUS
  <2>1. CASE i \in DOMAIN s
    <3>1. a <= s[i].start /\ s[i].start <= s[i].end /\ s[i].end <= m
      BY <2>1 DEF Cut
    <3> QED BY ONLY <1>4, <1>7, <2>1, <3>1, m \in Nat, b \in Nat, m <= b
  <2>2. CASE i - Len(s) \in DOMAIN t /\ u[i] = t[i - Len(s)]
    <3>1. c <= t[i - Len(s)].start /\ t[i - Len(s)].start <= t[i - Len(s)].end /\ t[i - Len(s)].end <= b
      BY <2>2 DEF Cut
    <3> QED BY ONLY <1>8, <2>2, <3>1, a \in Nat, c \in Nat, a <= c
  <2> QED BY <1>6, <2>1, <2>2
<1>10. \A i, j \in DOMAIN u : i < j => u[i].end < u[j].start
  <2> SUFFICES ASSUME NEW i \in DOMAIN u, NEW j \in DOMAIN u, i < j PROVE u[i].end < u[j].start
    OBVIOUS
  <2>1. CASE j \in DOMAIN s
    <3>1. i \in DOMAIN s
      BY <1>3, <2>1
    <3>2. s[i].end < s[j].start
      BY <2>1, <3>1 DEF Cut
    <3> QED BY <1>4, <2>1, <3>1, <3>2
  <2>2. CASE i \in DOMAIN s /\ j - Len(s) \in DOMAIN t /\ u[j] = t[j - Len(s)]
    <3>1. s[i].end <= m /\ c <= t[j - Len(s)].start
      BY <2>2 DEF Cut
    <3> QED BY ONLY <1>4, <1>7, <1>8, <2>2, <3>1, m \in Nat, c \in Nat, m < c
  <2>3. CASE i - Len(s) \in DOMAIN t /\ u[i] = t[i - Len(s)] /\ j - Len(s) \in DOMAIN t /\ u[j] = t[j - Len(s)]
    <3>1. i - Len(s) < j - Len(s)
      BY <1>3
    <3>2. t[i - Len(s)].end < t[j - Len(s)].start
      BY <2>3, <3>1 DEF Cut
    <3> QED BY <2>3, <3>2
  <2> QED BY <1>6, <2>1, <2>2, <2>3
<1>11. Cut(u, a, b)
  BY <1>3, <1>9, <1>10 DEF Cut, H
<1> QED BY <1>3, <1>4, <1>5, <1>6, <1>11 DEF u

\* A single chunk.
LEMMA OneCut ==
  ASSUME NEW from \in Nat \ {0}, NEW to \in Nat, from <= to, NEW title \in Name \cup {NoName}
  PROVE  /\ Cut(<<document_chunk(from, to, title)>>, from, to)
         /\ DOMAIN <<document_chunk(from, to, title)>> = {1}
         /\ <<document_chunk(from, to, title)>>[1] = [start |-> from, end |-> to, name |-> title]
<1> DEFINE c == document_chunk(from, to, title)
<1>1. c \in DocChunk /\ c.start = from /\ c.end = to
  BY DEF document_chunk, DocChunk
<1> HIDE DEF c
<1>2. DOMAIN <<c>> = {1} /\ <<c>>[1] = c /\ Len(<<c>>) = 1
  OBVIOUS
<1>3. <<c>> \in Seq(DocChunk)
  <2> DEFINE H == DocChunk
  <2> HIDE DEF H
  <2>1. c \in H
    BY <1>1 DEF H
  <2>2. <<c>> \in Seq(H)
    BY <2>1
  <2> QED BY <2>2 DEF H
<1>4. Cut(<<c>>, from, to)
  BY <1>1, <1>2, <1>3 DEF Cut
<1> QED BY <1>2, <1>4 DEF c, document_chunk

\* Nothing is cut anywhere.
LEMMA NoCut == ASSUME NEW a, NEW b PROVE Cut(<<>>, a, b) /\ DOMAIN <<>> = {}
<1>1. <<>> \in Seq(DocChunk)
  <2> DEFINE H == DocChunk
  <2> HIDE DEF H
  <2>1. <<>> \in Seq(H)
    OBVIOUS
  <2> QED BY <2>1 DEF H
<1> QED BY <1>1 DEF Cut

\* Windows that overlap and leave no line out.
WindowsOK(s, n) ==
    /\ s \in Seq(DocChunk) /\ \A i \in DOMAIN s : s[i].name = NoName
    /\ \A i \in DOMAIN s : 1 <= s[i].start /\ s[i].start <= s[i].end /\ s[i].end <= n
    /\ \A i, j \in DOMAIN s : i < j => s[i].start < s[j].start /\ s[i].end < s[j].end
    /\ \A l \in 1..n : Covers(s, l)

\* The windows of chunk_text: each begins and ends after the one before it, and no line is
\* left out.
LEMMA WindowsAre ==
  ASSUME NEW n \in Nat
  PROVE  WindowsOK(chunk_text(n, Window, Stride), n)
<1> DEFINE T == chunk_text(n, Window, Stride)
           At(i) == (i - 1) * Stride
           Short(i) == At(i) + Window >= n
           Stops(i) == Short(i) /\ \A j \in 1..(i - 1) : ~Short(j)
<1>1. CASE n = 0
  <2>1. T = <<>>
    BY <1>1 DEF chunk_text
  <2>2. <<>> \in Seq(DocChunk) /\ DOMAIN <<>> = {}
    <3>1. Cut(<<>>, 1, 1)
      BY NoCut
    <3> QED BY <3>1 DEF Cut
  <2>3. 1..n = {}
    BY <1>1
  <2> HIDE DEF T
  <2>4. WindowsOK(<<>>, n)
    BY ONLY <2>2, <2>3 DEF WindowsOK
  <2> QED BY <2>1, <2>4 DEF T
<1>2. CASE n # 0
  <2>0. Window \in Nat \ {0} /\ Stride \in Nat \ {0} /\ Stride <= Window
    BY DocAssumption
  <2>1. /\ \A i \in Nat \ {0} : At(i) \in Nat /\ At(i + 1) = At(i) + Stride /\ i <= At(i) + 1
        /\ \A i, j \in Nat \ {0} : i < j => At(i) + Stride <= At(j)
    <3>1. /\ \A a \in Nat : a * Stride \in Nat /\ (a + 1) * Stride = a * Stride + Stride /\ a <= a * Stride
          /\ \A a, b \in Nat : a < b => a * Stride + Stride <= b * Stride
      BY <2>0, Multiples
    <3>2. ASSUME NEW i \in Nat \ {0} PROVE At(i) \in Nat /\ At(i + 1) = At(i) + Stride /\ i <= At(i) + 1
      <4>1. i - 1 \in Nat /\ (i - 1) + 1 = (i + 1) - 1
        OBVIOUS
      <4> QED BY <3>1, <4>1
    <3>3. ASSUME NEW i \in Nat \ {0}, NEW j \in Nat \ {0}, i < j PROVE At(i) + Stride <= At(j)
      <4>1. i - 1 \in Nat /\ j - 1 \in Nat /\ i - 1 < j - 1
        BY <3>3
      <4> QED BY <3>1, <4>1
    <3> QED BY <3>2, <3>3
  <2>2. At(1) = 0
    BY <2>0
  <2> HIDE DEF At
  <2>3. PICK m \in 1..n : Stops(m)
    <3> DEFINE S == {i \in 1..n : Short(i)}
    <3>1. n \in S
      BY <1>2, <2>0, <2>1
    <3>2. PICK m \in S : \A y \in S : m <= y
      <4>1. S \in SUBSET Nat /\ S # {}
        BY <3>1
      <4> QED BY <4>1, FirstOf
    <3>3. Stops(m)
      BY <3>2
    <3> QED BY <3>2, <3>3
  <2> DEFINE K == CHOOSE i \in 1..n : Stops(i)
  <2>4. K \in 1..n /\ Stops(K)
    BY <2>3
  <2>5. T = [i \in 1..K |-> document_chunk(At(i) + 1, Min({At(i) + Window, n}), NoName)]
    BY <1>2 DEF chunk_text, At
  <2> HIDE DEF K, T
  <2>6. K \in Nat /\ DOMAIN T = 1..K
    BY <2>4, <2>5
  <2>7. ASSUME NEW i \in 1..K
        PROVE  /\ T[i].name = NoName /\ T[i].start = At(i) + 1
               /\ T[i].end = IF i = K THEN n ELSE At(i) + Window
               /\ T[i] \in DocChunk
               /\ 1 <= T[i].start /\ T[i].start <= T[i].end /\ T[i].end <= n
               /\ i # K => At(i) + Window < n
    <3>0. i \in Nat \ {0}
      BY <2>6
    <3>1. At(i) \in Nat /\ At(i) + Window \in Nat /\ n \in Nat /\ i \in Nat \ {0}
      <4>1. At(i) \in Nat
        BY ONLY <2>1, <3>0
      <4> HIDE DEF At
      <4> QED BY <2>0, <3>0, <4>1
    <3>2. Min({At(i) + Window, n}) = IF At(i) + Window <= n THEN At(i) + Window ELSE n
      BY <3>1, LesserOf
    <3>3. i = K => At(i) + Window >= n
      BY <2>4
    <3>4. i # K => At(i) + Window < n
      <4>1. i # K => i \in 1..(K - 1)
        BY <2>6
      <4> QED BY <2>4, <3>1, <4>1
    <3>5. Min({At(i) + Window, n}) = IF i = K THEN n ELSE At(i) + Window
      BY <3>1, <3>2, <3>3, <3>4
    <3>6. At(i) + 1 <= n
      <4>1. CASE i = 1
        BY <1>2, <2>2, <4>1
      <4>2. CASE i # 1
        <5>1. i - 1 \in 1..(K - 1) /\ i - 1 \in Nat \ {0} /\ (i - 1) + 1 = i
          BY <2>6, <4>2
        <5>2. At(i - 1) + Window < n
          BY <2>0, <2>1, <2>4, <5>1
        <5>3. At(i) = At(i - 1) + Stride /\ At(i - 1) \in Nat
          BY <2>1, <5>1
        <5> QED BY <2>0, <3>1, <5>2, <5>3
      <4> QED BY <4>1, <4>2
    <3>7. T[i] = [start |-> At(i) + 1, end |-> IF i = K THEN n ELSE At(i) + Window, name |-> NoName]
      BY <2>5, <3>5 DEF document_chunk
    <3>8. T[i].name = NoName /\ T[i].start = At(i) + 1 /\ T[i].end = IF i = K THEN n ELSE At(i) + Window
      BY ONLY <3>7
    <3>9. T[i] \in DocChunk
      BY <2>0, <3>1, <3>7 DEF DocChunk
    <3> QED BY <2>0, <3>1, <3>4, <3>6, <3>8, <3>9
  <2>8. T \in Seq(DocChunk)
    <3>1. T = [i \in 1..K |-> T[i]]
      BY <2>5
    <3> DEFINE H == DocChunk
    <3>2. \A i \in 1..K : T[i] \in H
      BY <2>7
    <3> HIDE DEF H
    <3>3. T \in Seq(H)
      BY <2>6, <3>1, <3>2
    <3> QED BY <3>3 DEF H
  <2>9. ASSUME NEW i \in 1..K, NEW j \in 1..K, i < j
        PROVE  T[i].start < T[j].start /\ T[i].end < T[j].end
    <3>1. i # K /\ i \in Nat \ {0} /\ j \in Nat \ {0}
      BY <2>6, <2>9
    <3>2. At(i) + Stride <= At(j) /\ At(i) \in Nat /\ At(j) \in Nat
      BY <2>1, <2>9, <3>1
    <3>3. T[i].end = At(i) + Window /\ At(i) + Window < n
      BY <2>7, <3>1
    <3>4. T[i].start = At(i) + 1 /\ T[j].start = At(j) + 1 /\ T[j].end = IF j = K THEN n ELSE At(j) + Window
      BY <2>7
    <3> QED BY <2>0, <3>2, <3>3, <3>4
  <2>10. ASSUME NEW l \in 1..n PROVE Covers(T, l)
    <3> DEFINE S == {i \in 1..K : i = K \/ l <= At(i + 1)}
    <3>1. K \in S
      BY <2>4
    <3>2. PICK i \in S : \A y \in S : i <= y
      <4>1. S \in SUBSET Nat /\ S # {}
        BY <2>6, <3>1
      <4> QED BY <4>1, FirstOf
    <3>3. i \in 1..K /\ i \in Nat \ {0} /\ At(i) \in Nat /\ At(i + 1) = At(i) + Stride
      <4>1. i \in 1..K /\ i \in Nat \ {0}
        BY <2>6, <3>2
      <4> QED BY <2>1, <4>1
    <3>4. At(i) < l
      <4>1. CASE i = 1
        BY <2>2, <4>1
      <4>2. CASE i # 1
        <5>1. i - 1 \in 1..K /\ i - 1 # K /\ (i - 1) + 1 = i
          BY <2>6, <3>3, <4>2
        <5>2. i - 1 \notin S
          BY <2>6, <3>2, <3>3
        <5> QED BY <3>3, <5>1, <5>2
      <4> QED BY <4>1, <4>2
    <3>5. l <= T[i].end
      BY <2>0, <2>7, <3>2, <3>3
    <3>6. T[i].start <= l
      BY <2>7, <3>3, <3>4
    <3> QED BY <2>6, <3>3, <3>5, <3>6 DEF Covers
  <2>11. WindowsOK(T, n)
    BY <2>6, <2>7, <2>8, <2>9, <2>10 DEF WindowsOK
  <2> QED BY <2>11 DEF T
<1> QED BY <1>1, <1>2

\* The quotient and the rest of a division.
LEMMA Division ==
  ASSUME NEW a \in Nat, NEW p \in Nat \ {0}
  PROVE  a \div p \in Nat /\ (a \div p) * p <= a /\ a < (a \div p) * p + p
OBVIOUS

\* Pieces of a paragraph that leave no line out.
PiecesOK(s, from, to) ==
    /\ Cut(s, from, to) /\ DOMAIN s # {}
    /\ \A l \in from..to : Covers(s, l)
    /\ \A i \in DOMAIN s :
          /\ s[i].end - s[i].start < PLAINTEXT_MAX_LINES
          /\ s[i].end - s[i].start = PLAINTEXT_MAX_LINES - 1 \/ s[i].end = to

\* The pieces of a paragraph: none too long, and all but the last as long as they may be.
LEMMA PiecesAre ==
  ASSUME NEW from \in Nat \ {0}, NEW to \in Nat, from <= to
  PROVE  PiecesOK(Paragraph(from, to), from, to)
<1> DEFINE T == Paragraph(from, to)
           P == PLAINTEXT_MAX_LINES
           Q == (to - from) \div P
           K == Q + 1
           At(i) == (i - 1) * P
<1>0. P \in Nat \ {0} /\ to - from \in Nat
  BY DocAssumption
<1>1. Q \in Nat /\ Q * P <= to - from /\ to - from < Q * P + P
  <2> HIDE DEF P
  <2> QED BY <1>0, Division
<1>2. T = [i \in 1..K |-> document_chunk(from + At(i), Min({from + i * P - 1, to}), NoName)]
  BY DEF Paragraph
<1>3. At(K) = Q * P
  BY <1>1
<1> HIDE DEF P, Q, T
<1>4. /\ \A i \in Nat \ {0} : At(i) \in Nat /\ i * P = At(i) + P /\ At(i + 1) = At(i) + P
      /\ \A i, j \in Nat \ {0} : i < j => At(i) + P <= At(j)
  <2>1. /\ \A a \in Nat : a * P \in Nat /\ (a + 1) * P = a * P + P /\ a <= a * P
        /\ \A a, b \in Nat : a < b => a * P + P <= b * P
    BY <1>0, Multiples
  <2>2. ASSUME NEW i \in Nat \ {0} PROVE At(i) \in Nat /\ i * P = At(i) + P /\ At(i + 1) = At(i) + P
    <3>1. i - 1 \in Nat /\ (i - 1) + 1 = i /\ (i + 1) - 1 = i
      OBVIOUS
    <3> QED BY <2>1, <3>1
  <2>3. ASSUME NEW i \in Nat \ {0}, NEW j \in Nat \ {0}, i < j PROVE At(i) + P <= At(j)
    <3>1. i - 1 \in Nat /\ j - 1 \in Nat /\ i - 1 < j - 1
      BY <2>3
    <3> QED BY <2>1, <3>1
  <2> QED BY <2>2, <2>3
<1>5. At(1) = 0
  BY <1>0
<1>6. K \in Nat \ {0} /\ At(K) <= to - from /\ to - from < At(K) + P
  BY <1>1, <1>3
<1> HIDE DEF At, K
<1>7. DOMAIN T = 1..K /\ 1 \in 1..K
  BY <1>2, <1>6
<1>8. ASSUME NEW i \in 1..K
      PROVE  /\ T[i] \in DocChunk
             /\ T[i].start = from + At(i) /\ T[i].end = IF i = K THEN to ELSE from + At(i) + P - 1
             /\ i # K => At(i) + P <= At(K)
             /\ At(i) \in Nat /\ At(i) <= At(K) /\ At(K) \in Nat
  <2>1. i \in Nat \ {0} /\ At(i) \in Nat /\ i * P = At(i) + P /\ At(K) \in Nat
    BY <1>4, <1>6
  <2>2. i # K => At(i) + P <= At(K)
    BY <1>4, <1>6, <2>1
  <2>3. Min({from + i * P - 1, to}) = IF from + i * P - 1 <= to THEN from + i * P - 1 ELSE to
    <3>1. from + i * P - 1 \in Int /\ to \in Int
      BY <1>0, <2>1
    <3> QED BY ONLY <3>1, LesserOf
  <2>4. Min({from + i * P - 1, to}) = IF i = K THEN to ELSE from + At(i) + P - 1
    <3>1. CASE i = K
      <4>1. ~(from + i * P - 1 < to)
        BY <1>0, <1>6, <2>1, <3>1
      <4> QED BY <1>0, <2>1, <2>3, <3>1, <4>1
    <3>2. CASE i # K
      <4>1. from + i * P - 1 <= to
        BY <1>0, <1>6, <2>1, <2>2, <3>2
      <4> QED BY <1>0, <2>1, <2>3, <3>2, <4>1
    <3> QED BY <3>1, <3>2
  <2>5. T[i] = [start |-> from + At(i), end |-> IF i = K THEN to ELSE from + At(i) + P - 1, name |-> NoName]
    BY <1>2, <2>4 DEF document_chunk
  <2>6. T[i].start = from + At(i) /\ T[i].end = IF i = K THEN to ELSE from + At(i) + P - 1
    BY ONLY <2>5
  <2>7. T[i] \in DocChunk
    BY <1>0, <2>1, <2>5 DEF DocChunk
  <2> QED BY <1>0, <2>1, <2>2, <2>6, <2>7
<1>9. \A i \in 1..K : from <= T[i].start /\ T[i].start <= T[i].end /\ T[i].end <= to
  BY <1>0, <1>6, <1>8
<1>10. \A i, j \in 1..K : i < j => T[i].end < T[j].start
  <2> SUFFICES ASSUME NEW i \in 1..K, NEW j \in 1..K, i < j PROVE T[i].end < T[j].start
    OBVIOUS
  <2>1. i \in Nat \ {0} /\ j \in Nat \ {0} /\ i # K
    BY <1>6
  <2>2. At(i) + P <= At(j)
    BY <1>4, <2>1
  <2> QED BY <1>0, <1>8, <2>1, <2>2
<1>11. T \in Seq(DocChunk)
  <2>1. T = [i \in 1..K |-> T[i]]
    BY <1>2
  <2> DEFINE H == DocChunk
  <2>2. \A i \in 1..K : T[i] \in H
    BY <1>8
  <2> HIDE DEF H
  <2>3. T \in Seq(H)
    BY <1>6, <2>1, <2>2
  <2> QED BY <2>3 DEF H
<1>12. ASSUME NEW l \in from..to PROVE Covers(T, l)
  <2> DEFINE S == {i \in 1..K : i = K \/ l < from + At(i + 1)}
  <2>1. K \in S
    BY <1>6
  <2>2. PICK i \in S : \A y \in S : i <= y
    <3>1. S \in SUBSET Nat /\ S # {}
      BY <1>6, <2>1
    <3> QED BY <3>1, FirstOf
  <2>3. i \in 1..K /\ i \in Nat \ {0} /\ At(i) \in Nat /\ At(i + 1) = At(i) + P
    BY <1>4, <1>6, <2>2
  <2>4. from + At(i) <= l
    <3>1. CASE i = 1
      BY <1>5, <3>1
    <3>2. CASE i # 1
      <4>1. i - 1 \in 1..K /\ i - 1 # K /\ (i - 1) + 1 = i
        BY <1>6, <2>3, <3>2
      <4>2. i - 1 \notin S
        BY <1>6, <2>2, <2>3
      <4> QED BY <2>3, <4>1, <4>2
    <3> QED BY <3>1, <3>2
  <2>5. l <= T[i].end /\ T[i].start <= l
    BY <1>0, <1>8, <2>2, <2>3, <2>4
  <2> QED BY <1>7, <2>3, <2>5 DEF Covers
<1>13. \A i \in 1..K : /\ T[i].end - T[i].start < P
                       /\ T[i].end - T[i].start = P - 1 \/ T[i].end = to
  BY <1>0, <1>6, <1>8
<1>14. Cut(T, from, to)
  BY <1>7, <1>9, <1>10, <1>11 DEF Cut
<1>15. PiecesOK(T, from, to)
  <2>1. DOMAIN T # {} /\ \A l \in from..to : Covers(T, l)
    BY <1>7, <1>12
  <2>2. \A i \in DOMAIN T : /\ T[i].end - T[i].start < PLAINTEXT_MAX_LINES
                            /\ T[i].end - T[i].start = PLAINTEXT_MAX_LINES - 1 \/ T[i].end = to
    <3>1. P = PLAINTEXT_MAX_LINES
      BY DEF P
    <3> QED BY ONLY <1>7, <1>13, <3>1
  <2> QED BY ONLY <1>14, <2>1, <2>2 DEF PiecesOK
<1> QED BY <1>15 DEF T

-----------------------------------------------------------------------------
(* Steps of the scanner.                                                   *)

\* The lines before the one that is read stay.
Reads(line) ==
    /\ line \in LinesOf(ext) /\ lines' = Append(lines, line) /\ Len(lines) < MaxLines
    /\ UNCHANGED <<ext, done>>

\* A line that is read comes after the others.
LEMMA LinesStay ==
  ASSUME Cursor, NEW line, Reads(line), NEW n, n = Len(lines)
  PROVE  /\ lines' \in Seq(LinesOf(ext')) /\ n \in Nat /\ Len(lines') = n + 1 /\ n + 1 <= MaxLines
         /\ \A i \in 1..n : lines'[i] = lines[i]
         /\ lines'[n + 1] = line
         /\ DOMAIN lines = 1..n
<1> DEFINE U == LinesOf(ext)
<1>1. lines \in Seq(U) /\ line \in U /\ lines' = Append(lines, line) /\ ext' = ext
  BY DEF Cursor, Reads
<1>2. U' = U
  BY <1>1 DEF LinesOf
<1>3. MaxLines \in Nat /\ Len(lines) < MaxLines
  BY DocAssumption DEF Reads
<1> HIDE DEF U
<1>4. /\ lines' \in Seq(U) /\ n \in Nat /\ Len(lines') = n + 1
      /\ \A i \in 1..n : lines'[i] = lines[i]
      /\ lines'[n + 1] = line /\ DOMAIN lines = 1..n
  BY <1>1
<1> QED BY <1>1, <1>2, <1>3, <1>4 DEF U

\* What is a header stays one, and so does what is in a code block.
LEMMA HeadersStay ==
  ASSUME Cursor, NEW line, Reads(line), NEW n, n = Len(lines)
  PROVE  /\ \A i \in 1..(n + 1) : Fenced(i)' <=> Fenced(i)
         /\ \A i \in 1..n : Header(i)' <=> Header(i)
         /\ Fenced(n + 2)' <=> (IF line.kind \in {"backticks", "tildes"} THEN ~Fenced(n + 1)
                                ELSE Fenced(n + 1))
<1> DEFINE
           F(i) == {j \in 1..(i - 1) : lines[j].kind \in {"backticks", "tildes"}}
           G(i) == {j \in 1..(i - 1) : lines'[j].kind \in {"backticks", "tildes"}}
<1>1. n \in Nat /\ (\A i \in 1..n : lines'[i] = lines[i]) /\ lines'[n + 1] = line /\ ext' = ext
  BY LinesStay DEF Reads
<1>2. ASSUME NEW i \in 1..(n + 1) PROVE G(i) = F(i)
  <2>1. \A j \in 1..(i - 1) : j \in 1..n
    BY <1>1
  <2> QED BY <1>1, <2>1
<1>3. \A i \in 1..(n + 1) : Fenced(i)' <=> Fenced(i)
  <2> SUFFICES ASSUME NEW i \in 1..(n + 1) PROVE Fenced(i)' <=> Fenced(i)
    OBVIOUS
  <2>1. (Fenced(i) <=> Cardinality(F(i)) % 2 = 1) /\ (Fenced(i)' <=> Cardinality(G(i)) % 2 = 1)
    BY DEF Fenced
  <2> QED BY <1>2, <2>1
<1>4. \A i \in 1..n : Header(i)' <=> Header(i)
  <2> SUFFICES ASSUME NEW i \in 1..n PROVE Header(i)' <=> Header(i)
    OBVIOUS
  <2>1. i \in 1..(n + 1) /\ lines'[i] = lines[i]
    BY <1>1
  <2>2. Fenced(i)' <=> Fenced(i)
    BY <1>3, <2>1
  <2> QED BY <1>1, <2>1, <2>2 DEF Header, header_of
<1>5. IsFiniteSet(F(n + 1)) /\ Cardinality(F(n + 1)) \in Nat
  <2>1. IsFiniteSet(1..n)
    BY <1>1, FS_Interval
  <2>2. F(n + 1) \subseteq 1..n
    BY <1>1
  <2>3. IsFiniteSet(F(n + 1))
    BY <2>1, <2>2, FS_Subset
  <2> QED BY <2>3, FS_CardinalityType
<1>6. G(n + 2) = IF line.kind \in {"backticks", "tildes"} THEN F(n + 1) \cup {n + 1} ELSE F(n + 1)
  <2>1. (n + 2) - 1 = n + 1 /\ (n + 1) - 1 = n
    BY <1>1
  <2>2. \A j : j \in 1..(n + 1) <=> (j \in 1..n \/ j = n + 1)
    BY <1>1
  <2> QED BY <1>1, <2>1, <2>2
<1>7. n + 1 \notin F(n + 1)
  BY <1>1
<1>8. Cardinality(G(n + 2)) = Cardinality(F(n + 1)) + (IF line.kind \in {"backticks", "tildes"} THEN 1 ELSE 0)
  <2>1. Cardinality(F(n + 1) \cup {n + 1}) = Cardinality(F(n + 1)) + 1
    <3> HIDE DEF F
    <3> QED BY <1>5, <1>7, FS_AddElement
  <2> HIDE DEF F, G
  <2> QED BY <1>5, <1>6, <2>1
<1>9. Fenced(n + 2)' <=> (IF line.kind \in {"backticks", "tildes"} THEN ~Fenced(n + 1) ELSE Fenced(n + 1))
  <2>1. (Fenced(n + 1) <=> Cardinality(F(n + 1)) % 2 = 1) /\ (Fenced(n + 2)' <=> Cardinality(G(n + 2)) % 2 = 1)
    BY DEF Fenced
  <2> HIDE DEF F, G
  <2>2. \A c \in Nat : ((c + 1) % 2 = 1 <=> ~(c % 2 = 1)) /\ c + 0 = c
    OBVIOUS
  <2> QED BY <1>5, <1>8, <2>1, <2>2
<1> QED BY <1>3, <1>4, <1>9

\* A section that is flushed: its lines, unless they are blank.
LEMMA FlushedIs ==
  ASSUME Cursor, start # 0
  PROVE  /\ Cut(Flushed, start, Len(lines))
         /\ \/ Flushed = <<>> /\ DOMAIN Flushed = {} /\ \A i \in start..Len(lines) : Blank(lines[i])
            \/ /\ start <= Len(lines) /\ DOMAIN Flushed = {1} /\ Flushed # <<>>
               /\ Flushed[1] = [start |-> start, end |-> Len(lines), name |-> name]
<1>1. start \in Nat \ {0} /\ Len(lines) \in Nat /\ name \in Name \cup {NoName}
  <2> DEFINE U == LinesOf(ext)
  <2>1. lines \in Seq(U) /\ start \in 0..Len(lines) + 1 /\ name \in Name \cup {NoName}
    BY DEF Cursor
  <2> HIDE DEF U
  <2> QED BY <2>1
<1>2. CASE \E i \in start..Len(lines) : ~Blank(lines[i])
  <2>1. Flushed = <<document_chunk(start, Len(lines), name)>>
    BY <1>2 DEF Flushed
  <2>2. start <= Len(lines)
    BY <1>1, <1>2
  <2>3. PICK from \in Nat \ {0}, to \in Nat, title \in Name \cup {NoName} :
               from = start /\ to = Len(lines) /\ title = name
    BY <1>1
  <2> DEFINE s == <<document_chunk(from, to, title)>>
  <2>4. Cut(s, from, to) /\ DOMAIN s = {1} /\ s[1] = [start |-> from, end |-> to, name |-> title]
    BY <2>2, <2>3, OneCut
  <2>5. Flushed = s /\ s # <<>>
    BY <2>1, <2>3
  <2> HIDE DEF s
  <2> QED BY ONLY <2>2, <2>3, <2>4, <2>5
<1>3. CASE ~\E i \in start..Len(lines) : ~Blank(lines[i])
  <2>1. Flushed = <<>>
    BY <1>3 DEF Flushed
  <2>2. Cut(<<>>, start, Len(lines)) /\ DOMAIN <<>> = {}
    BY NoCut
  <2> QED BY <1>3, <2>1, <2>2
<1> QED BY <1>2, <1>3

\* A header is no blank line.
LEMMA HeadersHaveText ==
  ASSUME NEW i, Header(i) PROVE ~Blank(lines[i])
BY DEF Header, header_of, Blank, NoName

\* What cuts ahead of the cursor say of the chunks.
LEMMA CutTypes ==
  ASSUME NEW s, NEW a \in Nat, NEW b \in Nat, Cut(s, a, b), NEW i \in DOMAIN s
  PROVE  /\ s[i] \in DocChunk /\ s[i].start \in a..b /\ s[i].end \in a..b /\ s[i].start <= s[i].end
         /\ s[i].name \in Name \cup {NoName}
<1>1. s[i] \in DocChunk
  <2> DEFINE H == DocChunk
  <2>1. s \in Seq(H)
    BY DEF Cut
  <2> HIDE DEF H
  <2>2. s[i] \in H
    BY <2>1
  <2> QED BY <2>2 DEF H
<1>2. a <= s[i].start /\ s[i].start <= s[i].end /\ s[i].end <= b
  BY DEF Cut
<1>3. s[i].start \in Nat /\ s[i].end \in Nat /\ s[i].name \in Name \cup {NoName}
  BY <1>1 DEF DocChunk
<1> QED BY ONLY <1>1, <1>2, <1>3, a \in Nat, b \in Nat

\* With its open section, a document is cut at its headers.
LEMMA SectionClosed ==
  ASSUME Cursor, SectionInv, ext \in Sections
  PROVE  SectionsAre(out \o Flushed)
<1>1. PICK n \in Nat : n = Len(lines)
  <2> DEFINE U == LinesOf(ext)
  <2>1. lines \in Seq(U)
    BY DEF Cursor
  <2> HIDE DEF U
  <2> QED BY <2>1
<1>2. start \in 1..(n + 1) /\ Cut(out, 1, start - 1) /\ start - 1 \in Nat /\ start \in Nat
  BY <1>1 DEF Cursor, SectionInv
<1>3. PICK s, t : s = out /\ t = Flushed
  OBVIOUS
<1>4. /\ Cut(t, start, n)
      /\ \/ t = <<>> /\ DOMAIN t = {} /\ \A i \in start..n : Blank(lines[i])
         \/ /\ start <= n /\ DOMAIN t = {1} /\ t[1] = [start |-> start, end |-> n, name |-> name]
  BY <1>1, <1>2, <1>3, FlushedIs
<1>5. /\ Cut(s \o t, 1, n)
      /\ \A i \in DOMAIN s : (s \o t)[i] = s[i] /\ i \in DOMAIN (s \o t)
      /\ \A i \in DOMAIN t : (s \o t)[Len(s) + i] = t[i] /\ Len(s) + i \in DOMAIN (s \o t)
      /\ \A i \in DOMAIN (s \o t) :
            \/ i \in DOMAIN s
            \/ i - Len(s) \in DOMAIN t /\ (s \o t)[i] = t[i - Len(s)]
  <2>1. Cut(s, 1, start - 1) /\ 1 <= start /\ start - 1 < start /\ start - 1 <= n /\ 1 \in Nat
    BY <1>1, <1>2, <1>3
  <2> QED BY <1>1, <1>2, <1>4, <2>1, CutsJoin
<1>6. PICK u : u = s \o t
  OBVIOUS
<1>7. ASSUME NEW i \in 1..n, ~Blank(lines[i]) PROVE Covers(u, i)
  <2>1. CASE i < start
    <3>1. PICK k \in DOMAIN s : s[k].start <= i /\ i <= s[k].end
      BY <1>1, <1>3, <1>7, <2>1 DEF SectionInv, Covers
    <3> QED BY <1>5, <1>6, <3>1 DEF Covers
  <2>2. CASE ~(i < start)
    <3>1. i \in start..n
      BY <1>1, <1>2, <2>2
    <3>2. 1 \in DOMAIN t /\ t[1].start = start /\ t[1].end = n
      BY <1>4, <1>7, <3>1
    <3>3. u[Len(s) + 1] = t[1] /\ Len(s) + 1 \in DOMAIN u
      BY <1>5, <1>6, <3>2
    <3> QED BY <3>1, <3>2, <3>3 DEF Covers
  <2> QED BY <2>1, <2>2
<1>8. ASSUME NEW i \in 1..n, Header(i)
      PROVE  \E k \in DOMAIN u : u[k].start = i /\ u[k].name = lines[i].name
  <2>1. CASE i = start /\ name = lines[i].name
    <3>1. i \in start..n /\ ~Blank(lines[i])
      BY <1>2, <1>8, <2>1, HeadersHaveText
    <3>2. 1 \in DOMAIN t /\ t[1].start = start /\ t[1].name = name
      BY <1>4, <3>1
    <3>3. u[Len(s) + 1] = t[1] /\ Len(s) + 1 \in DOMAIN u
      BY <1>5, <1>6, <3>2
    <3> QED BY <2>1, <3>2, <3>3
  <2>2. CASE \E k \in DOMAIN out : out[k].start = i /\ out[k].name = lines[i].name
    <3>1. PICK k \in DOMAIN s : s[k].start = i /\ s[k].name = lines[i].name
      BY <1>3, <2>2
    <3> QED BY <1>5, <1>6, <3>1
  <2> QED BY <1>1, <1>8, <2>1, <2>2 DEF SectionInv
<1>9. ASSUME NEW k \in DOMAIN u, u[k].start > 1 PROVE Header(u[k].start)
  <2>1. CASE k \in DOMAIN s
    BY <1>3, <1>5, <1>6, <1>9, <2>1 DEF SectionInv
  <2>2. CASE k - Len(s) \in DOMAIN t /\ u[k] = t[k - Len(s)]
    <3>1. start <= n /\ u[k].start = start
      BY <1>4, <2>2
    <3>2. start # 1
      BY <1>9, <3>1
    <3> QED BY <1>2, <3>1, <3>2 DEF SectionInv
  <2> QED BY <1>5, <1>6, <2>1, <2>2
<1>10. SectionsAre(u)
  BY <1>1, <1>5, <1>6, <1>7, <1>8, <1>9 DEF SectionsAre
<1> QED BY <1>3, <1>6, <1>10

\* A line that is no header goes on with the section, a header starts another.
LEMMA SectionStep ==
  ASSUME Cursor, SectionInv, ext \in Sections, NEW line, Reads(line), NEW n, n = Len(lines),
         fence' \in BOOLEAN, depth' = depth,
         ext \in Markdown => (fence' <=> Fenced(n + 2)'),
         IF Header(n + 1)' THEN NewSection(line.name) /\ line.name \in Name \cup {NoName}
         ELSE UNCHANGED <<start, name, out>>
  PROVE  Cursor' /\ SectionInv'
<1>1. /\ lines' \in Seq(LinesOf(ext')) /\ n \in Nat /\ Len(lines') = n + 1 /\ n + 1 <= MaxLines
      /\ \A i \in 1..n : lines'[i] = lines[i]
      /\ lines'[n + 1] = line /\ ext' = ext
  BY LinesStay DEF Reads
<1>2. \A i \in 1..n : Header(i)' <=> Header(i)
  BY HeadersStay
<1>3. start \in 1..(n + 1) /\ Cut(out, 1, start - 1) /\ start - 1 \in Nat /\ start \in Nat
  BY <1>1 DEF Cursor, SectionInv
<1>4. \A i \in 1..n : Blank(lines[i])' <=> Blank(lines[i])
  BY <1>1 DEF Blank
<1>5. ext' \in Ext /\ Len(lines') <= MaxLines /\ fence' \in BOOLEAN /\ depth' \in Int
  BY <1>1 DEF Cursor
<1>6. ext' \in Markdown => (fence' <=> Fenced(Len(lines) + 1)')
  BY <1>1 DEF Fenced
<1>7. \A k \in DOMAIN out : out[k].start \in 1..n
  <2> SUFFICES ASSUME NEW k \in DOMAIN out PROVE out[k].start \in 1..n
    OBVIOUS
  <2>1. out[k].start \in 1..(start - 1)
    BY <1>3, CutTypes
  <2> QED BY <1>3, <2>1
<1>8. CASE ~Header(n + 1)'
  <2>1. start' = start /\ name' = name /\ out' = out
    BY <1>8
  <2>2. Cut(out, 1, start - 1)'
    BY <1>3, <2>1 DEF Cut
  <2>3. Cursor'
    BY <1>1, <1>3, <1>5, <2>1, <2>2 DEF Cursor
  <2>4. start' \in 1..Len(lines') + 1
    BY <1>1, <1>3, <2>1
  <2>5. \/ start' = 1 /\ name' = NoName
        \/ start' <= Len(lines') /\ Header(start)' /\ name' = lines'[start'].name
    <3>1. CASE start = 1 /\ name = NoName
      BY <2>1, <3>1
    <3>2. CASE start <= n /\ Header(start) /\ name = lines[start].name
      <4>1. PICK m \in 1..n : m = start
        BY <1>3, <3>2
      <4>2. Header(m)'
        BY <1>2, <3>2, <4>1
      <4>3. m = start'
        BY <2>1, <4>1
      <4>4. Header(start)'
        BY <4>2, <4>3 DEF Header, header_of, Fenced
      <4> QED BY <1>1, <2>1, <3>2, <4>1, <4>4
    <3> QED BY <1>1, <3>1, <3>2 DEF SectionInv
  <2>6. \A i \in 1..Len(lines') : i < start' /\ ~Blank(lines'[i]) => Covers(out', i)
    <3> SUFFICES ASSUME NEW i \in 1..(n + 1), i < start, ~Blank(lines'[i]) PROVE Covers(out', i)
      BY <1>1, <2>1
    <3>1. i \in 1..n /\ ~Blank(lines[i])
      BY <1>1, <1>3 DEF Blank
    <3>2. Covers(out, i)
      BY <1>1, <3>1 DEF SectionInv
    <3> QED BY <2>1, <3>2
  <2>7. \A i \in 1..Len(lines') : Header(i)' =>
          \/ i = start' /\ name' = lines'[i].name
          \/ \E k \in DOMAIN out' : out'[k].start = i /\ out'[k].name = lines'[i].name
    <3> SUFFICES ASSUME NEW i \in 1..(n + 1), Header(i)'
                 PROVE  \/ i = start /\ name = lines'[i].name
                        \/ \E k \in DOMAIN out : out[k].start = i /\ out[k].name = lines'[i].name
      BY <1>1, <2>1
    <3>1. i # n + 1
      BY <1>8
    <3>2. i \in 1..n /\ lines'[i] = lines[i]
      BY <1>1, <3>1
    <3>3. Header(i)
      BY <1>2, <3>2
    <3> QED BY <1>1, <3>2, <3>3 DEF SectionInv
  <2>8. \A k \in DOMAIN out' : out'[k].start > 1 => Header(out[k].start)'
    <3> SUFFICES ASSUME NEW k \in DOMAIN out, out[k].start > 1 PROVE Header(out[k].start)'
      BY <2>1
    <3>1. PICK m \in 1..n : m = out[k].start
      BY <1>7
    <3>2. Header(m)'
      BY <1>2, <3>1 DEF SectionInv
    <3>3. m = out'[k].start
      BY <2>1, <3>1
    <3> QED BY <3>2, <3>3 DEF Header, header_of, Fenced
  <2>9. SectionInv'
    BY <1>1, <1>6, <2>4, <2>5, <2>6, <2>7, <2>8 DEF SectionInv
  <2> QED BY <2>3, <2>9
<1>9. CASE Header(n + 1)'
  <2>1. out' = out \o Flushed /\ start' = n + 1 /\ name' = line.name /\ line.name \in Name \cup {NoName}
    BY <1>9 DEF NewSection, Here
  <2>2. PICK u : u = out \o Flushed /\ u = out'
    BY <2>1
  <2>3. /\ Cut(u, 1, n) /\ \A i \in 1..n : ~Blank(lines[i]) => Covers(u, i)
        /\ \A i \in 1..n : Header(i) => \E k \in DOMAIN u : u[k].start = i /\ u[k].name = lines[i].name
        /\ \A k \in DOMAIN u : u[k].start > 1 => Header(u[k].start)
    <3>1. SectionsAre(u)
      BY <2>2, SectionClosed
    <3> QED BY <1>1, <3>1 DEF SectionsAre
  <2>4. Cursor'
    <3>1. start' - 1 = n /\ start' # 0
      BY <1>1, <2>1
    <3> QED BY <1>1, <1>5, <2>1, <2>2, <2>3, <3>1 DEF Cursor, Cut
  <2>5. start' \in 1..Len(lines') + 1 /\ start' = n + 1 /\ start' <= Len(lines')
    BY <1>1, <2>1
  <2>6. start' <= Len(lines') /\ Header(start)' /\ name' = lines'[start'].name
    <3>1. Header(start)'
      BY <1>9, <2>1 DEF Header, header_of, Fenced
    <3> QED BY <1>1, <2>1, <2>5, <3>1
  <2>7. \A i \in 1..Len(lines') : i < start' /\ ~Blank(lines'[i]) => Covers(out', i)
    <3> SUFFICES ASSUME NEW i \in 1..n, ~Blank(lines'[i]) PROVE Covers(u, i)
      BY <1>1, <2>1, <2>2
    <3>1. ~Blank(lines[i])
      BY <1>1 DEF Blank
    <3> QED BY <2>3, <3>1
  <2>8. \A i \in 1..Len(lines') : Header(i)' =>
           \/ i = start' /\ name' = lines'[i].name
           \/ \E k \in DOMAIN out' : out'[k].start = i /\ out'[k].name = lines'[i].name
    <3> SUFFICES ASSUME NEW i \in 1..(n + 1), Header(i)'
                 PROVE  \/ i = n + 1 /\ line.name = lines'[i].name
                        \/ \E k \in DOMAIN u : u[k].start = i /\ u[k].name = lines'[i].name
      BY <1>1, <2>1, <2>2
    <3>1. CASE i = n + 1
      BY <1>1, <3>1
    <3>2. CASE i # n + 1
      <4>1. i \in 1..n /\ lines'[i] = lines[i]
        BY <1>1, <3>2
      <4>2. Header(i)
        BY <1>2, <4>1
      <4> QED BY <2>3, <4>1, <4>2
    <3> QED BY <3>1, <3>2
  <2>9. \A k \in DOMAIN out' : out'[k].start > 1 => Header(out[k].start)'
    <3> SUFFICES ASSUME NEW k \in DOMAIN u, u[k].start > 1 PROVE Header(out[k].start)'
      BY <2>2
    <3>1. PICK m \in 1..n : m = u[k].start /\ Header(m)
      <4>1. u[k].start \in 1..n
        BY <1>1, <2>3, CutTypes
      <4> QED BY <2>3, <4>1
    <3>2. Header(m)' /\ m = out'[k].start
      BY <1>2, <2>2, <3>1
    <3> QED BY <3>2 DEF Header, header_of, Fenced
  <2>10. SectionInv'
    BY <1>1, <1>6, <2>5, <2>6, <2>7, <2>8, <2>9 DEF SectionInv
  <2> QED BY <2>4, <2>10
<1> QED BY <1>8, <1>9

\* What is cut from lines is cut from more of them.
LEMMA CutGrows ==
  ASSUME NEW s, NEW a \in Nat, NEW b \in Nat, NEW c \in Nat, Cut(s, a, b), b <= c
  PROVE  Cut(s, a, c)
<1>1. \A i \in DOMAIN s : s[i].end \in a..b
  BY CutTypes
<1>2. \A i \in DOMAIN s : s[i].end <= c
  BY <1>1
<1> QED BY <1>2 DEF Cut

\* What the lines of a format are.
LEMMA SectionLines ==
  ASSUME NEW e \in Sections, NEW line \in LinesOf(e)
  PROVE  line.name \in Name \cup {NoName}
<1>1. line \in MarkdownLine => line.name \in Name \cup {NoName}
  BY DEF MarkdownLine, Line
<1>2. line \in YamlLine => line.name \in Name \cup {NoName}
  BY DEF YamlLine, Line
<1>3. line \in TomlLine => line.name \in Name \cup {NoName}
  BY DEF TomlLine, Line
<1>4. line \in MarkdownLine \/ line \in YamlLine \/ line \in TomlLine
  BY DEF Sections, Markdown, Keyed, Yaml, LinesOf
<1> QED BY <1>1, <1>2, <1>3, <1>4

\* A line of Markdown: a heading outside code starts a section.
LEMMA MarkdownStep ==
  ASSUME Cursor, SectionInv, NEW line, Reads(line), ReadMarkdown(line)
  PROVE  Cursor' /\ SectionInv'
<1>1. PICK n \in Nat : n = Len(lines)
  <2>1. Len(lines) \in Nat
    BY LinesStay
  <2> QED BY <2>1
<1>2. ext \in Markdown /\ ext \in Sections /\ ext' = ext /\ lines'[n + 1] = line
  BY <1>1, LinesStay DEF ReadMarkdown, Reads, Sections
<1>3. fence \in BOOLEAN /\ (fence <=> Fenced(n + 1))
  BY <1>1, <1>2 DEF Cursor, SectionInv
<1>4. fence' \in BOOLEAN /\ depth' = depth /\ (fence' <=> Fenced(n + 2)')
  <2>1. Fenced(n + 2)' <=> (IF line.kind \in {"backticks", "tildes"} THEN ~Fenced(n + 1)
                            ELSE Fenced(n + 1))
    BY <1>1, HeadersStay
  <2> QED BY <1>3, <2>1 DEF ReadMarkdown
<1>5. Header(n + 1)' <=> line.kind = "heading" /\ ~fence
  <2>1. n + 1 \in 1..(n + 1)
    BY <1>1
  <2>2. Fenced(n + 1)' <=> Fenced(n + 1)
    BY <1>1, <2>1, HeadersStay
  <2>3. ext' \notin Keyed
    BY <1>2 DEF Markdown, Keyed, Yaml
  <2> QED BY <1>2, <1>3, <2>2, <2>3 DEF Header
<1>6. line.name \in Name \cup {NoName}
  BY <1>2, SectionLines DEF Reads
<1> QED BY <1>1, <1>2, <1>4, <1>5, <1>6, SectionStep DEF ReadMarkdown

\* A line of YAML or TOML: a key or section starts a section.
LEMMA KeyedStep ==
  ASSUME Cursor, SectionInv, NEW line, Reads(line), ReadKeyed(line)
  PROVE  Cursor' /\ SectionInv'
<1>1. PICK n \in Nat : n = Len(lines)
  <2>1. Len(lines) \in Nat
    BY LinesStay
  <2> QED BY <2>1
<1>2. ext \in Keyed /\ ext \in Sections /\ ext' = ext /\ lines'[n + 1] = line
  BY <1>1, LinesStay DEF ReadKeyed, Reads, Sections
<1>3. ext \notin Markdown
  BY <1>2 DEF Markdown, Keyed, Yaml
<1>4. fence' \in BOOLEAN /\ depth' = depth
  BY DEF Cursor, ReadKeyed
<1>5. Header(n + 1)' <=> header_of(line) # NoName
  BY <1>2, <1>3 DEF Header, header_of
<1>6. line.name \in Name \cup {NoName} /\ (header_of(line) # NoName => header_of(line) = line.name)
  BY <1>2, SectionLines DEF Reads, header_of
<1>7. IF Header(n + 1)' THEN NewSection(line.name) ELSE UNCHANGED <<start, name, out>>
  BY <1>5, <1>6 DEF ReadKeyed
<1> QED BY <1>1, <1>2, <1>3, <1>4, <1>6, <1>7, SectionStep

\* A piece of a paragraph stays one.
LEMMA PieceStays ==
  ASSUME Cursor, NEW line, Reads(line), NEW n, n = Len(lines),
         NEW c \in DocChunk, c.end <= n, PlainPiece(c)
  PROVE  PlainPiece(c)'
<1>1. /\ n \in Nat /\ Len(lines') = n + 1 /\ \A i \in 1..n : lines'[i] = lines[i]
  BY LinesStay
<1>2. c.start \in Nat /\ c.end \in Nat
  BY DEF DocChunk
<1>3. \A i \in 1..(n + 1) : c.start <= i /\ i <= c.end => i \in 1..n
  BY <1>1, <1>2
<1>4. \A i \in 1..Len(lines') : c.start <= i /\ i <= c.end => ~Blank(lines'[i])
  BY <1>1, <1>3 DEF PlainPiece, Blank
<1>5. c.end < n /\ Blank(lines[c.end + 1]) => c.end < Len(lines') /\ Blank(lines'[c.end + 1])
  <2> SUFFICES ASSUME c.end < n, Blank(lines[c.end + 1])
               PROVE  c.end < Len(lines') /\ Blank(lines'[c.end + 1])
    OBVIOUS
  <2>1. c.end + 1 \in 1..n
    BY <1>1, <1>2
  <2> QED BY <1>1, <1>2, <2>1 DEF Blank
<1> QED BY <1>4, <1>5 DEF PlainPiece

\* A line of text: a blank one ends the paragraph.
LEMMA PlainStep ==
  ASSUME Cursor, PlainInv, NEW line, Reads(line), ReadPlain(line)
  PROVE  Cursor' /\ PlainInv'
<1>0. PICK n \in Nat : n = Len(lines)
  <2>1. Len(lines) \in Nat
    BY LinesStay
  <2> QED BY <2>1
<1>1. /\ lines' \in Seq(LinesOf(ext')) /\ n \in Nat /\ Len(lines') = n + 1 /\ n + 1 <= MaxLines
      /\ \A i \in 1..n : lines'[i] = lines[i]
      /\ lines'[n + 1] = line /\ ext' = ext
  BY <1>0, LinesStay DEF Reads
<1>2. /\ ext' \in Ext /\ Len(lines') <= MaxLines /\ name' \in Name \cup {NoName}
      /\ fence' \in BOOLEAN /\ depth' \in Int
  BY <1>1 DEF Cursor, ReadPlain
<1>3. start \in 0..n /\ Cut(out, 1, IF start = 0 THEN n ELSE start - 1)
  BY <1>0 DEF Cursor, PlainInv
<1>4. ASSUME NEW k \in DOMAIN out, NEW c, c = out[k]
      PROVE  PlainPiece(c)' /\ c \in DocChunk /\ c.end <= n
  <2>1. c \in DocChunk /\ c.end <= n
    <3>1. PICK b \in Nat : b = (IF start = 0 THEN n ELSE start - 1) /\ b <= n
      BY <1>0, <1>3
    <3>2. out[k] \in DocChunk /\ out[k].end \in 1..b
      BY <1>3, <3>1, CutTypes
    <3> QED BY <1>0, <1>4, <3>1, <3>2
  <2>2. PlainPiece(c)
    BY <1>4 DEF PlainInv
  <2> QED BY <1>0, <2>1, <2>2, PieceStays
<1>5. ASSUME UNCHANGED out PROVE \A k \in DOMAIN out' : PlainPiece(out[k])'
  <2> SUFFICES ASSUME NEW k \in DOMAIN out PROVE PlainPiece(out[k])'
    BY <1>5
  <2>1. PICK c : c = out[k] /\ c = out'[k]
    BY <1>5
  <2>2. PlainPiece(c)'
    BY <1>4, <2>1
  <2> QED BY <2>1, <2>2 DEF PlainPiece, Blank
<1>6. CASE Blank(line) /\ start = 0
  <2>1. start' = 0 /\ out' = out \o <<>>
    BY <1>6 DEF ReadPlain
  <2>2. out' = out
    <3> DEFINE H == DocChunk
    <3>1. out \in Seq(H)
      BY <1>3 DEF Cut
    <3> HIDE DEF H
    <3> QED BY <2>1, <3>1
  <2>3. Cut(out, 1, n + 1)
    BY <1>1, <1>3, <1>6, CutGrows
  <2>4. Cursor'
    BY <1>1, <1>2, <2>1, <2>2, <2>3 DEF Cursor
  <2>5. \A i \in 1..Len(lines') : ~Blank(lines'[i]) => Covers(out', i)
    <3> SUFFICES ASSUME NEW i \in 1..(n + 1), ~Blank(lines'[i]) PROVE Covers(out, i)
      BY <1>1, <2>2
    <3>1. i \in 1..n /\ ~Blank(lines[i])
      BY <1>1, <1>6 DEF Blank
    <3> QED BY <1>0, <1>6, <3>1 DEF PlainInv
  <2> QED BY <1>1, <1>5, <2>1, <2>2, <2>4, <2>5 DEF PlainInv
<1>7. CASE Blank(line) /\ start # 0
  <2>1. start' = 0 /\ out' = out \o Paragraph(start, n)
    BY <1>0, <1>7 DEF ReadPlain
  <2>2. start \in 1..n /\ \A i \in 1..n : start <= i => ~Blank(lines[i])
    BY <1>0, <1>3, <1>7 DEF PlainInv
  <2>3. PICK s, t : s = out /\ t = Paragraph(start, n)
    OBVIOUS
  <2>4. PICK m \in 1..n : m = start
    BY <2>2
  <2>5. PiecesOK(t, m, n)
    <3>1. m \in Nat \ {0} /\ m <= n
      BY <1>1
    <3>2. PiecesOK(Paragraph(m, n), m, n)
      BY <1>1, <3>1, PiecesAre
    <3> QED BY <2>3, <2>4, <3>2
  <2>6. /\ Cut(s \o t, 1, n)
        /\ \A i \in DOMAIN s : (s \o t)[i] = s[i] /\ i \in DOMAIN (s \o t)
        /\ \A i \in DOMAIN t : (s \o t)[Len(s) + i] = t[i] /\ Len(s) + i \in DOMAIN (s \o t)
        /\ \A i \in DOMAIN (s \o t) :
              \/ i \in DOMAIN s
              \/ i - Len(s) \in DOMAIN t /\ (s \o t)[i] = t[i - Len(s)]
    <3>1. Cut(s, 1, m - 1) /\ 1 <= m /\ m - 1 < m /\ m - 1 <= n /\ 1 \in Nat /\ m - 1 \in Nat /\ m \in Nat
      BY <1>1, <1>3, <1>7, <2>3, <2>4
    <3>2. Cut(t, m, n)
      BY <2>5 DEF PiecesOK
    <3> QED BY <1>1, <3>1, <3>2, CutsJoin
  <2>7. PICK u : u = s \o t /\ u = out'
    BY <2>1, <2>3
  <2>8. Cut(u, 1, n + 1)
    BY <1>1, <2>6, <2>7, CutGrows
  <2>9. Cursor'
    BY <1>1, <1>2, <2>1, <2>7, <2>8 DEF Cursor
  <2>10. \A i \in 1..Len(lines') : ~Blank(lines'[i]) => Covers(out', i)
    <3> SUFFICES ASSUME NEW i \in 1..(n + 1), ~Blank(lines'[i]) PROVE Covers(u, i)
      BY <1>1, <2>7
    <3>1. i \in 1..n /\ ~Blank(lines[i])
      BY <1>1, <1>7 DEF Blank
    <3>2. CASE m <= i
      <4>1. PICK k \in DOMAIN t : t[k].start <= i /\ i <= t[k].end
        <5>1. i \in m..n
          BY <1>1, <3>1, <3>2
        <5> QED BY <2>5, <5>1 DEF PiecesOK, Covers
      <4> QED BY <2>6, <2>7, <4>1 DEF Covers
    <3>3. CASE ~(m <= i)
      <4>1. PICK k \in DOMAIN s : s[k].start <= i /\ i <= s[k].end
        BY <1>0, <2>3, <2>4, <3>1, <3>3 DEF PlainInv, Covers
      <4> QED BY <2>6, <2>7, <4>1 DEF Covers
    <3> QED BY <3>2, <3>3
  <2>11. ASSUME NEW k \in DOMAIN t, NEW c, c = t[k] PROVE PlainPiece(c)'
    <3>1. c \in DocChunk /\ c.start \in m..n /\ c.end \in m..n
      <4>1. Cut(t, m, n) /\ m \in Nat
        BY <2>5 DEF PiecesOK
      <4> QED BY <1>1, <2>11, <4>1, CutTypes
    <3>2. \A i \in 1..Len(lines') : c.start <= i /\ i <= c.end => ~Blank(lines'[i])
      <4> SUFFICES ASSUME NEW i \in 1..(n + 1), c.start <= i, i <= c.end PROVE ~Blank(lines'[i])
        BY <1>1
      <4>1. i \in 1..n /\ start <= i
        BY <1>1, <2>4, <3>1
      <4> QED BY <1>1, <2>2, <4>1 DEF Blank
    <3>3. /\ c.end - c.start < PLAINTEXT_MAX_LINES
          /\ c.end - c.start = PLAINTEXT_MAX_LINES - 1 \/ c.end = n
      BY <2>5, <2>11 DEF PiecesOK
    <3>4. c.end = n => c.end < Len(lines') /\ Blank(lines'[c.end + 1])
      BY <1>1, <1>7
    <3> QED BY <3>2, <3>3, <3>4 DEF PlainPiece
  <2>12. \A k \in DOMAIN out' : PlainPiece(out[k])'
    <3> SUFFICES ASSUME NEW k \in DOMAIN u PROVE PlainPiece(out[k])'
      BY <2>7
    <3>1. PICK c : c = u[k]
      OBVIOUS
    <3>2. PlainPiece(c)'
      <4>1. CASE k \in DOMAIN s
        BY <1>4, <2>3, <2>6, <2>7, <3>1, <4>1
      <4>2. CASE k - Len(s) \in DOMAIN t /\ u[k] = t[k - Len(s)]
        BY <2>11, <3>1, <4>2
      <4> QED BY <2>6, <2>7, <4>1, <4>2
    <3>3. c = out'[k]
      BY <2>7, <3>1
    <3> QED BY <3>2, <3>3 DEF PlainPiece, Blank
  <2> QED BY <1>1, <2>1, <2>9, <2>10, <2>12 DEF PlainInv
<1>8. CASE ~Blank(line)
  <2>1. out' = out /\ start' = IF start = 0 THEN n + 1 ELSE start
    BY <1>0, <1>8 DEF ReadPlain, Here
  <2>2. start' \in 1..(n + 1) /\ Cut(out, 1, start' - 1)
    BY <1>1, <1>3, <2>1
  <2>3. Cursor'
    BY <1>1, <1>2, <2>1, <2>2 DEF Cursor
  <2>4. \A i \in 1..Len(lines') : start' <= i => ~Blank(lines'[i])
    <3> SUFFICES ASSUME NEW i \in 1..(n + 1), start' <= i PROVE ~Blank(lines'[i])
      BY <1>1
    <3>1. CASE i = n + 1
      BY <1>1, <1>8, <3>1
    <3>2. CASE i # n + 1
      <4>1. i \in 1..n /\ start # 0 /\ start <= i
        BY <1>1, <1>3, <2>1, <3>2
      <4> QED BY <1>0, <1>1, <4>1 DEF PlainInv, Blank
    <3> QED BY <3>1, <3>2
  <2>5. \A i \in 1..Len(lines') : ~Blank(lines'[i]) => start' <= i \/ Covers(out', i)
    <3> SUFFICES ASSUME NEW i \in 1..(n + 1), ~Blank(lines'[i]) PROVE start' <= i \/ Covers(out, i)
      BY <1>1, <2>1
    <3>1. CASE i = n + 1
      BY <1>1, <2>2, <3>1
    <3>2. CASE i # n + 1
      <4>1. i \in 1..n /\ ~Blank(lines[i])
        BY <1>1, <3>2 DEF Blank
      <4> QED BY <1>0, <2>1, <4>1 DEF PlainInv
    <3> QED BY <3>1, <3>2
  <2>6. start' # 0 /\ start' <= Len(lines')
    BY <1>1, <2>2
  <2>7. \A k \in DOMAIN out' : PlainPiece(out[k])'
    BY <1>5, <2>1
  <2> QED BY <2>3, <2>4, <2>5, <2>6, <2>7 DEF PlainInv
<1> QED BY <1>6, <1>7, <1>8
\* The tags of a line.
LEMMA XmlTags ==
  ASSUME NEW line \in XmlLine
  PROVE  /\ TagsOf(line) \in Seq(Tag) /\ IsFiniteSet(DOMAIN TagsOf(line))
         /\ first_xml_tag_name(line) \in Name \cup {NoName}
         /\ \A K : IsFiniteSet({t \in DOMAIN TagsOf(line) : TagsOf(line)[t].kind \in K})
         /\ \A K : count(line, K) \in Nat
<1>1. TagsOf(line) \in Seq(Tag) /\ (TagsOf(line) # <<>> => TagsOf(line) = line.tags)
  <2>0. <<>> \in Seq(Tag) /\ \A t \in Tag : <<t>> \in Seq(Tag)
    <3> DEFINE H == Tag
    <3> HIDE DEF H
    <3>1. <<>> \in Seq(H) /\ \A t \in H : <<t>> \in Seq(H)
      OBVIOUS
    <3> QED BY <3>1 DEF H
  <2>1. CASE line = Tags(<<>>)
    BY <2>0, <2>1 DEF Tags, TagsOf, Blank
  <2>2. CASE line = Line("blank", NoName)
    BY <2>0, <2>2 DEF Line, TagsOf, Blank
  <2>3. CASE \E t \in Tag : line = Tags(<<t>>)
    BY <2>0, <2>3 DEF Tags, TagsOf, Blank
  <2>4. CASE \E p \in TagPair : line = Tags(p)
    <3>1. PICK p \in TagPair : line = Tags(p)
      BY <2>4
    <3>2. p \in Tag \X Tag
      BY DEF TagPair
    <3>3. p \in Seq(Tag)
      <4> DEFINE H == Tag
      <4> HIDE DEF H
      <4>1. \A x, y \in H : <<x, y>> \in Seq(H)
        OBVIOUS
      <4>2. PICK x \in H, y \in H : p = <<x, y>>
        BY <3>2 DEF H
      <4>3. p \in Seq(H)
        BY <4>1, <4>2
      <4> QED BY <4>3 DEF H
    <3> QED BY <3>1, <3>3 DEF Tags, TagsOf, Blank
  <2> QED BY <2>1, <2>2, <2>3, <2>4 DEF XmlLine
<1>2. IsFiniteSet(DOMAIN TagsOf(line))
  <2> DEFINE H == Tag
  <2> HIDE DEF H
  <2>1. DOMAIN TagsOf(line) = 1..Len(TagsOf(line)) /\ Len(TagsOf(line)) \in Nat
    BY <1>1 DEF H
  <2> QED BY <2>1, FS_Interval
<1>3. first_xml_tag_name(line) \in Name \cup {NoName}
  <2>1. CASE TagsOf(line) # <<>>
    <3> DEFINE H == Tag
    <3> HIDE DEF H
    <3>1. Head(TagsOf(line)) \in H
      BY <1>1, <2>1 DEF H
    <3>2. Head(line.tags).name \in Name
      BY <1>1, <2>1, <3>1 DEF H, Tag
    <3> QED BY <3>2 DEF first_xml_tag_name
  <2>2. CASE TagsOf(line) = <<>>
    BY <2>2 DEF first_xml_tag_name
  <2> QED BY <2>1, <2>2
<1>4. ASSUME NEW K PROVE IsFiniteSet({t \in DOMAIN TagsOf(line) : TagsOf(line)[t].kind \in K})
  BY <1>2, FS_Subset
<1>5. \A K : count(line, K) \in Nat
  BY <1>4, FS_CardinalityType DEF count
<1> QED BY <1>1, <1>2, <1>3, <1>4, <1>5

\* A child goes on, begins or ends with the line.
LEMMA XmlCursor ==
  ASSUME Cursor, XmlInv, NEW line, Reads(line), ReadXml(line)
  PROVE  Cursor' /\ (start' # 0 => start' <= Len(lines'))
<1>0. PICK n \in Nat : n = Len(lines)
  <2>1. Len(lines) \in Nat
    BY LinesStay
  <2> QED BY <2>1
<1>1. /\ lines' \in Seq(LinesOf(ext')) /\ Len(lines') = n + 1 /\ n + 1 <= MaxLines /\ ext' = ext
  BY <1>0, LinesStay DEF Reads
<1>2. line \in XmlLine
  BY DEF Reads, ReadXml, LinesOf, Markdown, Yaml
<1>3. count_xml_opens(line) \in Nat /\ count_xml_closes(line) \in Nat
  BY <1>2, XmlTags DEF count_xml_opens, count_xml_closes
<1>4. depth' \in Int /\ fence' \in BOOLEAN /\ ext' \in Ext /\ Len(lines') <= MaxLines
  BY <1>1, <1>3 DEF Cursor, ReadXml
<1> DEFINE opens == count_xml_opens(line)
           closes == count_xml_closes(line)
           starts == depth = 1 /\ start = 0 /\ opens > closes
           from == IF starts THEN Here ELSE start
           title == IF starts THEN first_xml_tag_name(line) ELSE name
           ends == from # 0 /\ depth + opens - closes <= 1 /\ depth >= 1
<1>5. PICK f \in 0..(n + 1), m \in Name \cup {NoName} :
          /\ f = from /\ m = title /\ (f = n + 1 \/ (f = start /\ f <= n))
  <2>1. title \in Name \cup {NoName}
    BY <1>2, XmlTags DEF Cursor
  <2>2. start \in 0..n
    BY <1>0 DEF Cursor, XmlInv
  <2>3. from = n + 1 \/ (from = start /\ from <= n)
    BY <1>0, <2>2 DEF Here
  <2> HIDE DEF from, title
  <2> QED BY <2>1, <2>2, <2>3
<1>6. /\ out' = (IF ends THEN Append(out, document_chunk(f, n + 1, m)) ELSE out)
      /\ start' = (IF ends THEN 0 ELSE f) /\ name' = (IF ends THEN NoName ELSE m)
  BY <1>0, <1>5 DEF ReadXml, Here
<1>7. ends => f # 0
  BY <1>5
<1> HIDE DEF ends
<1>8. Cut(out, 1, IF f = 0 THEN n ELSE f - 1)
  <2>1. CASE start = 0
    <3>1. Cut(out, 1, n)
      BY <1>0, <2>1 DEF Cursor
    <3> QED BY <1>5, <2>1, <3>1
  <2>2. CASE start # 0
    <3>1. f = start
      BY <1>5, <2>2 DEF starts
    <3>2. Cut(out, 1, start - 1)
      BY <2>2 DEF Cursor
    <3> QED BY <2>2, <3>1, <3>2
  <2> QED BY <2>1, <2>2
<1>9. CASE ends
  <2>1. f \in Nat \ {0} /\ f - 1 \in Nat /\ f \in Nat /\ f <= n + 1 /\ n + 1 \in Nat
    <3>1. f \in 0..(n + 1) /\ f # 0 /\ n \in Nat
      BY <1>7, <1>9
    <3> QED BY ONLY <3>1
  <2> DEFINE t == <<document_chunk(f, n + 1, m)>>
  <2>2. Cut(t, f, n + 1)
    BY <2>1, OneCut
  <2>3. Cut(out, 1, f - 1)
    BY <1>7, <1>8, <1>9
  <2>4. out' = out \o t
    <3>1. out' = Append(out, document_chunk(f, n + 1, m))
      BY <1>6, <1>9
    <3> DEFINE H == DocChunk
    <3>2. out \in Seq(H) /\ t \in Seq(H)
      BY <2>2, <2>3 DEF Cut
    <3>3. document_chunk(f, n + 1, m) \in H
      BY <2>1 DEF document_chunk, DocChunk
    <3> HIDE DEF H
    <3> QED BY <3>1, <3>2, <3>3
  <2> HIDE DEF t
  <2>5. Cut(out \o t, 1, n + 1)
    <3>1. 1 <= f /\ f - 1 < f /\ f - 1 <= n + 1 /\ 1 \in Nat
      BY <2>1
    <3> QED BY <2>1, <2>2, <2>3, <3>1, CutsJoin
  <2>6. Cut(out', 1, n + 1)
    BY <2>4, <2>5
  <2> QED BY <1>1, <1>4, <1>6, <1>9, <2>6 DEF Cursor
<1>10. CASE ~ends
  <2>1. out' = out /\ start' = f /\ name' = m
    BY <1>6, <1>10
  <2>2. Cut(out', 1, IF start' = 0 THEN Len(lines') ELSE start' - 1)
    <3>1. CASE f = 0
      <4>1. Cut(out, 1, n) /\ n <= n + 1 /\ 1 \in Nat /\ n + 1 \in Nat
        BY <1>8, <3>1
      <4>2. Cut(out, 1, n + 1)
        BY <4>1, CutGrows
      <4> QED BY <1>1, <2>1, <3>1, <4>2
    <3>2. CASE f # 0
      BY <1>8, <2>1, <3>2
    <3> QED BY <3>1, <3>2
  <2> QED BY <1>1, <1>4, <1>5, <2>1, <2>2 DEF Cursor
<1> QED BY <1>9, <1>10

\* With a tag on a line at most, what a line adds to the open elements.
LEMMA DepthGoesOn ==
  ASSUME Cursor, ext = "xml", NEW line, Reads(line), NEW n, n = Len(lines), OneTagALine'
  PROVE  /\ OneTagALine /\ \A i \in 0..n : Depth(i)' = Depth(i) /\ Depth(i) \in Int
         /\ Depth(n + 1)' = Depth(n) + count_xml_opens(line) - count_xml_closes(line)
         /\ count_xml_opens(line) \in 0..1 /\ count_xml_closes(line) \in 0..1
<1>1. /\ n \in Nat /\ Len(lines') = n + 1 /\ (\A i \in 1..n : lines'[i] = lines[i])
      /\ lines'[n + 1] = line /\ DOMAIN lines = 1..n /\ DOMAIN lines' = 1..(n + 1)
  <2> DEFINE U == LinesOf(ext')
  <2>1. lines' \in Seq(U) /\ n \in Nat /\ Len(lines') = n + 1
    BY LinesStay
  <2> HIDE DEF U
  <2>2. DOMAIN lines' = 1..(n + 1)
    BY <2>1
  <2> QED BY <2>2, LinesStay
<1>2. \A i \in 1..n : TagsOf(lines'[i]) = TagsOf(lines[i])
  BY <1>1
<1>3. \A i \in 0..n : \A kind : TagsUpTo(i, kind)' = TagsUpTo(i, kind)
  <2> SUFFICES ASSUME NEW i \in 0..n, NEW kind PROVE TagsUpTo(i, kind)' = TagsUpTo(i, kind)
    OBVIOUS
  <2> DEFINE F(j) == {j} \X {t \in DOMAIN TagsOf(lines[j]) : TagsOf(lines[j])[t].kind = kind}
             G(j) == {j} \X {t \in DOMAIN TagsOf(lines'[j]) : TagsOf(lines'[j])[t].kind = kind}
  <2>1. \A j \in 1..i : G(j) = F(j)
    <3>1. \A j \in 1..i : j \in 1..n
      BY <1>1
    <3> QED BY <1>1, <3>1
  <2>2. TagsUpTo(i, kind) = UNION {F(j) : j \in 1..i} /\ TagsUpTo(i, kind)' = UNION {G(j) : j \in 1..i}
    BY DEF TagsUpTo, TagsOf, Blank
  <2> HIDE DEF F, G
  <2> QED BY <2>1, <2>2
<1>4. \A i \in 0..n : Depth(i)' = Depth(i)
  BY <1>3 DEF Depth
<1>5. ASSUME NEW j \in 1..(n + 1)
      PROVE  /\ lines'[j] \in XmlLine /\ Len(TagsOf(lines'[j])) <= 1
             /\ count(lines'[j], {"commented", "partial"}) = 0 /\ Depth(j)' >= 0
             /\ DOMAIN TagsOf(lines'[j]) \subseteq {1}
  <2>1. lines'[j] \in XmlLine
    <3> DEFINE U == LinesOf(ext')
    <3>1. lines' \in Seq(U)
      BY LinesStay
    <3>2. U = XmlLine
      BY DEF Reads, LinesOf, Markdown, Yaml
    <3> HIDE DEF U
    <3>3. lines'[j] \in U
      BY <1>1, <3>1
    <3> QED BY <3>2, <3>3
  <2>2. /\ Len(TagsOf(lines'[j])) <= 1
        /\ count(lines'[j], {"commented", "partial"}) = 0 /\ Depth(j)' >= 0
    <3>1. \A i \in DOMAIN lines' :
             /\ Len(TagsOf(lines'[i])) <= 1 /\ count(lines'[i], {"commented", "partial"}) = 0
             /\ Depth(i)' >= 0
      BY DEF OneTagALine
    <3> QED BY <1>1, <3>1
  <2>3. DOMAIN TagsOf(lines'[j]) \subseteq {1}
    <3>0. PICK c : c = lines'[j]
      OBVIOUS
    <3>1. TagsOf(c) \in Seq(Tag)
      BY <2>1, <3>0, XmlTags
    <3> DEFINE s == TagsOf(c)
               H == Tag
    <3> HIDE DEF s, H
    <3>2. s \in Seq(H) /\ Len(s) <= 1
      BY <2>2, <3>0, <3>1 DEF s, H
    <3>3. DOMAIN s \subseteq {1}
      BY <3>2
    <3> QED BY <3>0, <3>3 DEF s
  <2> QED BY <2>1, <2>2, <2>3
<1>6. OneTagALine
  <2> SUFFICES ASSUME NEW i \in 1..n
               PROVE  /\ Len(TagsOf(lines[i])) <= 1 /\ count(lines[i], {"commented", "partial"}) = 0
                      /\ Depth(i) >= 0
    BY <1>1 DEF OneTagALine
  <2>1. i \in 1..(n + 1) /\ i \in 0..n /\ lines'[i] = lines[i]
    BY <1>1
  <2> QED BY <1>4, <1>5, <2>1
<1>7. ASSUME NEW i \in 0..n, NEW kind
      PROVE  TagsUpTo(i, kind) \subseteq (1..i) \X {1} /\ IsFiniteSet(TagsUpTo(i, kind))
  <2>1. \A j \in 1..i : DOMAIN TagsOf(lines[j]) \subseteq {1}
    <3> SUFFICES ASSUME NEW j \in 1..i PROVE DOMAIN TagsOf(lines[j]) \subseteq {1}
      OBVIOUS
    <3>1. j \in 1..n /\ j \in 1..(n + 1)
      BY <1>1
    <3> QED BY <1>1, <1>5, <3>1
  <2>2. TagsUpTo(i, kind) \subseteq (1..i) \X {1}
    <3> SUFFICES ASSUME NEW x \in TagsUpTo(i, kind) PROVE x \in (1..i) \X {1}
      OBVIOUS
    <3>1. PICK j \in 1..i : x \in {j} \X {t \in DOMAIN TagsOf(lines[j]) : TagsOf(lines[j])[t].kind = kind}
      BY Zenon DEF TagsUpTo
    <3>2. {t \in DOMAIN TagsOf(lines[j]) : TagsOf(lines[j])[t].kind = kind} \subseteq {1}
      BY <2>1
    <3> QED BY <3>1, <3>2
  <2>3. IsFiniteSet((1..i) \X {1})
    <3>0. 1 \in Int /\ i \in Int
      BY <1>1
    <3>1. IsFiniteSet(1..i) /\ IsFiniteSet({1})
      BY ONLY <3>0, FS_Interval, FS_Singleton
    <3> QED BY <3>1, FS_Product
  <2> QED BY <2>2, <2>3, FS_Subset
<1> DEFINE S(kind) == {t \in DOMAIN TagsOf(line) : TagsOf(line)[t].kind = kind}
<1>8. ASSUME NEW kind
      PROVE  /\ Cardinality(TagsUpTo(n + 1, kind)') = Cardinality(TagsUpTo(n, kind)) + Cardinality(S(kind))
             /\ Cardinality(S(kind)) \in 0..1 /\ Cardinality(TagsUpTo(n, kind)) \in Nat
  <2>1. TagsUpTo(n + 1, kind)' = TagsUpTo(n, kind) \cup ({n + 1} \X S(kind))
    <3> DEFINE F(j) == {j} \X {t \in DOMAIN TagsOf(lines[j]) : TagsOf(lines[j])[t].kind = kind}
               G(j) == {j} \X {t \in DOMAIN TagsOf(lines'[j]) : TagsOf(lines'[j])[t].kind = kind}
    <3>1. \A j \in 1..n : G(j) = F(j)
      BY <1>1
    <3>2. TagsUpTo(n, kind) = UNION {F(j) : j \in 1..n} /\ TagsUpTo(n + 1, kind)' = UNION {G(j) : j \in 1..(n + 1)}
      BY DEF TagsUpTo, TagsOf, Blank
    <3>3. G(n + 1) = {n + 1} \X S(kind)
      BY <1>1
    <3>4. \A j : j \in 1..(n + 1) <=> (j \in 1..n \/ j = n + 1)
      BY <1>1
    <3> HIDE DEF F, G, S
    <3> QED BY <3>1, <3>2, <3>3, <3>4
  <2>2. TagsUpTo(n, kind) \subseteq (1..n) \X {1} /\ IsFiniteSet(TagsUpTo(n, kind))
    BY <1>1, <1>7
  <2>3. S(kind) = {} \/ S(kind) = {1}
    <3>1. n + 1 \in 1..(n + 1)
      BY <1>1
    <3> QED BY <1>1, <1>5, <3>1
  <2>4. Cardinality(TagsUpTo(n, kind)) \in Nat
    BY <2>2, FS_CardinalityType
  <2>5. CASE S(kind) = {}
    <3>1. TagsUpTo(n + 1, kind)' = TagsUpTo(n, kind)
      BY <2>1, <2>5
    <3>2. Cardinality(S(kind)) = 0
      BY <2>5, FS_EmptySet
    <3> QED BY <2>4, <3>1, <3>2
  <2>6. CASE S(kind) = {1}
    <3>1. TagsUpTo(n + 1, kind)' = TagsUpTo(n, kind) \cup {<<n + 1, 1>>}
      BY <2>1, <2>6
    <3>2. <<n + 1, 1>> \notin TagsUpTo(n, kind)
      BY <1>1, <2>2
    <3>3. Cardinality(S(kind)) = 1
      BY <2>6, FS_Singleton
    <3>4. Cardinality(TagsUpTo(n, kind) \cup {<<n + 1, 1>>}) = Cardinality(TagsUpTo(n, kind)) + 1
      BY <2>2, <3>2, FS_AddElement
    <3>5. Cardinality(TagsUpTo(n + 1, kind)') = Cardinality(TagsUpTo(n, kind)) + 1
      BY <3>1, <3>4, Zenon
    <3> HIDE DEF S
    <3> QED BY <2>4, <3>3, <3>5
  <2> QED BY <2>3, <2>5, <2>6
<1>9. count_xml_closes(line) = Cardinality(S("close")) /\ count_xml_opens(line) = Cardinality(S("open"))
  <2>1. n + 1 \in 1..(n + 1)
    BY <1>1
  <2>2. line \in XmlLine /\ count(line, {"commented", "partial"}) = 0
    BY <1>1, <1>5, <2>1
  <2> DEFINE T == {t \in DOMAIN TagsOf(line) : TagsOf(line)[t].kind \in {"commented", "partial"}}
  <2>3. T = {}
    <3>1. IsFiniteSet(T)
      BY <2>2, XmlTags
    <3>2. Cardinality(T) = 0
      BY <2>2 DEF count
    <3> QED BY <3>1, <3>2, FS_EmptySet
  <2>4. {t \in DOMAIN TagsOf(line) : TagsOf(line)[t].kind \in {"open", "commented"}} = S("open")
    BY <2>3
  <2>5. {t \in DOMAIN TagsOf(line) : TagsOf(line)[t].kind \in {"close"}} = S("close")
    OBVIOUS
  <2> QED BY <2>4, <2>5 DEF count_xml_closes, count_xml_opens, count
<1>10. \A i \in 0..n : Depth(i) \in Int
  <2> SUFFICES ASSUME NEW i \in 0..n PROVE Depth(i) \in Int
    OBVIOUS
  <2>1. \A kind : Cardinality(TagsUpTo(i, kind)) \in Nat
    BY <1>7, FS_CardinalityType
  <2> QED BY <2>1 DEF Depth
<1>11. Depth(n + 1)' = Depth(n) + count_xml_opens(line) - count_xml_closes(line)
  <2>1. Depth(n + 1)' = Cardinality(TagsUpTo(n + 1, "open")') - Cardinality(TagsUpTo(n + 1, "close")')
    BY DEF Depth
  <2> HIDE DEF S
  <2> QED BY <1>8, <1>9, <2>1 DEF Depth
<1> HIDE DEF S
<1>12. count_xml_opens(line) \in 0..1 /\ count_xml_closes(line) \in 0..1
  BY <1>8, <1>9
<1> QED BY <1>4, <1>6, <1>10, <1>11, <1>12

\* The children that are complete: those that end with an earlier line, and the open one if
\* this line closes it.
LEMMA ChildrenAre ==
  ASSUME Cursor, ext = "xml", NEW line, Reads(line), NEW n, n = Len(lines), n \in Nat, OneTagALine'
  PROVE  /\ \A i, j \in 1..n : Child(i, j)' <=> Child(i, j)
         /\ \A i \in 1..(n + 1), j \in 1..(n + 1) :
               (i = n + 1 => ~Child(i, j)')
         /\ \A i \in 1..n : Child(i, n + 1)' <=>
               /\ Depth(i - 1) = 1 /\ Depth(i) = 2 /\ Depth(n + 1)' = 1
               /\ \A k \in i..n : Depth(k) > 1
<1>1. \A i \in 0..n : Depth(i)' = Depth(i) /\ Depth(i) \in Int
  BY DepthGoesOn
<1>2. ASSUME NEW i \in 1..n, NEW j \in 1..n PROVE Child(i, j)' <=> Child(i, j)
  <2>1. i - 1 \in 0..n /\ i \in 0..n /\ j \in 0..n
    OBVIOUS
  <2>2. \A k \in i..(j - 1) : k \in 0..n
    OBVIOUS
  <2> QED BY <1>1, <2>1, <2>2 DEF Child
<1>3. ASSUME NEW i \in 1..(n + 1), NEW j \in 1..(n + 1), i = n + 1 PROVE ~Child(i, j)'
  <2>1. ~(i < j)
    BY <1>3
  <2> QED BY <2>1 DEF Child
<1>4. ASSUME NEW i \in 1..n
      PROVE  Child(i, n + 1)' <=>
               /\ Depth(i - 1) = 1 /\ Depth(i) = 2 /\ Depth(n + 1)' = 1
               /\ \A k \in i..n : Depth(k) > 1
  <2>1. i - 1 \in 0..n /\ i \in 0..n /\ i < n + 1 /\ (n + 1) - 1 = n
    OBVIOUS
  <2>2. \A k \in i..n : k \in 0..n
    OBVIOUS
  <2> QED BY <1>1, <2>1, <2>2 DEF Child
<1> QED BY <1>2, <1>3, <1>4

\* A line of XML: a child starts, goes on or ends.
LEMMA XmlStep ==
  ASSUME Cursor, XmlInv, NEW line, Reads(line), ReadXml(line)
  PROVE  Cursor' /\ XmlInv'
<1>0. PICK n \in Nat : n = Len(lines)
  <2>1. Len(lines) \in Nat
    BY LinesStay
  <2> QED BY <2>1
<1>1. Len(lines') = n + 1 /\ ext = "xml" /\ ext' = "xml"
  BY <1>0, LinesStay DEF Reads, ReadXml
<1>2. Cursor' /\ (start' # 0 => start' <= Len(lines'))
  BY XmlCursor
<1>3. SUFFICES ASSUME OneTagALine'
      PROVE  /\ depth' = Depth(n + 1)'
             /\ start' = 0 <=> depth' <= 1
             /\ start' # 0 => /\ Depth(start - 1)' = 1 /\ Depth(start)' = 2
                              /\ \A k \in start'..(n + 1) : Depth(k)' > 1
             /\ \A i, j \in 1..(n + 1) :
                   Child(i, j)' <=> \E k \in DOMAIN out' : out'[k].start = i /\ out'[k].end = j
  <2>1. (depth = Depth(Len(lines)))' <=> depth' = Depth(n + 1)'
    BY <1>1 DEF Depth, TagsUpTo
  <2> QED BY <1>1, <1>2, <2>1 DEF XmlInv
<1>4. /\ OneTagALine /\ \A i \in 0..n : Depth(i)' = Depth(i) /\ Depth(i) \in Int
      /\ Depth(n + 1)' = Depth(n) + count_xml_opens(line) - count_xml_closes(line)
      /\ count_xml_opens(line) \in 0..1 /\ count_xml_closes(line) \in 0..1
  BY <1>0, <1>1, <1>3, DepthGoesOn
<1>5. /\ depth = Depth(n) /\ depth \in Int /\ start \in 0..n
      /\ start = 0 <=> depth <= 1
      /\ start # 0 => /\ Depth(start - 1) = 1 /\ Depth(start) = 2
                      /\ \A k \in start..n : Depth(k) > 1
      /\ \A i, j \in 1..n : Child(i, j) <=> \E k \in DOMAIN out : out[k].start = i /\ out[k].end = j
  BY <1>0, <1>4 DEF Cursor, XmlInv
<1>6. PICK o, c \in 0..1 : o = count_xml_opens(line) /\ c = count_xml_closes(line)
  BY <1>4
<1>7. depth' = depth + o - c /\ depth' = Depth(n + 1)'
  BY <1>4, <1>5, <1>6 DEF ReadXml
<1>8. /\ \A i, j \in 1..n : Child(i, j)' <=> Child(i, j)
      /\ \A j \in 1..(n + 1) : ~Child(n + 1, j)'
      /\ \A i \in 1..n : Child(i, n + 1)' <=>
            /\ Depth(i - 1) = 1 /\ Depth(i) = 2 /\ Depth(n + 1)' = 1
            /\ \A k \in i..n : Depth(k) > 1
  <2>1. n + 1 \in 1..(n + 1)
    OBVIOUS
  <2> QED BY <1>0, <1>1, <1>3, <2>1, ChildrenAre
<1>9. \A k \in DOMAIN out : out[k].start \in 1..n /\ out[k].end \in 1..n
  <2>1. PICK b \in 0..n : b = (IF start = 0 THEN n ELSE start - 1)
    BY <1>5
  <2>2. Cut(out, 1, b)
    BY <1>0, <2>1 DEF Cursor
  <2> SUFFICES ASSUME NEW k \in DOMAIN out PROVE out[k].start \in 1..n /\ out[k].end \in 1..n
    OBVIOUS
  <2>3. out[k].start \in 1..b /\ out[k].end \in 1..b
    BY <2>2, CutTypes
  <2> QED BY <2>3
<1>10. ASSUME out' = out, \A i \in 1..n : ~Child(i, n + 1)'
       PROVE  \A i, j \in 1..(n + 1) :
                 Child(i, j)' <=> \E k \in DOMAIN out' : out'[k].start = i /\ out'[k].end = j
  <2> SUFFICES ASSUME NEW i \in 1..(n + 1), NEW j \in 1..(n + 1)
               PROVE  Child(i, j)' <=> \E k \in DOMAIN out : out[k].start = i /\ out[k].end = j
    BY <1>10
  <2>1. CASE i \in 1..n /\ j \in 1..n
    BY <1>5, <1>8, <2>1
  <2>2. CASE ~(i \in 1..n /\ j \in 1..n)
    <3>1. ~Child(i, j)'
      <4>1. i = n + 1 \/ (i \in 1..n /\ j = n + 1)
        BY <2>2
      <4> QED BY <1>8, <1>10, <4>1
    <3>2. ~\E k \in DOMAIN out : out[k].start = i /\ out[k].end = j
      BY <1>9, <2>2
    <3> QED BY <3>1, <3>2
  <2> QED BY <2>1, <2>2
<1>11. CASE depth = 1 /\ start = 0 /\ o > c
  <2>1. start' = n + 1 /\ out' = out
    BY <1>0, <1>6, <1>11 DEF ReadXml, Here
  <2>2. depth' = 2 /\ Depth(n + 1)' = 2 /\ Depth(n)' = 1
    <3>1. n \in 0..n
      OBVIOUS
    <3>2. o = 1 /\ c = 0
      BY <1>11
    <3>3. depth' = 2
      BY <1>7, <1>11, <3>2
    <3>4. Depth(n)' = 1
      BY <1>4, <1>5, <1>11, <3>1
    <3> QED BY <1>7, <3>3, <3>4
  <2>3. \A i \in 1..n : ~Child(i, n + 1)'
    BY <1>8, <2>2
  <2>4. Depth(start - 1)' = 1 /\ Depth(start)' = 2
    <3>1. start' - 1 = n
      BY <2>1
    <3> QED BY <2>1, <2>2, <3>1 DEF Depth, TagsUpTo
  <2>5. \A k \in start'..(n + 1) : Depth(k)' > 1
    <3> SUFFICES ASSUME NEW k \in start'..(n + 1) PROVE Depth(k)' > 1
      OBVIOUS
    <3>1. k = n + 1
      BY <2>1
    <3> QED BY <2>2, <3>1
  <2>6. start' = 0 <=> depth' <= 1
    BY <2>1, <2>2
  <2> QED BY <1>7, <1>10, <2>1, <2>3, <2>4, <2>5, <2>6
<1>12. CASE ~(depth = 1 /\ start = 0 /\ o > c) /\ start # 0 /\ depth + o - c <= 1
  <2>0. PICK m \in 1..n : m = start
    BY <1>5, <1>12
  <2>1. depth = 2 /\ depth' = 1 /\ Depth(n + 1)' = 1
    BY <1>5, <1>7, <1>12
  <2>2. start' = 0 /\ out' = Append(out, document_chunk(m, n + 1, name))
    <3>1. depth >= 1
      BY <2>1
    <3> QED BY <1>0, <1>6, <1>12, <2>0, <3>1 DEF ReadXml, Here
  <2>3. /\ DOMAIN out' = 1..(Len(out) + 1) /\ DOMAIN out = 1..Len(out) /\ Len(out) \in Nat
        /\ \A k \in 1..Len(out) : out'[k] = out[k]
        /\ out'[Len(out) + 1] = document_chunk(m, n + 1, name)
    <3> DEFINE H == DocChunk
               e == document_chunk(m, n + 1, name)
    <3>1. out \in Seq(H)
      BY DEF Cursor, Cut
    <3>2. e \in H
      BY DEF document_chunk, DocChunk, Cursor
    <3>3. out' = Append(out, e)
      BY <2>2
    <3> HIDE DEF H, e
    <3>4. /\ DOMAIN out' = 1..(Len(out) + 1) /\ DOMAIN out = 1..Len(out) /\ Len(out) \in Nat
          /\ \A k \in 1..Len(out) : out'[k] = out[k]
          /\ out'[Len(out) + 1] = e
      BY <3>1, <3>2, <3>3
    <3> QED BY <3>4 DEF e
  <2>4. \A i \in 1..n : Child(i, n + 1)' <=> i = m
    <3> SUFFICES ASSUME NEW i \in 1..n
                 PROVE  /\ Depth(i - 1) = 1 /\ Depth(i) = 2 /\ \A k \in i..n : Depth(k) > 1
                        <=> i = m
      BY <1>8, <2>1
    <3>1. Depth(m - 1) = 1 /\ Depth(m) = 2 /\ \A k \in m..n : Depth(k) > 1
      BY <1>5, <1>12, <2>0
    <3>2. ASSUME Depth(i - 1) = 1, \A k \in i..n : Depth(k) > 1 PROVE i = m
      <4>1. ~(i < m)
        <5> SUFFICES ASSUME i < m PROVE FALSE
          OBVIOUS
        <5>1. m - 1 \in i..n
          OBVIOUS
        <5>2. Depth(m - 1) > 1
          BY <3>2, <5>1
        <5> QED BY <3>1, <5>2
      <4>2. ~(m < i)
        <5> SUFFICES ASSUME m < i PROVE FALSE
          OBVIOUS
        <5>1. i - 1 \in m..n
          OBVIOUS
        <5>2. Depth(i - 1) > 1
          BY <3>1, <5>1
        <5> QED BY <3>2, <5>2
      <4> QED BY <4>1, <4>2
    <3> QED BY <3>1, <3>2
  <2>5. \A i, j \in 1..(n + 1) :
           Child(i, j)' <=> \E k \in DOMAIN out' : out'[k].start = i /\ out'[k].end = j
    <3> SUFFICES ASSUME NEW i \in 1..(n + 1), NEW j \in 1..(n + 1)
                 PROVE  Child(i, j)' <=> \E k \in DOMAIN out' : out'[k].start = i /\ out'[k].end = j
      OBVIOUS
    <3>1. PICK e : e = out'[Len(out) + 1] /\ e.start = m /\ e.end = n + 1
      BY <2>3 DEF document_chunk
    <3>2. (\E k \in DOMAIN out' : out'[k].start = i /\ out'[k].end = j) <=>
             \/ \E k \in DOMAIN out : out[k].start = i /\ out[k].end = j
             \/ i = m /\ j = n + 1
      <4>1. \A k : k \in DOMAIN out' <=> (k \in DOMAIN out \/ k = Len(out) + 1)
        BY <2>3
      <4>2. \A k \in DOMAIN out : out'[k] = out[k]
        BY <2>3
      <4> QED BY ONLY <3>1, <4>1, <4>2
    <3>3. CASE i \in 1..n /\ j \in 1..n
      BY <1>5, <1>8, <3>2, <3>3
    <3>4. CASE i \in 1..n /\ j = n + 1
      <4>1. ~\E k \in DOMAIN out : out[k].start = i /\ out[k].end = j
        BY <1>9, <3>4
      <4> QED BY <2>4, <3>2, <3>4, <4>1
    <3>5. CASE i = n + 1
      <4>1. ~\E k \in DOMAIN out : out[k].start = i /\ out[k].end = j
        BY <1>9, <3>5
      <4> QED BY <1>8, <3>2, <3>5, <4>1
    <3>6. (i \in 1..n /\ j \in 1..n) \/ (i \in 1..n /\ j = n + 1) \/ i = n + 1
      OBVIOUS
    <3> QED BY <3>3, <3>4, <3>5, <3>6
  <2>6. start' = 0 /\ depth' <= 1
    BY <2>1, <2>2
  <2> QED BY <1>7, <2>5, <2>6
<1>13. CASE ~(depth = 1 /\ start = 0 /\ o > c) /\ ~(start # 0 /\ depth + o - c <= 1)
  <2>1. start' = start /\ out' = out
    BY <1>0, <1>6, <1>13 DEF ReadXml, Here
  <2>2. start' = 0 <=> depth' <= 1
    BY <1>5, <1>6, <1>7, <1>13, <2>1
  <2>3. \A i \in 1..n : ~Child(i, n + 1)'
    <3> SUFFICES ASSUME NEW i \in 1..n, Child(i, n + 1)' PROVE FALSE
      OBVIOUS
    <3>1. Depth(n + 1)' = 1 /\ \A k \in i..n : Depth(k) > 1
      BY <1>8
    <3>2. n \in i..n
      OBVIOUS
    <3>3. depth > 1 /\ depth' <= 1
      BY <1>5, <1>7, <3>1, <3>2
    <3> QED BY <1>5, <1>7, <1>13, <3>3
  <2>4. start' # 0 => /\ Depth(start - 1)' = 1 /\ Depth(start)' = 2
                     /\ \A k \in start'..(n + 1) : Depth(k)' > 1
    <3> SUFFICES ASSUME start # 0
                 PROVE  /\ Depth(start - 1)' = 1 /\ Depth(start)' = 2
                        /\ \A k \in start..(n + 1) : Depth(k)' > 1
      BY <2>1
    <3>1. PICK m \in 1..n : m = start /\ m = start'
      BY <1>5, <2>1
    <3>2. Depth(m - 1)' = 1 /\ Depth(m)' = 2
      <4>1. m - 1 \in 0..n /\ m \in 0..n
        OBVIOUS
      <4> QED BY <1>4, <1>5, <3>1, <4>1
    <3>3. Depth(start - 1)' = 1 /\ Depth(start)' = 2
      BY <3>1, <3>2 DEF Depth, TagsUpTo
    <3>4. \A k \in m..(n + 1) : Depth(k)' > 1
      <4> SUFFICES ASSUME NEW k \in m..(n + 1) PROVE Depth(k)' > 1
        OBVIOUS
      <4>1. CASE k = n + 1
        BY <1>5, <1>7, <2>1, <2>2, <4>1
      <4>2. CASE k # n + 1
        <5>1. k \in m..n /\ k \in 0..n
          BY <4>2
        <5> QED BY <1>4, <1>5, <3>1, <5>1
      <4> QED BY <4>1, <4>2
    <3> QED BY <3>1, <3>3, <3>4
  <2> QED BY <1>7, <1>10, <2>1, <2>2, <2>3, <2>4
<1> QED BY <1>11, <1>12, <1>13
-----------------------------------------------------------------------------
(* The end of the file.                                                    *)

\* Chunks that begin on different lines have different ids.
LEMMA IdsDiffer ==
  ASSUME NEW c, NEW d, c.start # d.start PROVE ChunkId(c) # ChunkId(d)
BY DEF ChunkId

\* A piece of a paragraph of the whole file.
PlainEnd(c) ==
    /\ \A i \in 1..Len(lines) : c.start <= i /\ i <= c.end => ~Blank(lines[i])
    /\ c.end - c.start < PLAINTEXT_MAX_LINES
    /\ \/ c.end - c.start = PLAINTEXT_MAX_LINES - 1
       \/ c.end = Len(lines) \/ Blank(lines[c.end + 1])

\* What the chunks of a whole file are like, unless they are windows.
EndsWell(s) ==
    /\ Cut(s, 1, Len(lines))
    /\ ext \in Sections \cup Plain => \A i \in 1..Len(lines) : ~Blank(lines[i]) => Covers(s, i)
    /\ ext \in Sections =>
          /\ \A i \in 1..Len(lines) : Header(i) =>
                \E k \in DOMAIN s : s[k].start = i /\ s[k].name = lines[i].name
          /\ \A k \in DOMAIN s : s[k].start > 1 => Header(s[k].start)
    /\ ext \in Plain /\ (\E i \in 1..Len(lines) : ~Blank(lines[i])) => \A k \in DOMAIN s : PlainEnd(s[k])
    /\ ext = "xml" /\ OneTagALine =>
          IF \E i, j \in 1..Len(lines) : Child(i, j)
          THEN \A i, j \in 1..Len(lines) :
                  Child(i, j) <=> \E k \in DOMAIN s : s[k].start = i /\ s[k].end = j
          ELSE IF lines = <<>> THEN s = <<>>
          ELSE DOMAIN s = {1} /\ s[1].start = 1 /\ s[1].end = Len(lines)

\* What the cut of a file says of its chunks.
LEMMA CutGives ==
  ASSUME Cut(out, 1, Len(lines)), Len(lines) \in Nat
  PROVE  /\ \A c \in Range(out) : c.start \in 1..c.end /\ c.end <= Len(lines)
         /\ \A i \in 2..Len(out) : out[i - 1].end < out[i].start
         /\ DocIdsUnique
<1>1. PICK n \in Nat : n = Len(lines)
  OBVIOUS
<1>2. \A k \in DOMAIN out : out[k].start \in 1..n /\ out[k].end \in 1..n /\ out[k].start <= out[k].end
  BY <1>1, CutTypes
<1>3. DOMAIN out = 1..Len(out) /\ Len(out) \in Nat
  <2> DEFINE H == DocChunk
  <2>1. out \in Seq(H)
    BY DEF Cut
  <2> HIDE DEF H
  <2> QED BY <2>1
<1>4. \A c \in Range(out) : c.start \in 1..c.end /\ c.end <= Len(lines)
  BY <1>1, <1>2 DEF Range
<1>5. \A i, j \in DOMAIN out : i < j => out[i].end < out[j].start
  BY DEF Cut
<1>6. \A i \in 2..Len(out) : out[i - 1].end < out[i].start
  BY <1>3, <1>5
<1>7. DocIdsUnique
  <2> SUFFICES ASSUME NEW i \in DOMAIN out, NEW j \in DOMAIN out, i # j
               PROVE  ChunkId(out[i]) # ChunkId(out[j])
    BY DEF DocIdsUnique
  <2>1. i < j \/ j < i
    BY <1>3
  <2>2. out[i].start # out[j].start
    BY <1>2, <1>5, <2>1
  <2> QED BY <2>2, IdsDiffer
<1> QED BY <1>4, <1>6, <1>7

\* So the scanner never goes wrong before the end.
LEMMA ScanningGives ==
  ASSUME Scanning, ~done, done \in BOOLEAN PROVE DocChunksExact
<1>1. Len(lines) \in Nat
  <2> DEFINE U == LinesOf(ext)
  <2>1. lines \in Seq(U)
    BY DEF Scanning, Cursor
  <2> HIDE DEF U
  <2> QED BY <2>1
<1>2. Cut(out, 1, Len(lines))
  <2>1. PICK n \in Nat, b \in Nat :
            n = Len(lines) /\ b = (IF start = 0 THEN n ELSE start - 1) /\ b <= n
    <3>1. start \in 0..Len(lines) + 1
      BY DEF Scanning, Cursor
    <3> QED BY <1>1, <3>1
  <2>2. Cut(out, 1, b)
    BY <2>1 DEF Scanning, Cursor
  <2> QED BY <2>1, <2>2, CutGrows
<1>3. /\ \A c \in Range(out) : c.start \in 1..c.end /\ c.end <= Len(lines)
      /\ \A i \in 2..Len(out) : out[i - 1].end < out[i].start
      /\ DocIdsUnique
  BY <1>1, <1>2, CutGives
<1>4. DocTypeOK
  BY <1>3 DEF DocTypeOK, Scanning, Cursor
<1>5. LinesPartitioned /\ HeadersCut /\ ParagraphsCut /\ XmlChildren /\ WindowsCover
  BY <1>3 DEF LinesPartitioned, HeadersCut, ParagraphsCut, XmlChildren, WindowsCover
<1> QED BY <1>3, <1>4, <1>5 DEF DocChunksExact

\* The types of what the scanner keeps.
Typed ==
    /\ ext \in Ext /\ lines \in Seq(LinesOf(ext)) /\ Len(lines) <= MaxLines
    /\ start \in 0..Len(lines) + 1 /\ name \in Name \cup {NoName}
    /\ fence \in BOOLEAN /\ depth \in Int

\* Chunks that end well are exact.
LEMMA EndGives ==
  ASSUME Typed, done, EndsWell(out), ext # "csv" PROVE DocChunksExact
<1>1. Len(lines) \in Nat /\ DOMAIN lines = 1..Len(lines)
  <2> DEFINE U == LinesOf(ext)
  <2>1. lines \in Seq(U)
    BY DEF Typed
  <2> HIDE DEF U
  <2> QED BY <2>1
<1>2. Cut(out, 1, Len(lines))
  BY DEF EndsWell
<1>3. /\ \A c \in Range(out) : c.start \in 1..c.end /\ c.end <= Len(lines)
      /\ \A i \in 2..Len(out) : out[i - 1].end < out[i].start
      /\ DocIdsUnique
  BY <1>1, <1>2, CutGives
<1>4. DocTypeOK
  BY <1>3 DEF DocTypeOK, Typed
<1>5. LinesPartitioned
  <2>1. ASSUME ext \in Sections \cup Plain, NEW i \in DOMAIN lines, ~Blank(lines[i])
        PROVE  \E c \in Range(out) : i \in c.start..c.end
    <3>1. PICK k \in DOMAIN out : out[k].start <= i /\ i <= out[k].end
      BY <1>1, <2>1 DEF EndsWell, Covers
    <3>2. out[k] \in Range(out)
      BY DEF Range
    <3>3. out[k].start \in Nat /\ out[k].end \in Nat
      <4>1. PICK n \in Nat : n = Len(lines)
        BY <1>1
      <4>2. out[k].start \in 1..n /\ out[k].end \in 1..n
        BY <1>2, <4>1, CutTypes
      <4> QED BY <4>2
    <3>4. i \in out[k].start..out[k].end
      BY <1>1, <3>1, <3>3
    <3> QED BY <3>2, <3>4
  <2> QED BY <1>3, <2>1 DEF LinesPartitioned, Sections
<1>6. HeadersCut
  <2> SUFFICES ASSUME ext \in Sections
               PROVE  /\ \A i \in DOMAIN lines : Header(i) =>
                            \E c \in Range(out) : c.start = i /\ c.name = lines[i].name
                      /\ \A c \in Range(out) : c.start > 1 => Header(c.start)
    BY DEF HeadersCut, Sections
  <2>1. ASSUME NEW i \in DOMAIN lines, Header(i)
        PROVE  \E c \in Range(out) : c.start = i /\ c.name = lines[i].name
    <3>1. PICK k \in DOMAIN out : out[k].start = i /\ out[k].name = lines[i].name
      BY <1>1, <2>1 DEF EndsWell
    <3> QED BY <3>1 DEF Range
  <2>2. ASSUME NEW c \in Range(out), c.start > 1 PROVE Header(c.start)
    <3>1. PICK k \in DOMAIN out : c = out[k]
      BY DEF Range
    <3> QED BY <2>2, <3>1 DEF EndsWell
  <2> QED BY <2>1, <2>2
<1>7. ParagraphsCut
  <2> SUFFICES ASSUME ext \in Plain, \E i \in DOMAIN lines : ~Blank(lines[i]), NEW c \in Range(out)
               PROVE  /\ \A i \in c.start..c.end : ~Blank(lines[i])
                      /\ c.end - c.start < PLAINTEXT_MAX_LINES
                      /\ \/ c.end - c.start = PLAINTEXT_MAX_LINES - 1
                         \/ c.end = Len(lines) \/ Blank(lines[c.end + 1])
    BY DEF ParagraphsCut
  <2>1. PICK k \in DOMAIN out : c = out[k]
    BY DEF Range
  <2>2. PlainEnd(c)
    BY <1>1, <2>1 DEF EndsWell
  <2>3. \A i \in c.start..c.end : ~Blank(lines[i])
    <3> SUFFICES ASSUME NEW i \in c.start..c.end PROVE ~Blank(lines[i])
      OBVIOUS
    <3>1. PICK n \in Nat : n = Len(lines)
      BY <1>1
    <3>2. c.start \in 1..n /\ c.end \in 1..n
      BY <1>2, <2>1, <3>1, CutTypes
    <3>3. i \in 1..n /\ c.start <= i /\ i <= c.end
      BY <3>2
    <3> QED BY <2>2, <3>1, <3>3 DEF PlainEnd
  <2> QED BY <2>2, <2>3 DEF PlainEnd
<1>8. XmlChildren
  <2> SUFFICES ASSUME ext = "xml", OneTagALine
               PROVE  LET Children == {p \in (DOMAIN lines) \X (DOMAIN lines) : Child(p[1], p[2])}
                      IN {<<c.start, c.end>> : c \in Range(out)} =
                            IF Children # {} THEN Children
                            ELSE IF lines = <<>> THEN {} ELSE {<<1, Len(lines)>>}
    BY DEF XmlChildren
  <2> DEFINE Children == {p \in (DOMAIN lines) \X (DOMAIN lines) : Child(p[1], p[2])}
             Got == {<<c.start, c.end>> : c \in Range(out)}
  <2>1. PICK n \in Nat : n = Len(lines) /\ DOMAIN lines = 1..n
    BY <1>1
  <2>2. \A k \in DOMAIN out : out[k].start \in 1..n /\ out[k].end \in 1..n
    BY <1>2, <2>1, CutTypes
  <2>3. CASE \E i, j \in 1..n : Child(i, j)
    <3>1. \A i, j \in 1..n : Child(i, j) <=> \E k \in DOMAIN out : out[k].start = i /\ out[k].end = j
      BY <2>1, <2>3 DEF EndsWell
    <3>2. Children # {}
      <4>1. PICK i \in 1..n, j \in 1..n : Child(i, j)
        BY <2>3
      <4>2. <<i, j>> \in Children
        BY <2>1, <4>1
      <4> QED BY <4>2
    <3>3. Got \subseteq Children
      BY <2>1, <2>2, <3>1 DEF Range
    <3>4. ASSUME NEW p \in Children PROVE p \in Got
      <4>1. PICK i \in 1..n, j \in 1..n : p = <<i, j>> /\ Child(i, j)
        BY <2>1
      <4>2. PICK k \in DOMAIN out : out[k].start = i /\ out[k].end = j
        BY <3>1, <4>1
      <4> QED BY <4>1, <4>2 DEF Range
    <3> QED BY <3>2, <3>3, <3>4
  <2>4. CASE ~\E i, j \in 1..n : Child(i, j)
    <3>1. Children = {}
      BY <2>1, <2>4
    <3>2. Got = IF lines = <<>> THEN {} ELSE {<<1, Len(lines)>>}
      BY <2>1, <2>4 DEF EndsWell, Range
    <3> QED BY <3>1, <3>2
  <2> QED BY <2>3, <2>4
<1>9. WindowsCover
  BY DEF WindowsCover
<1> QED BY <1>3, <1>4, <1>5, <1>6, <1>7, <1>8, <1>9 DEF DocChunksExact


\* How many lines a file has.
LEMMA LinesHave == ASSUME Typed PROVE Len(lines) \in Nat /\ DOMAIN lines = 1..Len(lines)
<1> DEFINE U == LinesOf(ext)
<1>1. lines \in Seq(U)
  BY DEF Typed
<1> HIDE DEF U
<1> QED BY <1>1

\* A cursor has its types.
LEMMA CursorTyped == ASSUME Cursor PROVE Typed
BY DEF Cursor, Typed

\* A file without a line has no chunk.
LEMMA EmptyEnds == ASSUME Typed, Len(lines) = 0 PROVE EndsWell(<<>>)
<1>1. Cut(<<>>, 1, Len(lines)) /\ DOMAIN <<>> = {}
  BY NoCut
<1>2. ASSUME NEW i \in 1..Len(lines) PROVE FALSE
  BY <1>2
<1>3. lines = <<>>
  <2> DEFINE U == LinesOf(ext)
  <2>1. lines \in Seq(U)
    BY DEF Typed
  <2> HIDE DEF U
  <2> QED BY <2>1
<1> QED BY <1>1, <1>2, <1>3 DEF EndsWell

\* A file with none of what it would be cut at is one chunk.
LEMMA WholeEnds ==
  ASSUME Typed, NEW n \in Nat, n > 0, n = Len(lines),
         ext \in Sections \cup Plain => \A i \in 1..n : Blank(lines[i]),
         ext = "xml" /\ OneTagALine => ~\E i, j \in 1..n : Child(i, j)
  PROVE  EndsWell(<<document_chunk(1, n, NoName)>>)
<1>1. PICK u : u = <<document_chunk(1, n, NoName)>>
  OBVIOUS
<1>2. Cut(u, 1, n) /\ DOMAIN u = {1} /\ u[1] = [start |-> 1, end |-> n, name |-> NoName]
  <2>1. 1 \in Nat \ {0} /\ 1 <= n /\ NoName \in Name \cup {NoName}
    OBVIOUS
  <2> QED BY <1>1, <2>1, OneCut
<1>3. ext \in Sections => \A i \in 1..n : ~Header(i)
  BY HeadersHaveText
<1>4. \A k \in DOMAIN u : ~(u[k].start > 1)
  BY <1>2
<1>5. lines # <<>>
  OBVIOUS
<1>6. u[1].start = 1 /\ u[1].end = n
  BY <1>2
<1> QED BY <1>1, <1>2, <1>3, <1>4, <1>5, <1>6 DEF EndsWell

\* The end of a document.
LEMMA SectionsEnd ==
  ASSUME Cursor, SectionInv, ext \in Sections, NEW u, u = out \o Flushed
  PROVE  /\ EndsWell(u)
         /\ DOMAIN u = {} => \A i \in 1..Len(lines) : Blank(lines[i])
<1>1. SectionsAre(u)
  BY SectionClosed
<1>2. ext \notin Plain /\ ext # "xml"
  BY DEF Sections, Markdown, Keyed, Yaml, Plain
<1>3. EndsWell(u)
  BY <1>1, <1>2 DEF SectionsAre, EndsWell
<1>4. ASSUME DOMAIN u = {}, NEW i \in 1..Len(lines) PROVE Blank(lines[i])
  BY <1>1, <1>4 DEF SectionsAre, Covers
<1> QED BY <1>3, <1>4

\* The end of a text.
LEMMA PlainEnds ==
  ASSUME Cursor, PlainInv, ext \in Plain, NEW u,
         u = IF start = 0 THEN out ELSE out \o Paragraph(start, Len(lines))
  PROVE  /\ EndsWell(u)
         /\ DOMAIN u = {} => \A i \in 1..Len(lines) : Blank(lines[i])
<1>1. PICK n \in Nat : n = Len(lines)
  BY CursorTyped, LinesHave
<1>2. ext \notin Sections /\ ext # "xml"
  BY DEF Sections, Markdown, Keyed, Yaml, Plain
<1>3. PICK s, t : s = out /\ t = Paragraph(start, n)
  OBVIOUS
<1>4. /\ \A i \in 1..n : ~Blank(lines[i]) => (start # 0 /\ start <= i) \/ Covers(s, i)
      /\ \A k \in DOMAIN s : PlainPiece(s[k])
  BY <1>1, <1>3 DEF PlainInv
<1>5. \A c : PlainPiece(c) => PlainEnd(c)
  BY DEF PlainPiece, PlainEnd
<1>6. /\ Cut(u, 1, n) /\ \A i \in 1..n : ~Blank(lines[i]) => Covers(u, i)
      /\ \A k \in DOMAIN u : PlainEnd(u[k])
  <2>1. CASE start = 0
    <3>1. u = s /\ Cut(s, 1, n)
      BY <1>1, <1>3, <2>1 DEF Cursor
    <3> QED BY <1>4, <1>5, <2>1, <3>1
  <2>2. CASE start # 0
    <3>1. start \in Nat \ {0} /\ start <= n /\ start - 1 \in Nat /\ Cut(s, 1, start - 1)
      BY <1>1, <1>3, <2>2 DEF Cursor, PlainInv
    <3>2. PiecesOK(t, start, n)
      BY <1>3, <3>1, PiecesAre
    <3>3. /\ Cut(t, start, n) /\ \A l \in start..n : Covers(t, l)
          /\ \A i \in DOMAIN t :
                /\ t[i].end - t[i].start < PLAINTEXT_MAX_LINES
                /\ t[i].end - t[i].start = PLAINTEXT_MAX_LINES - 1 \/ t[i].end = n
      BY <3>2 DEF PiecesOK
    <3>4. u = s \o t
      BY <1>1, <1>3, <2>2
    <3>5. /\ Cut(u, 1, n)
          /\ \A i \in DOMAIN s : u[i] = s[i] /\ i \in DOMAIN u
          /\ \A i \in DOMAIN t : u[Len(s) + i] = t[i] /\ Len(s) + i \in DOMAIN u
          /\ \A i \in DOMAIN u :
                \/ i \in DOMAIN s /\ u[i] = s[i]
                \/ i - Len(s) \in DOMAIN t /\ u[i] = t[i - Len(s)]
      <4>1. 1 <= start /\ start - 1 < start /\ start - 1 <= n /\ 1 \in Nat /\ start \in Nat
        BY <1>1, <3>1
      <4>2. start - 1 \in Nat /\ Cut(s, 1, start - 1) /\ Cut(t, start, n)
        BY <3>1, <3>3
      <4>3. /\ Cut(s \o t, 1, n)
            /\ \A i \in DOMAIN s : (s \o t)[i] = s[i] /\ i \in DOMAIN (s \o t)
            /\ \A i \in DOMAIN t : (s \o t)[Len(s) + i] = t[i] /\ Len(s) + i \in DOMAIN (s \o t)
            /\ \A i \in DOMAIN (s \o t) :
                  \/ i \in DOMAIN s
                  \/ i - Len(s) \in DOMAIN t /\ (s \o t)[i] = t[i - Len(s)]
        BY ONLY <1>1, <4>1, <4>2, CutsJoin
      <4> QED BY ONLY <3>4, <4>3
    <3>6. ASSUME NEW i \in 1..n, ~Blank(lines[i]) PROVE Covers(u, i)
      <4>1. CASE Covers(s, i)
        BY <3>5, <4>1 DEF Covers
      <4>2. CASE start <= i
        <5>1. i \in start..n
          BY <1>1, <3>1, <4>2
        <5>2. Covers(t, i)
          BY <3>3, <5>1
        <5> QED BY <3>5, <5>2 DEF Covers
      <4> QED BY <1>4, <3>6, <4>1, <4>2
    <3>7. \A i \in 1..n : start <= i => ~Blank(lines[i])
      BY <1>1, <2>2 DEF PlainInv
    <3>8. ASSUME NEW k \in DOMAIN t PROVE PlainEnd(t[k])
      <4>1. t[k].start \in start..n
        <5>1. start \in Nat
          BY <3>1
        <5> QED BY <1>1, <3>3, <5>1, CutTypes
      <4>2. \A i \in 1..n : t[k].start <= i => ~Blank(lines[i])
        BY <1>1, <3>1, <3>7, <4>1
      <4> QED BY <1>1, <3>3, <4>2 DEF PlainEnd
    <3> QED BY <1>4, <1>5, <3>5, <3>6, <3>8
  <2> QED BY <2>1, <2>2
<1>7. EndsWell(u)
  BY <1>1, <1>2, <1>6 DEF EndsWell
<1>8. ASSUME DOMAIN u = {}, NEW i \in 1..n PROVE Blank(lines[i])
  BY <1>6, <1>8 DEF Covers
<1> QED BY <1>1, <1>7, <1>8

\* The end of an XML file.
LEMMA XmlEnds ==
  ASSUME Cursor, XmlInv, ext = "xml"
  PROVE  /\ DOMAIN out # {} => EndsWell(out)
         /\ DOMAIN out = {} /\ OneTagALine => ~\E i, j \in 1..Len(lines) : Child(i, j)
<1>1. PICK n \in Nat : n = Len(lines)
  BY CursorTyped, LinesHave
<1>2. ext \notin Sections /\ ext \notin Plain
  BY DEF Sections, Markdown, Keyed, Yaml, Plain
<1>3. Cut(out, 1, n)
  <2>1. PICK b \in Nat : b = (IF start = 0 THEN n ELSE start - 1) /\ b <= n
    <3>1. start \in 0..n + 1
      BY <1>1 DEF Cursor
    <3> QED BY <1>1, <3>1
  <2>2. Cut(out, 1, b)
    BY <1>1, <2>1 DEF Cursor
  <2> QED BY <2>1, <2>2, CutGrows
<1>4. OneTagALine => \A i, j \in 1..n : Child(i, j) <=> \E k \in DOMAIN out : out[k].start = i /\ out[k].end = j
  BY <1>1 DEF XmlInv
<1>5. ASSUME OneTagALine, DOMAIN out # {} PROVE \E i, j \in 1..n : Child(i, j)
  <2>1. PICK k \in DOMAIN out : TRUE
    BY <1>5
  <2>2. out[k].start \in 1..n /\ out[k].end \in 1..n
    BY <1>3, CutTypes
  <2> QED BY <1>4, <1>5, <2>2
<1>6. DOMAIN out # {} => EndsWell(out)
  BY <1>1, <1>2, <1>3, <1>4, <1>5 DEF EndsWell
<1>7. DOMAIN out = {} /\ OneTagALine => ~\E i, j \in 1..n : Child(i, j)
  BY <1>4
<1> QED BY <1>1, <1>6, <1>7

\* The end of a file that is not cut into windows.
LEMMA EofEnds ==
  ASSUME Scanning, Eof, ext # "csv"
  PROVE  \E u : out' = u /\ EndsWell(u)
<1>1. PICK n \in Nat : n = Len(lines)
  BY CursorTyped, LinesHave DEF Scanning
<1>2. Cursor /\ Typed
  BY CursorTyped DEF Scanning
<1>3. PICK u : u = out \o Rest
  OBVIOUS
<1>4. PICK w : w = <<document_chunk(1, n, NoName)>>
  OBVIOUS
<1>5. n = 0 => EndsWell(<<>>)
  BY <1>1, <1>2, EmptyEnds
<1>6. \A H : u \in Seq(H) => (u = <<>> <=> DOMAIN u = {})
  OBVIOUS
<1>7. out \in Seq(DocChunk)
  BY <1>2 DEF Cursor, Cut
<1>8. out \o <<>> = out
  <2> DEFINE H == DocChunk
  <2>1. out \in Seq(H)
    BY <1>7
  <2> HIDE DEF H
  <2> QED BY <2>1
<1>9. CASE ext = "json"
  <2>1. ext \notin Sections /\ ext \notin Plain /\ ext # "xml"
    BY <1>9 DEF Sections, Markdown, Keyed, Yaml, Plain
  <2>2. out' = chunk_json(n)
    BY <1>1, <1>9 DEF Eof
  <2>3. CASE n \in 1..(JSON_MAX_LINES - 1)
    <3>1. out' = w /\ n > 0
      BY <1>4, <2>2, <2>3 DEF chunk_json
    <3> QED BY <1>1, <1>2, <1>4, <2>1, <3>1, WholeEnds
  <2>4. CASE n \notin 1..(JSON_MAX_LINES - 1)
    <3>1. out' = <<>>
      BY <2>2, <2>4 DEF chunk_json
    <3>2. Cut(<<>>, 1, Len(lines))
      BY NoCut
    <3>3. EndsWell(<<>>)
      BY <2>1, <3>2 DEF EndsWell
    <3> QED BY <3>1, <3>3
  <2> QED BY <2>3, <2>4
<1>10. CASE ext # "json"
  <2>1. out' = IF n > 0 /\ u = <<>> THEN w ELSE IF n > 0 THEN u ELSE <<>>
    BY <1>1, <1>3, <1>4, <1>10 DEF Eof
  <2>2. /\ u # <<>> => EndsWell(u)
        /\ u = <<>> /\ ext \in Sections \cup Plain => \A i \in 1..n : Blank(lines[i])
        /\ u = <<>> /\ ext = "xml" /\ OneTagALine => ~\E i, j \in 1..n : Child(i, j)
    <3>1. CASE ext \in Sections
      <4>0. ext \notin Plain /\ ext # "xml"
        BY <3>1 DEF Sections, Markdown, Keyed, Yaml, Plain
      <4>1. SectionInv /\ u = out \o Flushed /\ ext # "xml"
        BY <1>3, <3>1, <4>0 DEF Scanning, Rest, Sections
      <4>2. EndsWell(u) /\ (DOMAIN u = {} => \A i \in 1..n : Blank(lines[i]))
        BY <1>1, <1>2, <3>1, <4>1, SectionsEnd
      <4> QED BY <4>1, <4>2
    <3>2. CASE ext \in Plain
      <4>1. PlainInv /\ ext # "xml"
        BY <3>2 DEF Scanning, Plain
      <4>2. u = IF start = 0 THEN out ELSE out \o Paragraph(start, Len(lines))
        BY <1>3, <1>8, <3>2 DEF Rest, Plain, Markdown, Keyed, Yaml
      <4>3. EndsWell(u) /\ (DOMAIN u = {} => \A i \in 1..n : Blank(lines[i]))
        BY <1>1, <1>2, <3>2, <4>1, <4>2, PlainEnds
      <4> QED BY <4>1, <4>3
    <3>3. CASE ext = "xml"
      <4>1. XmlInv /\ ext \notin Sections /\ ext \notin Plain
        BY <3>3 DEF Scanning, Sections, Markdown, Keyed, Yaml, Plain
      <4>2. u = out
        BY <1>3, <1>8, <4>1 DEF Rest, Sections
      <4>3. u # <<>> => DOMAIN u # {}
        BY <1>6, <1>7, <4>2
      <4> QED BY <1>1, <1>2, <3>3, <4>1, <4>2, <4>3, XmlEnds
    <3>4. ext \in Sections \cup Plain \cup {"xml"}
      BY <1>2, <1>10 DEF Typed, Ext, Sections, Plain, Markdown, Keyed, Yaml
    <3> QED BY <3>1, <3>2, <3>3, <3>4
  <2>3. CASE n = 0
    BY <1>5, <2>1, <2>3
  <2>4. CASE n > 0 /\ u # <<>>
    BY <2>1, <2>2, <2>4
  <2>5. CASE n > 0 /\ u = <<>>
    <3>1. EndsWell(w)
      BY <1>1, <1>2, <1>4, <2>2, <2>5, WholeEnds
    <3> QED BY <2>1, <2>5, <3>1
  <2> QED BY <1>1, <2>3, <2>4, <2>5
<1> QED BY <1>9, <1>10

\* What a file is like does not change where its lines do not.
LEMMA SameLines ==
  ASSUME UNCHANGED <<ext, lines>>
  PROVE  /\ \A i : Blank(lines[i])' <=> Blank(lines[i])
         /\ \A i : Fenced(i)' <=> Fenced(i)
         /\ \A i : Header(i)' <=> Header(i)
         /\ \A c : PlainEnd(c)' <=> PlainEnd(c)
         /\ \A c : PlainPiece(c)' <=> PlainPiece(c)
         /\ \A k : Depth(k)' = Depth(k)
         /\ \A i, j : Child(i, j)' <=> Child(i, j)
         /\ OneTagALine' <=> OneTagALine
         /\ LinesOf(ext)' = LinesOf(ext)
         /\ \A c : ChunkId(c)' = ChunkId(c)
<1>1. \A i : Fenced(i)' <=> Fenced(i)
  BY DEF Fenced
<1>2. \A i : Header(i)' <=> Header(i)
  BY <1>1 DEF Header, header_of
<1>3. \A k : Depth(k)' = Depth(k)
  BY DEF Depth, TagsUpTo, TagsOf, Blank
<1>4. \A i, j : Child(i, j)' <=> Child(i, j)
  BY <1>3 DEF Child
<1>5. OneTagALine' <=> OneTagALine
  BY <1>3 DEF OneTagALine, count, TagsOf, Blank
<1>6. /\ \A c : PlainEnd(c)' <=> PlainEnd(c)
      /\ \A c : PlainPiece(c)' <=> PlainPiece(c)
      /\ \A i : Blank(lines[i])' <=> Blank(lines[i])
  BY DEF PlainEnd, PlainPiece, Blank
<1>7. LinesOf(ext)' = LinesOf(ext) /\ \A c : ChunkId(c)' = ChunkId(c)
  BY DEF LinesOf, ChunkId
<1> QED BY <1>1, <1>2, <1>3, <1>4, <1>5, <1>6, <1>7

\* So what a file ends with is as good after the last step as in it.
LEMMA EndsStay ==
  ASSUME NEW u, EndsWell(u), out' = u, UNCHANGED <<ext, lines>>
  PROVE  EndsWell(out)'
BY SameLines DEF EndsWell, Cut, Covers

\* The windows of a file of an unknown format.
LEMMA WindowsGive ==
  ASSUME Typed, done, ext = "csv", NEW n \in Nat, n = Len(lines), WindowsOK(out, n)
  PROVE  DocChunksExact
<1>1. DOMAIN lines = 1..n
  BY LinesHave
<1>2. DOMAIN out = 1..Len(out) /\ Len(out) \in Nat
  <2> DEFINE H == DocChunk
  <2>1. out \in Seq(H)
    BY DEF WindowsOK
  <2> HIDE DEF H
  <2> QED BY <2>1
<1>3. \A i \in DOMAIN out : out[i].start \in Nat /\ out[i].end \in Nat
  <2> DEFINE H == DocChunk
  <2> SUFFICES ASSUME NEW i \in DOMAIN out PROVE out[i].start \in Nat /\ out[i].end \in Nat
    OBVIOUS
  <2>1. out \in Seq(H)
    BY DEF WindowsOK
  <2> HIDE DEF H
  <2>2. out[i] \in H
    BY <2>1
  <2> QED BY <2>2 DEF H, DocChunk
<1>4. /\ \A i \in DOMAIN out : 1 <= out[i].start /\ out[i].start <= out[i].end /\ out[i].end <= n
      /\ \A i, j \in DOMAIN out : i < j => out[i].start < out[j].start /\ out[i].end < out[j].end
      /\ \A l \in 1..n : Covers(out, l) /\ \A i \in DOMAIN out : out[i].name = NoName
  BY DEF WindowsOK
<1>5. \A c \in Range(out) : \E i \in DOMAIN out : c = out[i]
  BY DEF Range
<1>6. \A c \in Range(out) : c.start \in 1..c.end /\ c.end <= n
  BY <1>3, <1>4, <1>5
<1>7. DocTypeOK
  BY <1>6 DEF DocTypeOK, Typed
<1>8. LinesPartitioned /\ HeadersCut /\ ParagraphsCut /\ XmlChildren
  BY DEF LinesPartitioned, HeadersCut, ParagraphsCut, XmlChildren, Markdown, Keyed, Yaml, Plain
<1>9. WindowsCover
  <2>1. ASSUME NEW i \in DOMAIN lines PROVE \E c \in Range(out) : i \in c.start..c.end
    <3>1. PICK k \in DOMAIN out : out[k].start <= i /\ i <= out[k].end
      BY <1>1, <1>4, <2>1 DEF Covers
    <3>2. out[k] \in Range(out)
      BY DEF Range
    <3>3. i \in out[k].start..out[k].end
      BY <1>1, <1>3, <3>1
    <3> QED BY <3>2, <3>3
  <2>2. \A i \in 2..Len(out) : out[i - 1].start < out[i].start /\ out[i - 1].end < out[i].end
    BY <1>2, <1>4
  <2> QED BY <2>1, <2>2 DEF WindowsCover
<1>10. DocIdsUnique
  <2> SUFFICES ASSUME NEW i \in DOMAIN out, NEW j \in DOMAIN out, i # j
               PROVE  ChunkId(out[i]) # ChunkId(out[j])
    BY DEF DocIdsUnique
  <2>1. i < j \/ j < i
    BY <1>2
  <2>2. out[i].start # out[j].start
    BY <1>3, <1>4, <2>1
  <2> QED BY <2>2, IdsDiffer
<1> QED BY <1>7, <1>8, <1>9, <1>10 DEF DocChunksExact

\* The primed forms of what is true of every state.
LEMMA EndGivesNext ==
  /\ (Typed /\ done /\ EndsWell(out) /\ ext # "csv" => DocChunksExact)'
  /\ (\A n \in Nat : Typed /\ done /\ ext = "csv" /\ n = Len(lines) /\ WindowsOK(out, n) => DocChunksExact)'
<1>1. Typed /\ done /\ EndsWell(out) /\ ext # "csv" => DocChunksExact
  BY EndGives
<1>2. \A n \in Nat : Typed /\ done /\ ext = "csv" /\ n = Len(lines) /\ WindowsOK(out, n) => DocChunksExact
  BY WindowsGive
<1> QED BY <1>1, <1>2, PTL

\* The end of the file.
LEMMA EofKeeps ==
  ASSUME Scanning, Eof PROVE DocInv'
<1>1. Typed /\ UNCHANGED <<ext, lines, start, name, fence, depth>> /\ done' = TRUE
  BY CursorTyped DEF Scanning, Eof
<1>2. Typed' /\ done' \in BOOLEAN
  <2> DEFINE U == LinesOf(ext)
  <2>1. U' = U
    BY <1>1 DEF LinesOf
  <2>2. lines \in Seq(U)
    BY <1>1 DEF Typed
  <2>3. lines' \in Seq(U')
    BY <1>1, <2>1, <2>2
  <2> QED BY <1>1, <2>3 DEF Typed
<1>3. CASE ext # "csv"
  <2>1. PICK u : out' = u /\ EndsWell(u)
    BY <1>3, EofEnds
  <2>2. EndsWell(out)'
    BY <1>1, <2>1, EndsStay
  <2>3. DocChunksExact'
    BY <1>1, <1>2, <1>3, <2>2, EndGivesNext
  <2> QED BY <1>1, <2>3 DEF DocInv
<1>4. CASE ext = "csv"
  <2>1. PICK n \in Nat : n = Len(lines)
    BY <1>1, LinesHave
  <2>2. PICK u : u = chunk_text(n, Window, Stride)
    OBVIOUS
  <2>3. WindowsOK(u, n)
    BY <2>2, WindowsAre
  <2>4. out' = u
    BY <1>4, <2>1, <2>2 DEF Eof
  <2>5. WindowsOK(out, n)' /\ n = Len(lines')
    BY <1>1, <2>1, <2>3, <2>4 DEF WindowsOK, Covers
  <2>6. DocChunksExact'
    BY <1>1, <1>2, <1>4, <2>5, EndGivesNext
  <2> QED BY <1>1, <2>6 DEF DocInv
<1> QED BY <1>3, <1>4

\* The next line.
LEMMA ReadKeeps ==
  ASSUME Scanning, ~done, NEW line \in LinesOf(ext), Read(line)
  PROVE  Scanning' /\ ~done'
<1>1. Cursor /\ Reads(line) /\ ext' = ext /\ ~done'
  BY DEF Scanning, Read, Reads
<1>2. \/ ext \in Markdown /\ ReadMarkdown(line)
      \/ ext \in Keyed /\ ReadKeyed(line)
      \/ ext \in Plain /\ ReadPlain(line)
      \/ ext = "xml" /\ ReadXml(line)
      \/ ext \in {"json", "csv"} /\ UNCHANGED scanner
  BY DEF Read, ReadMarkdown, ReadKeyed, ReadPlain, ReadXml
<1>3. CASE ext \in Sections /\ (ReadMarkdown(line) \/ ReadKeyed(line))
  <2>1. SectionInv /\ ext \notin Plain /\ ext # "xml" /\ ext \notin {"json", "csv"}
    BY <1>3 DEF Scanning, Sections, Markdown, Keyed, Yaml, Plain
  <2>2. Cursor' /\ SectionInv'
    BY <1>1, <1>3, <2>1, MarkdownStep, KeyedStep
  <2> QED BY <1>1, <2>1, <2>2 DEF Scanning
<1>4. CASE ext \in Plain /\ ReadPlain(line)
  <2>1. PlainInv /\ ext \notin Sections /\ ext # "xml" /\ ext \notin {"json", "csv"}
    BY <1>4 DEF Scanning, Sections, Markdown, Keyed, Yaml, Plain
  <2>2. Cursor' /\ PlainInv'
    BY <1>1, <1>4, <2>1, PlainStep
  <2> QED BY <1>1, <2>1, <2>2 DEF Scanning
<1>5. CASE ext = "xml" /\ ReadXml(line)
  <2>1. XmlInv /\ ext \notin Sections /\ ext \notin Plain
    BY <1>5 DEF Scanning, Sections, Markdown, Keyed, Yaml, Plain
  <2>2. Cursor' /\ XmlInv'
    BY <1>1, <1>5, <2>1, XmlStep
  <2> QED BY <1>1, <1>5, <2>1, <2>2 DEF Scanning
<1>6. CASE ext \in {"json", "csv"} /\ UNCHANGED scanner
  <2>1. out = <<>> /\ ext \notin Sections /\ ext \notin Plain /\ ext # "xml"
    BY <1>6 DEF Scanning, Sections, Markdown, Keyed, Yaml, Plain
  <2>2. PICK n \in Nat : n = Len(lines)
    BY <1>1, CursorTyped, LinesHave
  <2>3. lines' \in Seq(LinesOf(ext')) /\ Len(lines') = n + 1 /\ n + 1 <= MaxLines
    BY <1>1, <2>2, LinesStay
  <2>4. UNCHANGED <<start, name, fence, depth, out>>
    BY <1>6 DEF scanner
  <2>5. /\ start' \in 0..Len(lines') + 1 /\ Len(lines') <= MaxLines /\ ext' \in Ext
        /\ name' \in Name \cup {NoName} /\ fence' \in BOOLEAN /\ depth' \in Int
    BY <1>1, <2>2, <2>3, <2>4 DEF Cursor
  <2>6. Cut(out, 1, IF start = 0 THEN Len(lines) ELSE start - 1)'
    <3>1. PICK b : b = (IF start' = 0 THEN Len(lines') ELSE start' - 1)
      OBVIOUS
    <3>2. Cut(<<>>, 1, b)
      BY NoCut
    <3>3. out' = <<>>
      BY <2>1, <2>4
    <3> QED BY <3>1, <3>2, <3>3 DEF Cut
  <2>7. Cursor'
    BY <2>3, <2>5, <2>6 DEF Cursor
  <2> QED BY <1>1, <2>1, <2>4, <2>7 DEF Scanning
<1> QED BY <1>1, <1>2, <1>3, <1>4, <1>5, <1>6 DEF Sections

\* No line has been read.
LEMMA DocStarts ==
  ASSUME DocInit PROVE DocInv
<1>1. ext \in Ext /\ lines = <<>> /\ Len(lines) = 0 /\ out = <<>> /\ DOMAIN out = {}
  BY DEF DocInit
<1>2. Cursor
  <2>1. lines \in Seq(LinesOf(ext))
    <3> DEFINE U == LinesOf(ext)
    <3> HIDE DEF U
    <3> QED BY <1>1
  <2>2. Cut(out, 1, IF start = 0 THEN Len(lines) ELSE start - 1)
    BY <1>1, NoCut
  <2>3. start \in {0, 1} /\ name = NoName /\ fence = FALSE /\ depth = 0
    BY DEF DocInit
  <2>4. 0 <= MaxLines
    BY DocAssumption
  <2>5. PICK n : n = Len(lines) /\ n = 0
    BY <1>1
  <2>6. start \in 0..(n + 1) /\ n <= MaxLines /\ depth \in Int
    BY ONLY <2>3, <2>4, <2>5
  <2>7. name \in Name \cup {NoName} /\ fence \in BOOLEAN /\ ext \in Ext
    BY <1>1, <2>3
  <2> QED BY ONLY <2>1, <2>2, <2>5, <2>6, <2>7 DEF Cursor
<1>3. \A i \in 1..Len(lines) : FALSE
  BY <1>1
<1>4. ext \in Sections => SectionInv
  <2> SUFFICES ASSUME ext \in Sections PROVE SectionInv
    OBVIOUS
  <2>1. start = 1 /\ name = NoName /\ fence = FALSE
    BY DEF DocInit, Sections, Markdown, Keyed, Yaml, Plain
  <2>2. Fenced(1) <=> FALSE
    <3>1. {j \in 1..(1 - 1) : lines[j].kind \in {"backticks", "tildes"}} = {}
      OBVIOUS
    <3>2. Cardinality({}) = 0 /\ 0 % 2 = 0
      BY FS_EmptySet
    <3> QED BY <3>1, <3>2 DEF Fenced
  <2>3. Len(lines) + 1 = 1 /\ start \in 1..Len(lines) + 1
    BY <1>1, <2>1
  <2> QED BY <1>1, <1>3, <2>1, <2>2, <2>3 DEF SectionInv
<1>5. ext \in Plain \cup {"xml"} => start = 0
  BY DEF DocInit
<1>6. ext \in Plain => PlainInv
  BY <1>1, <1>3, <1>5 DEF PlainInv
<1>7. ext = "xml" => XmlInv
  <2> SUFFICES ASSUME ext = "xml" PROVE XmlInv
    OBVIOUS
  <2>1. start = 0 /\ depth = 0
    BY <1>5 DEF DocInit
  <2>2. Depth(0) = 0
    <3>1. \A kind : TagsUpTo(0, kind) = {}
      BY DEF TagsUpTo
    <3> QED BY <3>1, FS_EmptySet DEF Depth
  <2> QED BY <1>1, <1>3, <2>1, <2>2 DEF XmlInv
<1> QED BY <1>1, <1>2, <1>4, <1>6, <1>7 DEF Scanning, DocInv, DocInit

\* A stuttering step keeps it all.
LEMMA DocStays ==
  ASSUME DocInv, UNCHANGED dvars PROVE DocInv'
<1>1. UNCHANGED <<ext, lines, start, name, fence, depth, out, done>>
  BY DEF dvars, scanner
<1>2. CASE done
  <2>1. DocChunksExact /\ DOMAIN lines' = DOMAIN lines
    BY <1>1, <1>2 DEF DocInv
  <2>2. DocTypeOK'
    BY <1>1, <2>1 DEF DocChunksExact, DocTypeOK
  <2>3. LinesPartitioned'
    BY <1>1, <2>1, SameLines DEF DocChunksExact, LinesPartitioned
  <2>4. HeadersCut'
    BY <1>1, <2>1, SameLines DEF DocChunksExact, HeadersCut
  <2>5. ParagraphsCut'
    BY <1>1, <2>1, SameLines DEF DocChunksExact, ParagraphsCut
  <2>6. XmlChildren'
    BY <1>1, <2>1, SameLines DEF DocChunksExact, XmlChildren
  <2>7. WindowsCover' /\ DocIdsUnique'
    BY <1>1, <2>1, SameLines DEF DocChunksExact, WindowsCover, DocIdsUnique
  <2> QED BY <1>1, <1>2, <2>2, <2>3, <2>4, <2>5, <2>6, <2>7 DEF DocInv, DocChunksExact
<1>3. CASE ~done
  <2>1. Scanning
    BY <1>3 DEF DocInv
  <2>2. Cursor'
    BY <1>1, <2>1, SameLines DEF Scanning, Cursor, Cut
  <2>3. ext \in Sections => SectionInv'
    BY <1>1, <2>1, SameLines DEF Scanning, SectionInv, Covers
  <2>4. ext \in Plain => PlainInv'
    BY <1>1, <2>1, SameLines DEF Scanning, PlainInv, Covers
  <2>5. ext = "xml" => XmlInv'
    BY <1>1, <2>1, SameLines DEF Scanning, XmlInv
  <2> QED BY <1>1, <1>3, <2>1, <2>2, <2>3, <2>4, <2>5 DEF DocInv, Scanning
<1> QED BY <1>2, <1>3 DEF DocInv

\* A step keeps what the scanner goes by.
LEMMA DocSteps ==
  ASSUME DocInv, [DocNext]_dvars PROVE DocInv'
<1>1. CASE Eof
  BY <1>1, EofKeeps DEF DocInv, Eof
<1>2. ASSUME NEW line \in LinesOf(ext), Read(line) PROVE DocInv'
  <2>1. ~done
    BY <1>2 DEF Read
  <2>2. Scanning' /\ ~done'
    BY <1>2, <2>1, ReadKeeps DEF DocInv
  <2>3. done' \in BOOLEAN
    BY <1>2 DEF DocInv, Read
  <2> QED BY <2>2, <2>3 DEF DocInv
<1> QED BY <1>1, <1>2, DocStays DEF DocNext

\* Nothing of a document is left out of the index or put into it twice: the chunks of a
\* file of any format are its lines, cut at its own headers, paragraphs, children or
\* windows, and each has an id of its own (chunk_markdown to chunk_text).
THEOREM DocsAreExact == DocSpec => []DocChunksExact
<1>1. DocInit => DocInv
  BY DocStarts
<1>2. DocInv /\ [DocNext]_dvars => DocInv'
  BY DocSteps
<1>3. DocInv => DocChunksExact
  BY ScanningGives DEF DocInv
<1> QED BY <1>1, <1>2, <1>3, PTL DEF DocSpec
-----------------------------------------------------------------------------
(* How a source file is cut into chunks.                                   *)

\* What is added to the tree: its parent comes before it, its last byte not before its first.
TreeNode == [kind : {"call"} \cup UNION {Kinds[l] : l \in DOMAIN Languages}, parent : Nat,
             symbol : Symbol, bases : SUBSET Symbol, first : Nat, last : Nat]
TreeInv ==
    /\ extension \in Extension /\ tree \in Seq(TreeNode) /\ Len(tree) <= MaxNodes
    /\ \A n \in DOMAIN tree : /\ tree[n].parent < n
                              /\ tree[n].first \in DOMAIN Source /\ tree[n].last \in DOMAIN Source
                              /\ tree[n].first <= tree[n].last

\* What the walk finds, before long chunks are cut.
FoundChunks == IF walk_for_chunks = <<>> THEN <<generic>> ELSE walk_for_chunks
AstInv ==
    /\ TreeInv /\ chunked \in BOOLEAN
    /\ chunks = IF chunked THEN split_oversized(FoundChunks) ELSE <<>>
-----------------------------------------------------------------------------
(* Finite sets of numbers in their order.                                  *)

Upto(P, n) == {m \in P : m <= n}

AscendingOK(s, P) ==
    /\ Cardinality(P) \in Nat /\ s \in [1..Cardinality(P) -> P]
    /\ \A n \in P : Cardinality(Upto(P, n)) \in DOMAIN s /\ s[Cardinality(Upto(P, n))] = n
    /\ \A k \in DOMAIN s : Cardinality(Upto(P, s[k])) = k
    /\ \A j, k \in DOMAIN s : j < k => s[j] < s[k]

\* Each member stands where it should.
LEMMA AscendingIs ==
  ASSUME NEW P \in SUBSET Nat, IsFiniteSet(P)
  PROVE  AscendingOK(Ascending(P), P)
<1> DEFINE N == Cardinality(P)
           r(n) == Cardinality(Upto(P, n))
           s == Ascending(P)
<1>1. N \in Nat
  BY FS_CardinalityType
<1>2. ASSUME NEW n \in P PROVE IsFiniteSet(Upto(P, n)) /\ r(n) \in 1..N
  <2>1. Upto(P, n) \in SUBSET P /\ n \in Upto(P, n)
    BY DEF Upto
  <2>2. IsFiniteSet(Upto(P, n)) /\ r(n) <= N
    BY <2>1, FS_Subset
  <2>3. r(n) \in Nat /\ r(n) # 0
    BY <2>1, <2>2, FS_CardinalityType, FS_EmptySet
  <2> QED BY <1>1, <2>2, <2>3
<1>3. ASSUME NEW m \in P, NEW n \in P, m < n PROVE r(m) < r(n)
  <2>0. m \in Nat /\ n \in Nat /\ \A k \in P : k \in Nat
    OBVIOUS
  <2>1. Upto(P, m) \in SUBSET Upto(P, n) /\ Upto(P, m) # Upto(P, n)
    <3>1. n \in Upto(P, n) /\ n \notin Upto(P, m)
      BY <1>3, <2>0 DEF Upto
    <3>2. \A k \in P : k <= m => k <= n
      BY <1>3, <2>0
    <3> QED BY <3>1, <3>2 DEF Upto
  <2>2. r(m) <= r(n) /\ r(n) # r(m)
    BY <1>2, <2>1, FS_Subset
  <2>3. r(m) \in Nat /\ r(n) \in Nat
    BY <1>1, <1>2
  <2> HIDE DEF r
  <2> QED BY <2>2, <2>3
<1>4. \A m, n \in P : r(m) = r(n) => m = n
  <2> SUFFICES ASSUME NEW m \in P, NEW n \in P, r(m) = r(n), m # n PROVE FALSE
    OBVIOUS
  <2>1. m < n \/ n < m
    OBVIOUS
  <2>2. r(m) < r(n) \/ r(n) < r(m)
    BY <1>3, <2>1
  <2>3. r(m) \in Nat /\ r(n) \in Nat
    BY <1>1, <1>2
  <2> HIDE DEF r
  <2> QED BY <2>2, <2>3
<1> DEFINE f == [n \in P |-> r(n)]
<1>5. f \in Injection(P, 1..N)
  BY <1>2, <1>4 DEF Injection, IsInjective
<1>6. IsFiniteSet(1..N) /\ Cardinality(1..N) = N
  BY <1>1, FS_Interval
<1>7. f \in Surjection(P, 1..N)
  BY <1>5, <1>6, FS_Injection
<1>8. \A k \in 1..N : \E n \in P : r(n) = k
  BY <1>7 DEF Surjection
<1>9. s = [k \in 1..N |-> CHOOSE n \in P : r(n) = k]
  BY DEF Ascending, Upto
<1> HIDE DEF r, s, N, f
<1>10. \A k \in 1..N : s[k] \in P /\ r(s[k]) = k
  BY <1>8, <1>9
<1>11. s \in [1..N -> P] /\ DOMAIN s = 1..N
  BY <1>9, <1>10
<1>12. \A n \in P : s[r(n)] = n
  BY <1>2, <1>4, <1>10
<1>13. ASSUME NEW j \in 1..N, NEW k \in 1..N, j < k PROVE s[j] < s[k]
  <2>1. s[j] \in P /\ s[k] \in P /\ r(s[j]) = j /\ r(s[k]) = k
    BY <1>10
  <2>0. \A n \in P : n \in Nat
    OBVIOUS
  <2>5. j \in Nat /\ k \in Nat
    BY <1>1
  <2>6. s[j] \in Nat /\ s[k] \in Nat
    BY <2>0, <2>1
  <2>2. s[j] \in Nat /\ s[k] \in Nat /\ j \in Nat /\ k \in Nat
    BY <2>5, <2>6
  <2>3. s[j] # s[k]
    BY <1>13, <2>1, <2>2
  <2>4. s[k] < s[j] => k < j
    BY <1>3, <2>1
  <2> QED BY <1>13, <2>2, <2>3, <2>4
<1> QED BY <1>1, <1>2, <1>10, <1>11, <1>12, <1>13 DEF AscendingOK, r, N, s

\* So many stand before a number as there are smaller ones.
LEMMA AscendingCounts ==
  ASSUME NEW P \in SUBSET Nat, IsFiniteSet(P), NEW s, AscendingOK(s, P), NEW b \in Nat
  PROVE  Cardinality({k \in DOMAIN s : s[k] < b}) = Cardinality({n \in P : n < b})
<1> DEFINE Q == {n \in P : n < b}
           D == {k \in DOMAIN s : s[k] < b}
           f == [k \in D |-> s[k]]
<1>1. \A k \in DOMAIN s : s[k] \in P /\ k \in Nat
  BY DEF AscendingOK
<1>2. f \in [D -> Q]
  BY <1>1
<1>3. ASSUME NEW j \in D, NEW k \in D, f[j] = f[k] PROVE j = k
  <2>1. s[j] = s[k]
    BY <1>3
  <2>2. Cardinality(Upto(P, s[j])) = j /\ Cardinality(Upto(P, s[k])) = k
    BY DEF AscendingOK
  <2> QED BY <2>1, <2>2
<1>4. ASSUME NEW n \in Q PROVE \E k \in D : f[k] = n
  <2>1. Cardinality(Upto(P, n)) \in DOMAIN s /\ s[Cardinality(Upto(P, n))] = n
    BY DEF AscendingOK
  <2> QED BY <2>1
<1>5. IsFiniteSet(Q)
  <2>1. Q \in SUBSET P
    OBVIOUS
  <2> HIDE DEF Q
  <2> QED BY <2>1, FS_Subset
<1>6. f \in Injection(D, Q) /\ f \in Surjection(D, Q)
  <2> HIDE DEF D, Q, f
  <2>1. DOMAIN f = D
    BY <1>2
  <2> QED BY <1>2, <1>3, <1>4, <2>1 DEF Injection, IsInjective, Surjection
<1>7. Cardinality(D) = Cardinality(Q)
  <2> HIDE DEF D, Q, f
  <2> QED BY <1>5, <1>6, FS_Injection
<1> QED BY <1>7
-----------------------------------------------------------------------------
(* Lines and bytes.                                                        *)

LineOf(byte) == 1 + Cardinality({i \in 1..(byte - 1) : Source[i] = "nl"})

\* The binary search finds the line that the line ends before the byte say.
LEMMA LineIs ==
  ASSUME NEW byte \in DOMAIN Source
  PROVE  line_for_byte(byte) = LineOf(byte)
<1> DEFINE N == Len(Source)
           NL == {j \in DOMAIN Source : Source[j] = "nl"}
           P == {1} \cup {i + 1 : i \in NL}
           B == {i \in 1..(byte - 1) : Source[i] = "nl"}
           before == Cardinality({i \in DOMAIN line_offsets : line_offsets[i] < byte})
<1>1. N \in Nat /\ DOMAIN Source = 1..N /\ byte \in 1..N
  <2> DEFINE H == {"x", "nl"}
  <2>1. Source \in Seq(H)
    BY AstAssumption
  <2> HIDE DEF H
  <2> QED BY <2>1
<1>2. P \in SUBSET Nat /\ \A n \in P : n <= N + 1
  BY <1>1
<1>3. IsFiniteSet(P)
  <2> HIDE DEF P, N
  <2>1. N + 1 \in Nat
    BY <1>1
  <2> QED BY <1>2, <2>1, FS_BoundedSetOfNaturals
<1>4. line_offsets = Ascending(P)
  BY DEF line_offsets
<1>5. AscendingOK(line_offsets, P)
  <2> HIDE DEF P
  <2> QED BY <1>2, <1>3, <1>4, AscendingIs
<1>6. before = Cardinality({n \in P : n < byte})
  <2>1. byte \in Nat
    BY <1>1
  <2> HIDE DEF P
  <2> QED BY <1>2, <1>3, <1>5, <2>1, AscendingCounts
<1>7. Range(line_offsets) = P
  <2> HIDE DEF P
  <2> QED BY <1>5 DEF AscendingOK, Range
<1>8. IsFiniteSet(B) /\ Cardinality(B) \in Nat
  <2>1. B \in SUBSET Nat /\ byte \in Nat /\ \A n \in B : n <= byte
    BY <1>1
  <2> HIDE DEF B
  <2>2. IsFiniteSet(B)
    BY <2>1, FS_BoundedSetOfNaturals
  <2> QED BY <2>2, FS_CardinalityType
<1> DEFINE C == {i + 1 : i \in B}
           Q == {n \in P : n <= byte}
<1>9. IsFiniteSet(C) /\ Cardinality(C) = Cardinality(B) /\ 1 \notin C
  <2> DEFINE f == [i \in B |-> i + 1]
  <2>0. \A i \in B : i \in Nat \ {0}
    BY <1>1
  <2>1. 1 \notin C
    BY <2>0
  <2>2. f \in Injection(B, C) /\ f \in Surjection(B, C)
    <3> HIDE DEF B
    <3>1. f \in [B -> C] /\ \A i, j \in B : f[i] = f[j] => i = j
      BY <2>0
    <3>2. \A n \in C : \E i \in B : f[i] = n
      OBVIOUS
    <3>3. DOMAIN f = B
      OBVIOUS
    <3> HIDE DEF f, C
    <3> QED BY <3>1, <3>2, <3>3 DEF Injection, IsInjective, Surjection
  <2> HIDE DEF B, C, f
  <2>3. IsFiniteSet(C)
    BY <1>8, <2>2, FS_Surjection
  <2> QED BY <1>8, <2>1, <2>2, <2>3, FS_Surjection
<1>10. Q = C \cup {1}
  BY <1>1
<1>11. IsFiniteSet(Q) /\ Cardinality(Q) = Cardinality(B) + 1
  <2> HIDE DEF B, C, Q
  <2> QED BY <1>9, <1>10, FS_AddElement
<1>12. CASE byte \in P
  <2>1. {n \in P : n < byte} = Q \ {byte} /\ byte \in Q
    BY <1>1, <1>2, <1>12
  <2>2. Cardinality(Q \ {byte}) = Cardinality(Q) - 1
    <3> HIDE DEF Q
    <3> QED BY <1>11, <2>1, FS_RemoveElement
  <2>3. before = Cardinality(B)
    <3> HIDE DEF B, Q, P, before
    <3> QED BY <1>6, <1>8, <1>11, <2>1, <2>2
  <2>4. line_for_byte(byte) = before + 1
    BY <1>7, <1>12 DEF line_for_byte
  <2>5. LineOf(byte) = 1 + Cardinality(B)
    BY DEF LineOf
  <2> HIDE DEF B, before
  <2> QED BY <1>8, <2>3, <2>4, <2>5
<1>13. CASE byte \notin P
  <2>1. {n \in P : n < byte} = Q
    BY <1>1, <1>2, <1>13
  <2>2. before = Cardinality(B) + 1
    <3> HIDE DEF B, Q, P, before
    <3> QED BY <1>6, <1>11, <2>1
  <2>3. line_for_byte(byte) = Max({before, 1})
    BY <1>7, <1>13 DEF line_for_byte
  <2>4. LineOf(byte) = 1 + Cardinality(B)
    BY DEF LineOf
  <2> HIDE DEF B, before
  <2>5. before \in Nat /\ before >= 1
    BY <1>8, <2>2
  <2>6. Max({before, 1}) = before
    BY <2>5 DEF Max
  <2> QED BY <1>8, <2>2, <2>3, <2>4, <2>6
<1> QED BY <1>12, <1>13

\* Lines come in the order of the bytes, from the first to the last.
LEMMA LinesGrow ==
  ASSUME NEW a \in DOMAIN Source, NEW b \in DOMAIN Source, a <= b
  PROVE  LineOf(a) \in Nat \ {0} /\ LineOf(b) \in Nat /\ LineOf(a) <= LineOf(b) /\ LineOf(b) <= LineCount
         /\ LineCount \in Nat \ {0}
<1> DEFINE N == Len(Source)
           B(n) == {i \in 1..(n - 1) : Source[i] = "nl"}
           L == {i \in DOMAIN Source : Source[i] = "nl"}
<1>1. N \in Nat /\ DOMAIN Source = 1..N /\ a \in 1..N /\ b \in 1..N
  <2> DEFINE H == {"x", "nl"}
  <2>1. Source \in Seq(H)
    BY AstAssumption
  <2> HIDE DEF H
  <2> QED BY <2>1
<1>2. B(a) \in SUBSET B(b) /\ B(b) \in SUBSET L /\ L \in SUBSET (1..N) /\ IsFiniteSet(1..N)
  <2>1. IsFiniteSet(1..N)
    <3> HIDE DEF N
    <3>1. N \in Int /\ 1 \in Int
      BY <1>1
    <3> QED BY <3>1, FS_Interval
  <2>2. L \in SUBSET (1..N)
    BY <1>1
  <2>3. B(b) \in SUBSET L
    <3>1. \A i \in 1..(b - 1) : i \in 1..N
      BY <1>1
    <3> QED BY <1>1, <3>1
  <2>4. B(a) \in SUBSET B(b)
    <3>1. \A i \in 1..(a - 1) : i \in 1..(b - 1)
      BY <1>1
    <3> QED BY <3>1
  <2> QED BY <2>1, <2>2, <2>3, <2>4
<1>3. LineOf(a) = 1 + Cardinality(B(a)) /\ LineOf(b) = 1 + Cardinality(B(b)) /\ LineCount = 1 + Cardinality(L)
  BY DEF LineOf, LineCount
<1> HIDE DEF B, L, N
<1>4. IsFiniteSet(L) /\ IsFiniteSet(B(b)) /\ IsFiniteSet(B(a))
  BY <1>2, FS_Subset
<1>5. Cardinality(B(a)) <= Cardinality(B(b)) /\ Cardinality(B(b)) <= Cardinality(L)
  BY <1>2, <1>4, FS_Subset
<1>6. Cardinality(L) \in Nat /\ Cardinality(B(b)) \in Nat /\ Cardinality(B(a)) \in Nat
  BY <1>4, FS_CardinalityType
<1> QED BY <1>3, <1>5, <1>6
-----------------------------------------------------------------------------
(* The tree.                                                               *)

LineageIs(U, m) == U[0] = {} /\ \A n \in 1..m : U[n] = {n} \cup U[tree[n].parent]

\* A node is below its parent and what that is below.
LEMMA LineageExists ==
  ASSUME TreeInv
  PROVE  /\ DOMAIN Lineage = 0..Len(tree) /\ LineageIs(Lineage, Len(tree)) /\ Len(tree) \in Nat
         /\ DOMAIN tree = 1..Len(tree)
<1> DEFINE N == Len(tree)
           p(n) == tree[n].parent
           Goes(g) == g = [n \in 0..N |-> IF n = 0 THEN {} ELSE {n} \cup g[p(n)]]
           Part(g, m) == g \in [0..m -> SUBSET Nat] /\ g[0] = {} /\ \A n \in 1..m : g[n] = {n} \cup g[p(n)]
           G == {m \in 0..N : ~\E g : Part(g, m)}
<1>1. N \in Nat /\ DOMAIN tree = 1..N
  <2> DEFINE H == TreeNode
  <2>1. tree \in Seq(H)
    BY DEF TreeInv
  <2> HIDE DEF H
  <2> QED BY <2>1
<1>2. \A n \in 1..N : p(n) \in 0..(n - 1)
  <2> SUFFICES ASSUME NEW n \in 1..N PROVE p(n) \in 0..(n - 1)
    OBVIOUS
  <2>1. p(n) < n
    BY <1>1 DEF TreeInv
  <2>2. p(n) \in Nat
    <3> DEFINE H == TreeNode
    <3>1. tree \in Seq(H)
      BY DEF TreeInv
    <3> HIDE DEF H
    <3>2. tree[n] \in H
      BY <1>1, <3>1
    <3> QED BY <3>2 DEF H, TreeNode
  <2>3. n \in Nat
    BY <1>1
  <2> HIDE DEF p, N
  <2> QED BY ONLY <2>1, <2>2, <2>3
<1> HIDE DEF N, p, Goes
<1>3. \E g : Part(g, N)
  <2> SUFFICES ASSUME ~\E g : Part(g, N) PROVE FALSE
    OBVIOUS
  <2>1. N \in G /\ G \in SUBSET Nat
    BY <1>1
  <2>2. PICK m \in G : \A k \in G : m <= k
    <3> HIDE DEF G
    <3> QED BY <2>1, FirstOf
  <2>3. m # 0
    <3> DEFINE g == [n \in 0..0 |-> {}]
    <3>1. Part(g, 0)
      OBVIOUS
    <3> HIDE DEF g, Part
    <3> QED BY <2>2, <3>1
  <2>4. m \in 1..N /\ m - 1 \in 0..N /\ ~(m <= m - 1)
    <3>1. m \in 0..N
      BY <2>2
    <3> QED BY ONLY <1>1, <2>3, <3>1
  <2>5. PICK g : Part(g, m - 1)
    BY <2>2, <2>4
  <2> DEFINE h == [n \in 0..m |-> IF n = m THEN {m} \cup g[p(m)] ELSE g[n]]
  <2>6. p(m) \in 0..(m - 1)
    BY <1>2, <2>4
  <2>7. h \in [0..m -> SUBSET Nat] /\ h[0] = {}
    <3>1. g[p(m)] \in SUBSET Nat /\ m \in Nat
      BY <2>4, <2>5, <2>6
    <3>2. \A n \in 0..m : n # m => g[n] \in SUBSET Nat
      BY <2>4, <2>5
    <3> QED BY <2>3, <2>4, <2>5, <3>1, <3>2
  <2>8. ASSUME NEW n \in 1..m PROVE h[n] = {n} \cup h[p(n)]
    <3>0. n \in 1..N
      BY ONLY <1>1, <2>4, n \in 1..m
    <3>1. p(n) \in 0..(n - 1)
      BY <1>2, <3>0, Zenon
    <3>2. p(n) \in 0..m /\ p(n) # m /\ h[p(n)] = g[p(n)]
      BY <2>4, <3>1
    <3>3. CASE n = m
      BY <3>2, <3>3
    <3>4. CASE n # m
      <4>1. n \in 1..(m - 1) /\ h[n] = g[n]
        BY <2>4, <3>4
      <4>2. g[n] = {n} \cup g[p(n)]
        BY <2>5, <4>1
      <4> QED BY <3>2, <4>1, <4>2
    <3> QED BY <3>3, <3>4
  <2>9. Part(h, m)
    BY <2>7, <2>8
  <2> HIDE DEF h, Part
  <2> QED BY <2>2, <2>9
<1>4. PICK g : Part(g, N)
  BY <1>3
<1>5. Goes(g)
  <2>1. \A n \in 0..N : g[n] = IF n = 0 THEN {} ELSE {n} \cup g[p(n)]
    BY <1>1, <1>4
  <2>2. g = [n \in 0..N |-> g[n]]
    BY <1>4
  <2> QED BY <2>1, <2>2 DEF Goes
<1> DEFINE F == CHOOSE e : Goes(e)
<1>6. Lineage = F
  BY DEF Lineage, Goes, N, p
<1>7. Goes(F)
  BY <1>5
<1> HIDE DEF F
<1>8. DOMAIN F = 0..N /\ \A n \in 0..N : F[n] = IF n = 0 THEN {} ELSE {n} \cup F[p(n)]
  BY <1>7 DEF Goes
<1>9. LineageIs(F, N)
  <2>0. 0 \in 0..N
    BY <1>1
  <2>1. F[0] = {}
    BY <1>8, <2>0
  <2>2. \A n \in 1..N : n \in 0..N /\ n # 0
    BY <1>1
  <2> QED BY <1>8, <2>1, <2>2 DEF LineageIs, p
<1> QED BY <1>1, <1>6, <1>8, <1>9 DEF N

\* What a node is in comes before it, and of two nodes it is in one is in the other.
LEMMA AboveIs ==
  ASSUME TreeInv
  PROVE  /\ \A n \in DOMAIN tree : Above[n] \in SUBSET (1..(n - 1))
         /\ \A n \in DOMAIN tree : \A a \in Above[n] : a \in DOMAIN tree /\ Above[a] \subseteq Above[n]
         /\ \A n \in DOMAIN tree : \A a, b \in Above[n] : a = b \/ a \in Above[b] \/ b \in Above[a]
<1> DEFINE N == Len(tree)
           p(n) == tree[n].parent
           Ok(n) == /\ Lineage[n] \in SUBSET (1..n) /\ (n # 0 => n \in Lineage[n])
                    /\ \A a \in Lineage[n] : Lineage[a] \subseteq Lineage[n]
                    /\ \A a, b \in Lineage[n] : a \in Lineage[b] \/ b \in Lineage[a]
           G == {n \in 0..N : ~Ok(n)}
<1>1. N \in Nat /\ DOMAIN tree = 1..N /\ Lineage[0] = {} /\ \A n \in 1..N : Lineage[n] = {n} \cup Lineage[p(n)]
  BY LineageExists DEF LineageIs
<1>2. \A n \in 1..N : p(n) \in 0..(n - 1)
  <2> SUFFICES ASSUME NEW n \in 1..N PROVE p(n) \in 0..(n - 1)
    OBVIOUS
  <2>1. p(n) < n
    BY <1>1 DEF TreeInv
  <2>2. p(n) \in Nat
    <3> DEFINE H == TreeNode
    <3>1. tree \in Seq(H)
      BY DEF TreeInv
    <3> HIDE DEF H
    <3>2. tree[n] \in H
      BY <1>1, <3>1
    <3> QED BY <3>2 DEF H, TreeNode
  <2>3. n \in Nat
    BY <1>1
  <2> HIDE DEF p, N
  <2> QED BY ONLY <2>1, <2>2, <2>3
<1>3. \A n \in 1..N : Above[n] = Lineage[p(n)]
  BY <1>1 DEF Above
<1> HIDE DEF N, p
<1>4. \A n \in 0..N : Ok(n)
  <2> SUFFICES ASSUME G # {} PROVE FALSE
    OBVIOUS
  <2>1. G \in SUBSET Nat
    BY <1>1
  <2>2. PICK n \in G : \A k \in G : n <= k
    <3> HIDE DEF G
    <3> QED BY <2>1, FirstOf
  <2>3. n # 0
    <3>1. Ok(0)
      BY <1>1
    <3> HIDE DEF Ok
    <3> QED BY <2>2, <3>1
  <2>4. n \in 1..N /\ p(n) \in 0..(n - 1)
    <3>1. n \in 1..N
      <4> HIDE DEF Ok
      <4> QED BY <1>1, <2>2, <2>3
    <3> QED BY <1>2, <3>1
  <2>5. PICK q : q = p(n) /\ q \in 0..N /\ ~(n <= q)
    BY <1>1, <2>4
  <2>6. Ok(q)
    <3>1. q \notin G
      <4> HIDE DEF G
      <4> QED BY <2>2, <2>5
    <3> QED BY <2>5, <3>1
  <2>7. Lineage[n] = {n} \cup Lineage[q] /\ Lineage[q] \in SUBSET (1..q) /\ n \in Lineage[n]
    BY <1>1, <2>4, <2>5, <2>6
  <2>8. Lineage[n] \in SUBSET (1..n)
    <3>1. \A a \in 1..q : a \in 1..n
      BY <1>1, <2>4, <2>5
    <3>2. n \in 1..n
      BY <2>4
    <3> QED BY <2>7, <3>1, <3>2
  <2>9. \A a \in Lineage[n] : Lineage[a] \subseteq Lineage[n]
    BY <2>6, <2>7
  <2>10. \A a, b \in Lineage[n] : a \in Lineage[b] \/ b \in Lineage[a]
    BY <2>6, <2>7
  <2>11. Ok(n)
    BY <2>7, <2>8, <2>9, <2>10
  <2> HIDE DEF Ok
  <2> QED BY <2>2, <2>11
<1>5. ASSUME NEW n \in 1..N
      PROVE  /\ Above[n] \in SUBSET (1..(n - 1))
             /\ \A a \in Above[n] : a \in 1..N /\ Lineage[a] = {a} \cup Above[a] /\ Lineage[a] \subseteq Above[n]
             /\ \A a, b \in Above[n] : a \in Lineage[b] \/ b \in Lineage[a]
  <2>1. PICK q : q = p(n) /\ q \in 0..(n - 1) /\ q \in 0..N
    BY <1>1, <1>2
  <2>2. Above[n] = Lineage[q]
    BY <1>3, <2>1
  <2>3. Ok(q)
    BY <1>4, <2>1
  <2>4. \A a \in 1..q : a \in 1..(n - 1) /\ a \in 1..N
    BY <1>1, <2>1
  <2>5. \A a \in 1..N : Lineage[a] = {a} \cup Above[a]
    BY <1>1, <1>3
  <2> QED BY <2>2, <2>3, <2>4, <2>5
<1> QED BY <1>1, <1>5 DEF N
-----------------------------------------------------------------------------
(* The tables of node kinds.                                               *)

\* What a node of a kind may be.
TypesOf(l, kind) ==
    IF kind \in DOMAIN MethodBelow[l] THEN {"Method", "Function"}
    ELSE IF kind \in DOMAIN Declared[l] THEN {Declared[l][kind]} ELSE {"none"}

\* A node is one of the types that its kind may have.
LEMMA Classified ==
  ASSUME NEW n
  PROVE  classify_node(n) \in TypesOf(lang, tree[n].kind)
BY DEF classify_node, TypesOf

\* The type of a chunk and its kind of node agree: a function is a node whose calls are its
\* own, and the walk stops there; Ruby's methods only have their own calls.
Fine(t, kind, l) ==
    /\ t \notin {"lines", "sub"}
    /\ t \in {"Function", "Method"} =>
          IF l = "ruby" THEN kind \in {"method", "singleton_method"} ELSE is_function_body_node(kind)
    /\ (t # "none" /\ is_function_body_node(kind)) => t \in {"Function", "Method"}
TableOK(l) == \A kind : \A t \in TypesOf(l, kind) : Fine(t, kind, l)

\* The languages that there are.
LEMMA LanguageNames ==
    DOMAIN Languages = {"rust", "python", "javascript", "typescript", "go", "java", "c", "cpp",
                        "ruby", "php", "scala", "csharp", "kotlin", "swift"}
BY DEF Languages

\* What is so of each kind that is in the tables is so of every kind.
LEMMA TableFrom ==
  ASSUME NEW l,
         \A k \in DOMAIN Declared[l] : Fine(Declared[l][k], k, l),
         \A k \in DOMAIN MethodBelow[l] : Fine("Method", k, l) /\ Fine("Function", k, l)
  PROVE  TableOK(l)
<1>1. \A k : Fine("none", k, l)
  BY DEF Fine
<1> SUFFICES ASSUME NEW kind, NEW t \in TypesOf(l, kind) PROVE Fine(t, kind, l)
  BY DEF TableOK
<1>2. CASE kind \in DOMAIN MethodBelow[l]
  BY <1>2 DEF TypesOf
<1>3. CASE kind \notin DOMAIN MethodBelow[l] /\ kind \in DOMAIN Declared[l]
  BY <1>3 DEF TypesOf
<1>4. CASE kind \notin DOMAIN MethodBelow[l] /\ kind \notin DOMAIN Declared[l]
  BY <1>1, <1>4 DEF TypesOf
<1> QED BY <1>2, <1>3, <1>4

\* The tables of Rust.
LEMMA TableRust == TableOK("rust")
<1>1. DOMAIN MethodBelow["rust"] = {"function_item"}
  BY LanguageNames DEF MethodBelow
<1>2. DOMAIN Declared["rust"] = {"impl_item", "struct_item", "trait_item", "enum_item", "mod_item"}
  BY DEF Declared
<1>3. /\ Declared["rust"]["impl_item"] = "Impl"
      /\ Declared["rust"]["struct_item"] = "Class"
      /\ Declared["rust"]["trait_item"] = "Trait"
      /\ Declared["rust"]["enum_item"] = "Enum"
      /\ Declared["rust"]["mod_item"] = "Module"
  BY DEF Declared
<1>4. \A k \in DOMAIN MethodBelow["rust"] : Fine("Method", k, "rust") /\ Fine("Function", k, "rust")
  BY ONLY <1>1 DEF Fine, is_function_body_node
<1>5. /\ Fine("Impl", "impl_item", "rust")
      /\ Fine("Class", "struct_item", "rust")
      /\ Fine("Trait", "trait_item", "rust")
      /\ Fine("Enum", "enum_item", "rust")
      /\ Fine("Module", "mod_item", "rust")
  BY ONLY TRUE DEF Fine, is_function_body_node
<1>6. \A k \in DOMAIN Declared["rust"] : Fine(Declared["rust"][k], k, "rust")
  BY ONLY <1>2, <1>3, <1>5
<1> QED BY ONLY <1>4, <1>6, TableFrom

\* The tables of Python.
LEMMA TablePython == TableOK("python")
<1>1. DOMAIN MethodBelow["python"] = {"function_definition"}
  BY LanguageNames DEF MethodBelow
<1>2. DOMAIN Declared["python"] = {"class_definition"}
  BY DEF Declared
<1>3. /\ Declared["python"]["class_definition"] = "Class"
  BY DEF Declared
<1>4. \A k \in DOMAIN MethodBelow["python"] : Fine("Method", k, "python") /\ Fine("Function", k, "python")
  BY ONLY <1>1 DEF Fine, is_function_body_node
<1>5. /\ Fine("Class", "class_definition", "python")
  BY ONLY TRUE DEF Fine, is_function_body_node
<1>6. \A k \in DOMAIN Declared["python"] : Fine(Declared["python"][k], k, "python")
  BY ONLY <1>2, <1>3, <1>5
<1> QED BY ONLY <1>4, <1>6, TableFrom

\* The tables of JavaScript.
LEMMA TableJavascript == TableOK("javascript")
<1>1. DOMAIN MethodBelow["javascript"] = {}
  BY LanguageNames DEF MethodBelow
<1>2. DOMAIN Declared["javascript"] = {"function_declaration", "class_declaration", "method_definition"}
  BY DEF Declared
<1>3. /\ Declared["javascript"]["function_declaration"] = "Function"
      /\ Declared["javascript"]["class_declaration"] = "Class"
      /\ Declared["javascript"]["method_definition"] = "Method"
  BY DEF Declared
<1>4. \A k \in DOMAIN MethodBelow["javascript"] : Fine("Method", k, "javascript") /\ Fine("Function", k, "javascript")
  BY ONLY <1>1 DEF Fine, is_function_body_node
<1>5. /\ Fine("Function", "function_declaration", "javascript")
      /\ Fine("Class", "class_declaration", "javascript")
      /\ Fine("Method", "method_definition", "javascript")
  BY ONLY TRUE DEF Fine, is_function_body_node
<1>6. \A k \in DOMAIN Declared["javascript"] : Fine(Declared["javascript"][k], k, "javascript")
  BY ONLY <1>2, <1>3, <1>5
<1> QED BY ONLY <1>4, <1>6, TableFrom

\* The tables of TypeScript.
LEMMA TableTypescript == TableOK("typescript")
<1>1. DOMAIN MethodBelow["typescript"] = {}
  BY LanguageNames DEF MethodBelow
<1>2. DOMAIN Declared["typescript"] = {"function_declaration", "class_declaration", "method_definition"}
  BY DEF Declared
<1>3. /\ Declared["typescript"]["function_declaration"] = "Function"
      /\ Declared["typescript"]["class_declaration"] = "Class"
      /\ Declared["typescript"]["method_definition"] = "Method"
  BY DEF Declared
<1>4. \A k \in DOMAIN MethodBelow["typescript"] : Fine("Method", k, "typescript") /\ Fine("Function", k, "typescript")
  BY ONLY <1>1 DEF Fine, is_function_body_node
<1>5. /\ Fine("Function", "function_declaration", "typescript")
      /\ Fine("Class", "class_declaration", "typescript")
      /\ Fine("Method", "method_definition", "typescript")
  BY ONLY TRUE DEF Fine, is_function_body_node
<1>6. \A k \in DOMAIN Declared["typescript"] : Fine(Declared["typescript"][k], k, "typescript")
  BY ONLY <1>2, <1>3, <1>5
<1> QED BY ONLY <1>4, <1>6, TableFrom

\* The tables of Go.
LEMMA TableGo == TableOK("go")
<1>1. DOMAIN MethodBelow["go"] = {}
  BY LanguageNames DEF MethodBelow
<1>2. DOMAIN Declared["go"] = {"function_declaration", "method_declaration", "type_declaration"}
  BY DEF Declared
<1>3. /\ Declared["go"]["function_declaration"] = "Function"
      /\ Declared["go"]["method_declaration"] = "Method"
      /\ Declared["go"]["type_declaration"] = "Class"
  BY DEF Declared
<1>4. \A k \in DOMAIN MethodBelow["go"] : Fine("Method", k, "go") /\ Fine("Function", k, "go")
  BY ONLY <1>1 DEF Fine, is_function_body_node
<1>5. /\ Fine("Function", "function_declaration", "go")
      /\ Fine("Method", "method_declaration", "go")
      /\ Fine("Class", "type_declaration", "go")
  BY ONLY TRUE DEF Fine, is_function_body_node
<1>6. \A k \in DOMAIN Declared["go"] : Fine(Declared["go"][k], k, "go")
  BY ONLY <1>2, <1>3, <1>5
<1> QED BY ONLY <1>4, <1>6, TableFrom

\* The tables of Java.
LEMMA TableJava == TableOK("java")
<1>1. DOMAIN MethodBelow["java"] = {}
  BY LanguageNames DEF MethodBelow
<1>2. DOMAIN Declared["java"] = {"method_declaration", "class_declaration", "interface_declaration"}
  BY DEF Declared
<1>3. /\ Declared["java"]["method_declaration"] = "Method"
      /\ Declared["java"]["class_declaration"] = "Class"
      /\ Declared["java"]["interface_declaration"] = "Trait"
  BY DEF Declared
<1>4. \A k \in DOMAIN MethodBelow["java"] : Fine("Method", k, "java") /\ Fine("Function", k, "java")
  BY ONLY <1>1 DEF Fine, is_function_body_node
<1>5. /\ Fine("Method", "method_declaration", "java")
      /\ Fine("Class", "class_declaration", "java")
      /\ Fine("Trait", "interface_declaration", "java")
  BY ONLY TRUE DEF Fine, is_function_body_node
<1>6. \A k \in DOMAIN Declared["java"] : Fine(Declared["java"][k], k, "java")
  BY ONLY <1>2, <1>3, <1>5
<1> QED BY ONLY <1>4, <1>6, TableFrom

\* The tables of C.
LEMMA TableC == TableOK("c")
<1>1. DOMAIN MethodBelow["c"] = {}
  BY LanguageNames DEF MethodBelow
<1>2. DOMAIN Declared["c"] = {"function_definition", "struct_specifier"}
  BY DEF Declared
<1>3. /\ Declared["c"]["function_definition"] = "Function"
      /\ Declared["c"]["struct_specifier"] = "Class"
  BY DEF Declared
<1>4. \A k \in DOMAIN MethodBelow["c"] : Fine("Method", k, "c") /\ Fine("Function", k, "c")
  BY ONLY <1>1 DEF Fine, is_function_body_node
<1>5. /\ Fine("Function", "function_definition", "c")
      /\ Fine("Class", "struct_specifier", "c")
  BY ONLY TRUE DEF Fine, is_function_body_node
<1>6. \A k \in DOMAIN Declared["c"] : Fine(Declared["c"][k], k, "c")
  BY ONLY <1>2, <1>3, <1>5
<1> QED BY ONLY <1>4, <1>6, TableFrom

\* The tables of C++.
LEMMA TableCpp == TableOK("cpp")
<1>1. DOMAIN MethodBelow["cpp"] = {}
  BY LanguageNames DEF MethodBelow
<1>2. DOMAIN Declared["cpp"] = {"function_definition", "struct_specifier", "class_specifier"}
  BY DEF Declared
<1>3. /\ Declared["cpp"]["function_definition"] = "Function"
      /\ Declared["cpp"]["struct_specifier"] = "Class"
      /\ Declared["cpp"]["class_specifier"] = "Class"
  BY DEF Declared
<1>4. \A k \in DOMAIN MethodBelow["cpp"] : Fine("Method", k, "cpp") /\ Fine("Function", k, "cpp")
  BY ONLY <1>1 DEF Fine, is_function_body_node
<1>5. /\ Fine("Function", "function_definition", "cpp")
      /\ Fine("Class", "struct_specifier", "cpp")
      /\ Fine("Class", "class_specifier", "cpp")
  BY ONLY TRUE DEF Fine, is_function_body_node
<1>6. \A k \in DOMAIN Declared["cpp"] : Fine(Declared["cpp"][k], k, "cpp")
  BY ONLY <1>2, <1>3, <1>5
<1> QED BY ONLY <1>4, <1>6, TableFrom

\* The tables of Ruby.
LEMMA TableRuby == TableOK("ruby")
<1>1. DOMAIN MethodBelow["ruby"] = {}
  BY LanguageNames DEF MethodBelow
<1>2. DOMAIN Declared["ruby"] = {"method", "singleton_method", "module", "class"}
  BY DEF Declared
<1>3. /\ Declared["ruby"]["method"] = "Function"
      /\ Declared["ruby"]["singleton_method"] = "Method"
      /\ Declared["ruby"]["module"] = "Module"
      /\ Declared["ruby"]["class"] = "Class"
  BY DEF Declared
<1>4. \A k \in DOMAIN MethodBelow["ruby"] : Fine("Method", k, "ruby") /\ Fine("Function", k, "ruby")
  BY ONLY <1>1 DEF Fine, is_function_body_node
<1>5. /\ Fine("Function", "method", "ruby")
      /\ Fine("Method", "singleton_method", "ruby")
      /\ Fine("Module", "module", "ruby")
      /\ Fine("Class", "class", "ruby")
  BY ONLY TRUE DEF Fine, is_function_body_node
<1>6. \A k \in DOMAIN Declared["ruby"] : Fine(Declared["ruby"][k], k, "ruby")
  BY ONLY <1>2, <1>3, <1>5
<1> QED BY ONLY <1>4, <1>6, TableFrom

\* The tables of PHP.
LEMMA TablePhp == TableOK("php")
<1>1. DOMAIN MethodBelow["php"] = {}
  BY LanguageNames DEF MethodBelow
<1>2. DOMAIN Declared["php"] = {"function_definition", "method_declaration", "class_declaration", "interface_declaration", "trait_declaration", "namespace_definition"}
  BY DEF Declared
<1>3. /\ Declared["php"]["function_definition"] = "Function"
      /\ Declared["php"]["method_declaration"] = "Method"
      /\ Declared["php"]["class_declaration"] = "Class"
      /\ Declared["php"]["interface_declaration"] = "Trait"
      /\ Declared["php"]["trait_declaration"] = "Trait"
      /\ Declared["php"]["namespace_definition"] = "Module"
  BY DEF Declared
<1>4. \A k \in DOMAIN MethodBelow["php"] : Fine("Method", k, "php") /\ Fine("Function", k, "php")
  BY ONLY <1>1 DEF Fine, is_function_body_node
<1>5. /\ Fine("Function", "function_definition", "php")
      /\ Fine("Method", "method_declaration", "php")
      /\ Fine("Class", "class_declaration", "php")
      /\ Fine("Trait", "interface_declaration", "php")
      /\ Fine("Trait", "trait_declaration", "php")
      /\ Fine("Module", "namespace_definition", "php")
  BY ONLY TRUE DEF Fine, is_function_body_node
<1>6. \A k \in DOMAIN Declared["php"] : Fine(Declared["php"][k], k, "php")
  BY ONLY <1>2, <1>3, <1>5
<1> QED BY ONLY <1>4, <1>6, TableFrom

\* The tables of Scala.
LEMMA TableScala == TableOK("scala")
<1>1. DOMAIN MethodBelow["scala"] = {"function_definition"}
  BY LanguageNames DEF MethodBelow
<1>2. DOMAIN Declared["scala"] = {"class_definition", "object_definition", "trait_definition"}
  BY DEF Declared
<1>3. /\ Declared["scala"]["class_definition"] = "Class"
      /\ Declared["scala"]["object_definition"] = "Class"
      /\ Declared["scala"]["trait_definition"] = "Trait"
  BY DEF Declared
<1>4. \A k \in DOMAIN MethodBelow["scala"] : Fine("Method", k, "scala") /\ Fine("Function", k, "scala")
  BY ONLY <1>1 DEF Fine, is_function_body_node
<1>5. /\ Fine("Class", "class_definition", "scala")
      /\ Fine("Class", "object_definition", "scala")
      /\ Fine("Trait", "trait_definition", "scala")
  BY ONLY TRUE DEF Fine, is_function_body_node
<1>6. \A k \in DOMAIN Declared["scala"] : Fine(Declared["scala"][k], k, "scala")
  BY ONLY <1>2, <1>3, <1>5
<1> QED BY ONLY <1>4, <1>6, TableFrom

\* The tables of C#.
LEMMA TableCsharp == TableOK("csharp")
<1>1. DOMAIN MethodBelow["csharp"] = {"method_declaration"}
  BY LanguageNames DEF MethodBelow
<1>2. DOMAIN Declared["csharp"] = {"constructor_declaration", "class_declaration", "interface_declaration", "struct_declaration", "namespace_declaration", "enum_declaration"}
  BY DEF Declared
<1>3. /\ Declared["csharp"]["constructor_declaration"] = "Method"
      /\ Declared["csharp"]["class_declaration"] = "Class"
      /\ Declared["csharp"]["interface_declaration"] = "Trait"
      /\ Declared["csharp"]["struct_declaration"] = "Class"
      /\ Declared["csharp"]["namespace_declaration"] = "Module"
      /\ Declared["csharp"]["enum_declaration"] = "Enum"
  BY DEF Declared
<1>4. \A k \in DOMAIN MethodBelow["csharp"] : Fine("Method", k, "csharp") /\ Fine("Function", k, "csharp")
  BY ONLY <1>1 DEF Fine, is_function_body_node
<1>5. /\ Fine("Method", "constructor_declaration", "csharp")
      /\ Fine("Class", "class_declaration", "csharp")
      /\ Fine("Trait", "interface_declaration", "csharp")
      /\ Fine("Class", "struct_declaration", "csharp")
      /\ Fine("Module", "namespace_declaration", "csharp")
      /\ Fine("Enum", "enum_declaration", "csharp")
  BY ONLY TRUE DEF Fine, is_function_body_node
<1>6. \A k \in DOMAIN Declared["csharp"] : Fine(Declared["csharp"][k], k, "csharp")
  BY ONLY <1>2, <1>3, <1>5
<1> QED BY ONLY <1>4, <1>6, TableFrom

\* The tables of Kotlin.
LEMMA TableKotlin == TableOK("kotlin")
<1>1. DOMAIN MethodBelow["kotlin"] = {"function_declaration"}
  BY LanguageNames DEF MethodBelow
<1>2. DOMAIN Declared["kotlin"] = {"secondary_constructor", "class_declaration", "object_declaration", "companion_object", "interface_declaration"}
  BY DEF Declared
<1>3. /\ Declared["kotlin"]["secondary_constructor"] = "Method"
      /\ Declared["kotlin"]["class_declaration"] = "Class"
      /\ Declared["kotlin"]["object_declaration"] = "Class"
      /\ Declared["kotlin"]["companion_object"] = "Class"
      /\ Declared["kotlin"]["interface_declaration"] = "Trait"
  BY DEF Declared
<1>4. \A k \in DOMAIN MethodBelow["kotlin"] : Fine("Method", k, "kotlin") /\ Fine("Function", k, "kotlin")
  BY ONLY <1>1 DEF Fine, is_function_body_node
<1>5. /\ Fine("Method", "secondary_constructor", "kotlin")
      /\ Fine("Class", "class_declaration", "kotlin")
      /\ Fine("Class", "object_declaration", "kotlin")
      /\ Fine("Class", "companion_object", "kotlin")
      /\ Fine("Trait", "interface_declaration", "kotlin")
  BY ONLY TRUE DEF Fine, is_function_body_node
<1>6. \A k \in DOMAIN Declared["kotlin"] : Fine(Declared["kotlin"][k], k, "kotlin")
  BY ONLY <1>2, <1>3, <1>5
<1> QED BY ONLY <1>4, <1>6, TableFrom

\* The tables of Swift.
LEMMA TableSwift == TableOK("swift")
<1>1. DOMAIN MethodBelow["swift"] = {"function_declaration", "protocol_function_declaration"}
  BY LanguageNames DEF MethodBelow
<1>2. DOMAIN Declared["swift"] = {"class_declaration", "struct_declaration", "enum_declaration", "extension_declaration", "protocol_declaration", "init_declaration"}
  BY DEF Declared
<1>3. /\ Declared["swift"]["class_declaration"] = "Class"
      /\ Declared["swift"]["struct_declaration"] = "Struct"
      /\ Declared["swift"]["enum_declaration"] = "Enum"
      /\ Declared["swift"]["extension_declaration"] = "Module"
      /\ Declared["swift"]["protocol_declaration"] = "Trait"
      /\ Declared["swift"]["init_declaration"] = "Method"
  BY DEF Declared
<1>4. \A k \in DOMAIN MethodBelow["swift"] : Fine("Method", k, "swift") /\ Fine("Function", k, "swift")
  BY ONLY <1>1 DEF Fine, is_function_body_node
<1>5. /\ Fine("Class", "class_declaration", "swift")
      /\ Fine("Struct", "struct_declaration", "swift")
      /\ Fine("Enum", "enum_declaration", "swift")
      /\ Fine("Module", "extension_declaration", "swift")
      /\ Fine("Trait", "protocol_declaration", "swift")
      /\ Fine("Method", "init_declaration", "swift")
  BY ONLY TRUE DEF Fine, is_function_body_node
<1>6. \A k \in DOMAIN Declared["swift"] : Fine(Declared["swift"][k], k, "swift")
  BY ONLY <1>2, <1>3, <1>5
<1> QED BY ONLY <1>4, <1>6, TableFrom

\* The tables agree in every language.
LEMMA Tables ==
  ASSUME NEW l \in DOMAIN Languages
  PROVE  TableOK(l)
BY LanguageNames, TableRust, TablePython, TableJavascript, TableTypescript, TableGo, TableJava, TableC, TableCpp, TableRuby, TablePhp, TableScala, TableCsharp, TableKotlin, TableSwift
-----------------------------------------------------------------------------
(* How a long chunk is cut.                                                *)

\* A chunk has the fields of one.
Fields(c) ==
    c = [id |-> c.id, node |-> c.node, type |-> c.type, name |-> c.name, start |-> c.start,
         end |-> c.end, calls |-> c.calls, inherits |-> c.inherits, depth |-> c.depth,
         parent |-> c.parent, children |-> c.children]

\* A chunk as it is found, before it is cut.
FoundOK(c) ==
    /\ Fields(c) /\ c.parent = <<>> /\ c.children = <<>> /\ c.id # <<>>
    /\ c.start \in Nat \ {0} /\ c.end \in Nat /\ c.start <= c.end

\* What is in a chunk once it is cut.
WholeOf(d, c) ==
    /\ d.id = c.id /\ d.node = c.node /\ d.type = c.type /\ d.start = c.start /\ d.end = c.end
    /\ d.calls = c.calls /\ d.inherits = c.inherits /\ d.parent = <<>>
PieceOf(p, c, i) ==
    /\ p.id = <<"sub", c.id, i>> /\ p.parent = c.id /\ p.node = c.node
    /\ p.calls = {} /\ p.inherits = {}
    /\ p.start \in Nat /\ p.end \in Nat /\ c.start <= p.start /\ p.start <= p.end /\ p.end <= c.end
    /\ Lines(p) <= SUB_CHUNK_WINDOW

\* The pieces and then the chunk, which names them.
SplitOK(c, s, m) ==
    /\ m \in Nat /\ DOMAIN s = 1..(m + 1) /\ Len(s) = m + 1 /\ s = [i \in 1..(m + 1) |-> s[i]]
    /\ WholeOf(s[m + 1], c) /\ s[m + 1].children = [i \in 1..m |-> <<"sub", c.id, i>>]
    /\ Lines(c) > MAX_CHUNK_LINES <=> m # 0
    /\ \A i \in 1..m : PieceOf(s[i], c, i)
    /\ m # 0 => \A l \in c.start..c.end : \E i \in 1..m : s[i].start <= l /\ l <= s[i].end

\* Where a window begins.
From(i) == (i - 1) * SUB_CHUNK_STRIDE

\* The windows begin one stride after the other.
LEMMA Froms ==
  /\ SUB_CHUNK_WINDOW \in Nat \ {0} /\ SUB_CHUNK_STRIDE \in Nat \ {0}
  /\ SUB_CHUNK_STRIDE <= SUB_CHUNK_WINDOW /\ MAX_CHUNK_LINES \in Nat \ {0}
  /\ From(1) = 0
  /\ \A i \in Nat \ {0} : From(i) \in Nat /\ From(i + 1) = From(i) + SUB_CHUNK_STRIDE /\ i <= From(i) + 1
<1>1. /\ SUB_CHUNK_WINDOW \in Nat \ {0} /\ SUB_CHUNK_STRIDE \in Nat \ {0}
      /\ SUB_CHUNK_STRIDE <= SUB_CHUNK_WINDOW /\ MAX_CHUNK_LINES \in Nat \ {0}
  BY AstAssumption
<1>2. \A a \in Nat : a * SUB_CHUNK_STRIDE \in Nat /\ (a + 1) * SUB_CHUNK_STRIDE = a * SUB_CHUNK_STRIDE + SUB_CHUNK_STRIDE
                     /\ a <= a * SUB_CHUNK_STRIDE
  BY <1>1, Multiples
<1>3. ASSUME NEW i \in Nat \ {0}
      PROVE  From(i) \in Nat /\ From(i + 1) = From(i) + SUB_CHUNK_STRIDE /\ i <= From(i) + 1
  <2>1. i - 1 \in Nat /\ (i - 1) + 1 = (i + 1) - 1
    OBVIOUS
  <2> QED BY <1>1, <1>2, <2>1 DEF From
<1>4. From(1) = 0
  BY <1>1 DEF From
<1> QED BY <1>1, <1>3, <1>4

\* The last window is the first that reaches the end.
LEMMA WindowsEnd ==
  ASSUME NEW n \in Nat \ {0}
  PROVE  /\ Windows(n) \in 1..n /\ From(Windows(n)) + SUB_CHUNK_WINDOW >= n
         /\ \A j \in 1..(Windows(n) - 1) : From(j) + SUB_CHUNK_WINDOW < n
<1> DEFINE Short(i) == From(i) + SUB_CHUNK_WINDOW >= n
           Stops(i) == Short(i) /\ \A j \in 1..(i - 1) : From(j) + SUB_CHUNK_WINDOW < n
           S == {i \in 1..n : Short(i)}
<1>1. n \in S
  BY Froms
<1>2. PICK m \in S : \A y \in S : m <= y
  <2>1. S \in SUBSET Nat /\ S # {}
    BY <1>1
  <2> QED BY <2>1, FirstOf
<1>3. Stops(m)
  <2>1. m \in 1..n /\ Short(m)
    BY <1>2
  <2>2. ASSUME NEW j \in 1..(m - 1) PROVE From(j) + SUB_CHUNK_WINDOW < n
    <3>1. j \in 1..n /\ ~(m <= j) /\ j \in Nat \ {0}
      BY <2>1
    <3>2. j \notin S
      <4> HIDE DEF S
      <4> QED BY <1>2, <3>1
    <3>3. From(j) \in Nat
      BY <3>1, Froms
    <3>4. ~(From(j) + SUB_CHUNK_WINDOW >= n)
      BY <3>1, <3>2
    <3> QED BY <3>3, <3>4, Froms
  <2> QED BY <2>1, <2>2
<1> DEFINE K == CHOOSE i \in 1..n : Stops(i)
<1>4. K \in 1..n /\ Stops(K)
  <2>1. m \in 1..n
    BY <1>2
  <2> HIDE DEF Stops
  <2> QED BY <1>3, <2>1
<1>5. Windows(n) = K
  BY DEF Windows, From
<1> QED BY <1>4, <1>5

\* A piece is within the chunk and no longer than a piece may be.
LEMMA PieceIs ==
  ASSUME NEW c, FoundOK(c), NEW i \in 1..Windows(Lines(c))
  PROVE  /\ PieceOf(SubChunk(c, i), c, i) /\ SubChunk(c, i).start = c.start + From(i)
         /\ SubChunk(c, i).end = IF i = Windows(Lines(c)) THEN c.end ELSE c.start + From(i) + SUB_CHUNK_WINDOW - 1
<1> DEFINE n == Lines(c)
           K == Windows(n)
           p == SubChunk(c, i)
<1>1. n \in Nat \ {0} /\ n = c.end - c.start + 1
  BY DEF FoundOK, Lines
<1> HIDE DEF n
<1>2. /\ K \in 1..n /\ From(K) + SUB_CHUNK_WINDOW >= n
      /\ \A j \in 1..(K - 1) : From(j) + SUB_CHUNK_WINDOW < n
  BY <1>1, WindowsEnd
<1>3. i \in 1..K
  BY DEF n
<1> HIDE DEF K
<1>4. i \in Nat \ {0} /\ From(i) \in Nat /\ K \in Nat
  <2>1. i \in Nat \ {0} /\ K \in Nat
    BY <1>1, <1>2, <1>3
  <2> QED BY <2>1, Froms
<1>5. i # K => From(i) + SUB_CHUNK_WINDOW < n
  <2>1. i # K => i \in 1..(K - 1)
    BY <1>3, <1>4
  <2> QED BY <1>2, <2>1
<1>6. From(i) < n
  <2>1. CASE i = 1
    BY <1>1, <2>1, Froms
  <2>2. CASE i # 1
    <3>1. i - 1 \in 1..(K - 1) /\ i - 1 \in Nat \ {0} /\ (i - 1) + 1 = i
      BY <1>3, <1>4, <2>2
    <3>2. From(i - 1) + SUB_CHUNK_WINDOW < n
      BY <1>2, <3>1
    <3>3. From(i) = From(i - 1) + SUB_CHUNK_STRIDE /\ From(i - 1) \in Nat
      BY <3>1, Froms
    <3> QED BY <1>1, <3>2, <3>3, Froms
  <2> QED BY <2>1, <2>2
<1>7. Min({From(i) + SUB_CHUNK_WINDOW, n}) = IF i = K THEN n ELSE From(i) + SUB_CHUNK_WINDOW
  <2>1. From(i) + SUB_CHUNK_WINDOW \in Int /\ n \in Int
    BY <1>1, <1>4, Froms
  <2>2. Min({From(i) + SUB_CHUNK_WINDOW, n}) = IF From(i) + SUB_CHUNK_WINDOW <= n THEN From(i) + SUB_CHUNK_WINDOW ELSE n
    BY <2>1, LesserOf
  <2> QED BY <1>2, <1>5, <2>1, <2>2
<1> DEFINE e == Min({From(i) + SUB_CHUNK_WINDOW, n})
<1>8. p = [c EXCEPT !.id = <<"sub", c.id, i>>, !.start = c.start + From(i),
                    !.end = c.start + e - 1, !.calls = {}, !.inherits = {}, !.parent = c.id]
  BY DEF SubChunk, From, n
<1> HIDE DEF e, p
<1>9. /\ p.id = <<"sub", c.id, i>> /\ p.parent = c.id /\ p.node = c.node
      /\ p.calls = {} /\ p.inherits = {} /\ p.start = c.start + From(i) /\ p.end = c.start + e - 1
  <2>1. Fields(c)
    BY DEF FoundOK
  <2> QED BY ONLY <1>8, <2>1 DEF Fields
<1>10. c.start \in Nat \ {0} /\ c.end \in Nat /\ c.start <= c.end
  BY DEF FoundOK
<1>11. SUB_CHUNK_WINDOW \in Nat \ {0}
  BY Froms
<1>12. e = IF i = K THEN n ELSE From(i) + SUB_CHUNK_WINDOW
  BY <1>7 DEF e
<1>13. p.end = IF i = K THEN c.end ELSE c.start + From(i) + SUB_CHUNK_WINDOW - 1
  BY ONLY <1>1, <1>4, <1>9, <1>10, <1>11, <1>12
<1>14. /\ p.start \in Nat /\ p.end \in Nat /\ c.start <= p.start /\ p.start <= p.end /\ p.end <= c.end
       /\ p.end - p.start + 1 <= SUB_CHUNK_WINDOW
  BY ONLY <1>1, <1>2, <1>4, <1>5, <1>6, <1>9, <1>10, <1>11, <1>12
<1>15. PieceOf(p, c, i)
  BY ONLY <1>9, <1>14 DEF PieceOf, Lines
<1> QED BY <1>9, <1>13, <1>15 DEF p, K, n

\* What a chunk is cut into.
LEMMA SplitIs ==
  ASSUME NEW c, FoundOK(c)
  PROVE  \E m \in Nat : SplitOK(c, SplitChunk(c), m)
<1> DEFINE n == Lines(c)
           s == SplitChunk(c)
<1>1. n \in Nat \ {0} /\ n = c.end - c.start + 1 /\ MAX_CHUNK_LINES \in Nat
  <2>1. n \in Nat \ {0} /\ n = c.end - c.start + 1
    BY DEF FoundOK, Lines
  <2> QED BY <2>1, Froms
<1>2. Fields(c) /\ c.parent = <<>> /\ c.children = <<>>
  BY DEF FoundOK
<1>3. CASE n <= MAX_CHUNK_LINES
  <2>1. s = <<c>>
    BY <1>3 DEF SplitChunk
  <2>2. DOMAIN s = 1..(0 + 1) /\ Len(s) = 0 + 1 /\ s = [i \in 1..(0 + 1) |-> s[i]] /\ s[0 + 1] = c
    BY <2>1
  <2>3. WholeOf(c, c) /\ c.children = [i \in 1..0 |-> <<"sub", c.id, i>>]
    BY <1>2 DEF WholeOf
  <2>4. ~(Lines(c) > MAX_CHUNK_LINES)
    BY <1>1, <1>3
  <2> HIDE DEF s
  <2>5. SplitOK(c, s, 0)
    BY ONLY <2>2, <2>3, <2>4 DEF SplitOK
  <2> QED BY <2>5 DEF s
<1>4. CASE ~(n <= MAX_CHUNK_LINES)
  <2> DEFINE K == Windows(n)
             pieces == [i \in 1..K |-> SubChunk(c, i)]
             d == [c EXCEPT !.children = [i \in DOMAIN pieces |-> pieces[i].id]]
  <2>1. s = Append(pieces, d)
    BY <1>4 DEF SplitChunk
  <2>2. /\ K \in 1..n /\ From(K) + SUB_CHUNK_WINDOW >= n
        /\ \A j \in 1..(K - 1) : From(j) + SUB_CHUNK_WINDOW < n
    BY <1>1, WindowsEnd
  <2>3. \A i \in 1..K : /\ PieceOf(SubChunk(c, i), c, i) /\ SubChunk(c, i).start = c.start + From(i)
                        /\ SubChunk(c, i).end = IF i = K THEN c.end ELSE c.start + From(i) + SUB_CHUNK_WINDOW - 1
    BY PieceIs
  <2> HIDE DEF n, K
  <2>4. K \in Nat \ {0}
    BY <1>1, <2>2
  <2>5. /\ DOMAIN s = 1..(K + 1) /\ Len(s) = K + 1 /\ s = [i \in 1..(K + 1) |-> s[i]] /\ s[K + 1] = d
        /\ \A i \in 1..K : s[i] = SubChunk(c, i)
    <3> DEFINE V == {SubChunk(c, i) : i \in 1..K} \cup {d}
    <3>1. pieces \in Seq(V) /\ Len(pieces) = K
      BY <2>4
    <3>2. \A i \in 1..K : pieces[i] = SubChunk(c, i)
      OBVIOUS
    <3>3. d \in V
      OBVIOUS
    <3> HIDE DEF pieces, d, V, s
    <3>4. s \in Seq(V) /\ Len(s) = K + 1 /\ s[K + 1] = d
      BY ONLY <2>1, <2>4, <3>1, <3>3
    <3>5. \A i \in 1..K : s[i] = pieces[i]
      BY ONLY <2>1, <2>4, <3>1, <3>3
    <3>6. DOMAIN s = 1..(K + 1) /\ s = [i \in 1..(K + 1) |-> s[i]]
      BY ONLY <3>4
    <3>7. \A i \in 1..K : s[i] = SubChunk(c, i)
      BY ONLY <3>2, <3>5
    <3> QED BY ONLY <3>4, <3>6, <3>7
  <2>6. WholeOf(d, c) /\ d.children = [i \in 1..K |-> <<"sub", c.id, i>>]
    <3>1. DOMAIN pieces = 1..K /\ \A i \in 1..K : pieces[i].id = <<"sub", c.id, i>>
      BY <2>3 DEF PieceOf
    <3> DEFINE h == [i \in DOMAIN pieces |-> pieces[i].id]
    <3>2. h = [i \in 1..K |-> <<"sub", c.id, i>>]
      BY <3>1
    <3>3. d = [c EXCEPT !.children = h]
      OBVIOUS
    <3> HIDE DEF h, d, pieces
    <3>4. WholeOf(d, c) /\ d.children = h
      BY ONLY <1>2, <3>3 DEF Fields, WholeOf
    <3> QED BY <3>2, <3>4
  <2>7. Lines(c) > MAX_CHUNK_LINES
    BY <1>1, <1>4 DEF n
  <2>8. \A i \in 1..K : PieceOf(s[i], c, i)
    BY <2>3, <2>5
  <2>9. c.start \in Nat \ {0} /\ c.end \in Nat /\ c.start <= c.end
    BY DEF FoundOK
  <2>10. ASSUME NEW l \in c.start..c.end
         PROVE  \E i \in 1..K : s[i].start <= l /\ l <= s[i].end
    <3> DEFINE G == {i \in 1..K : l <= SubChunk(c, i).end}
    <3>1. K \in G
      <4>1. SubChunk(c, K).end = c.end /\ K \in 1..K
        BY <2>3, <2>4
      <4> QED BY <2>9, <4>1
    <3>2. PICK i \in G : \A j \in G : i <= j
      <4>1. G \in SUBSET Nat /\ G # {}
        BY <2>4, <3>1
      <4> HIDE DEF G
      <4> QED BY <4>1, FirstOf
    <3>3. i \in 1..K /\ l <= SubChunk(c, i).end
      BY <3>2
    <3>4. i \in Nat \ {0}
      BY <2>4, <3>3
    <3>5. SubChunk(c, i).start <= l
      <4>1. CASE i = 1
        <5>1. SubChunk(c, i).start = c.start + 0
          BY <2>3, <3>3, <4>1, Froms
        <5> QED BY <2>9, <5>1
      <4>2. CASE i # 1
        <5>1. i - 1 \in 1..K /\ i - 1 # K /\ i - 1 \in Nat \ {0} /\ (i - 1) + 1 = i /\ ~(i <= i - 1)
          BY <2>4, <3>3, <3>4, <4>2
        <5>2. i - 1 \notin G
          <6> HIDE DEF G
          <6> QED BY <3>2, <5>1
        <5>3. ~(l <= SubChunk(c, i - 1).end)
          BY <5>1, <5>2
        <5>4. SubChunk(c, i - 1).end = c.start + From(i - 1) + SUB_CHUNK_WINDOW - 1
          BY <2>3, <5>1
        <5>5. From(i) = From(i - 1) + SUB_CHUNK_STRIDE /\ From(i - 1) \in Nat
          BY <5>1, Froms
        <5>6. SubChunk(c, i).start = c.start + From(i)
          BY <2>3, <3>3
        <5>7. SUB_CHUNK_STRIDE <= SUB_CHUNK_WINDOW /\ SUB_CHUNK_STRIDE \in Nat /\ SUB_CHUNK_WINDOW \in Nat /\ l \in Nat
          BY <2>9, Froms
        <5> QED BY ONLY <2>9, <5>3, <5>4, <5>5, <5>6, <5>7
      <4> QED BY <4>1, <4>2
    <3>6. s[i] = SubChunk(c, i)
      BY <2>5, <3>3
    <3> QED BY <3>3, <3>5, <3>6
  <2> HIDE DEF s, d, pieces
  <2>11. SplitOK(c, s, K)
    <3>1. WholeOf(s[K + 1], c) /\ s[K + 1].children = [i \in 1..K |-> <<"sub", c.id, i>>]
      BY <2>5, <2>6
    <3>2. K \in Nat /\ K # 0
      BY <2>4
    <3> QED BY <2>5, <2>7, <2>8, <2>10, <3>1, <3>2 DEF SplitOK
  <2> QED BY <2>4, <2>11 DEF s
<1> QED BY <1>3, <1>4
-----------------------------------------------------------------------------
(* Sequences one after the other.                                          *)

\* What the flattening has put together as it goes on.
LEMMA FlattenGoes ==
  ASSUME NEW T, NEW ss \in Seq(Seq(T)), Len(ss) > 0
  PROVE  \E F : /\ FlattenSeq(ss) = F[Len(ss)] /\ F[1] = ss[1]
                /\ \A k \in 1..Len(ss) : F[k] \in Seq(T)
                /\ \A k \in 2..Len(ss) : F[k] = F[k - 1] \o ss[k]
<1> DEFINE N == Len(ss)
           Goes(g) == g = [i \in 1..N |-> IF i = 1 THEN ss[i] ELSE g[i - 1] \o ss[i]]
           Part(g, m) == /\ g \in [1..m -> Seq(T)] /\ g[1] = ss[1]
                         /\ \A k \in 2..m : g[k] = g[k - 1] \o ss[k]
           G == {m \in 1..N : ~\E g : Part(g, m)}
<1>1. N \in Nat \ {0} /\ \A k \in 1..N : ss[k] \in Seq(T)
  OBVIOUS
<1> HIDE DEF N, Goes
<1>2. \E g : Part(g, N)
  <2> SUFFICES ASSUME ~\E g : Part(g, N) PROVE FALSE
    OBVIOUS
  <2>1. N \in G /\ G \in SUBSET Nat
    <3>1. N \in 1..N /\ (1..N) \in SUBSET Nat
      BY <1>1
    <3> HIDE DEF Part
    <3> QED BY <3>1
  <2>2. PICK m \in G : \A k \in G : m <= k
    <3> HIDE DEF G
    <3> QED BY <2>1, FirstOf
  <2>3. m # 1
    <3> DEFINE g == [k \in 1..1 |-> ss[1]]
    <3>1. Part(g, 1)
      <4>1. ss[1] \in Seq(T)
        BY <1>1
      <4>2. 2..1 = {} /\ 1 \in 1..1
        OBVIOUS
      <4> QED BY <4>1, <4>2
    <3> HIDE DEF g, Part
    <3> QED BY <2>2, <3>1
  <2>4. m \in 1..N /\ m - 1 \in 1..N /\ ~(m <= m - 1)
    <3>1. m \in 1..N
      BY <2>2
    <3> QED BY ONLY <1>1, <2>3, <3>1
  <2>5. PICK g : Part(g, m - 1)
    <3>1. m - 1 \notin G
      <4> HIDE DEF G
      <4> QED BY <2>2, <2>4
    <3> HIDE DEF Part
    <3> QED BY <2>4, <3>1
  <2> DEFINE h == [k \in 1..m |-> IF k = m THEN g[m - 1] \o ss[m] ELSE g[k]]
  <2>6. \A k \in 1..m : k # m => k \in 1..(m - 1)
    BY <2>4
  <2>7. h \in [1..m -> Seq(T)]
    <3>1. g[m - 1] \in Seq(T) /\ ss[m] \in Seq(T)
      <4>1. m - 1 \in 1..(m - 1)
        BY <2>4
      <4> QED BY <1>1, <2>4, <2>5, <4>1
    <3>2. g[m - 1] \o ss[m] \in Seq(T)
      BY ONLY <3>1
    <3>3. \A k \in 1..(m - 1) : g[k] \in Seq(T)
      BY <2>5
    <3> QED BY ONLY <2>6, <3>2, <3>3
  <2>8. h[1] = ss[1]
    BY <2>3, <2>4, <2>5
  <2>9. ASSUME NEW k \in 2..m PROVE h[k] = h[k - 1] \o ss[k]
    <3>1. k \in 1..m /\ k - 1 \in 1..m /\ k - 1 # m /\ h[k - 1] = g[k - 1]
      BY <2>4
    <3>2. CASE k = m
      BY <3>1, <3>2
    <3>3. CASE k # m
      <4>1. k \in 2..(m - 1) /\ h[k] = g[k]
        BY <2>4, <3>1, <3>3
      <4>2. g[k] = g[k - 1] \o ss[k]
        BY <2>5, <4>1
      <4> QED BY <3>1, <4>1, <4>2
    <3> QED BY <3>2, <3>3
  <2>10. Part(h, m)
    BY <2>7, <2>8, <2>9
  <2> HIDE DEF h, Part
  <2> QED BY <2>2, <2>10
<1>3. PICK g : Part(g, N)
  BY <1>2
<1>4. Goes(g)
  <2>1. \A i \in 1..N : g[i] = IF i = 1 THEN ss[i] ELSE g[i - 1] \o ss[i]
    <3>1. \A i \in 1..N : i # 1 => i \in 2..N
      BY <1>1
    <3> QED BY <1>3, <3>1
  <2>2. g = [i \in 1..N |-> g[i]]
    BY <1>3
  <2> QED BY <2>1, <2>2 DEF Goes
<1> DEFINE F == CHOOSE e : Goes(e)
<1>5. FlattenSeq(ss) = F[N]
  BY <1>1 DEF FlattenSeq, N, Goes
<1>6. Goes(F)
  BY <1>4
<1> HIDE DEF F
<1>7. \A i \in 1..N : F[i] = IF i = 1 THEN ss[i] ELSE F[i - 1] \o ss[i]
  BY <1>6 DEF Goes
<1>8. F[1] = ss[1] /\ \A k \in 2..N : F[k] = F[k - 1] \o ss[k]
  <2>1. 1 \in 1..N /\ \A k \in 2..N : k \in 1..N /\ k # 1
    BY <1>1
  <2> QED BY ONLY <1>7, <2>1
<1>9. \A k \in 1..N : F[k] \in Seq(T)
  <2> DEFINE B == {k \in 1..N : F[k] \notin Seq(T)}
  <2> SUFFICES ASSUME B # {} PROVE FALSE
    OBVIOUS
  <2>1. B \in SUBSET Nat
    BY <1>1
  <2>2. PICK m \in B : \A k \in B : m <= k
    <3> HIDE DEF B
    <3> QED BY <2>1, FirstOf
  <2>3. m \in 1..N /\ F[m] \notin Seq(T)
    BY <2>2
  <2>4. m # 1
    BY <1>1, <1>8, <2>3
  <2>5. m \in 2..N /\ m - 1 \in 1..N /\ ~(m <= m - 1)
    BY <1>1, <2>3, <2>4
  <2>6. m - 1 \notin B
    <3> HIDE DEF B
    <3> QED BY <2>2, <2>5
  <2>7. F[m - 1] \in Seq(T) /\ ss[m] \in Seq(T) /\ F[m] = F[m - 1] \o ss[m]
    BY <1>1, <1>8, <2>3, <2>5, <2>6
  <2> QED BY ONLY <2>3, <2>7
<1> QED BY <1>5, <1>8, <1>9 DEF N

\* Where each of the sequences begins in what they make together.
Laid(s, ss, n, off) ==
    /\ off \in [1..n -> Nat]
    /\ \A k \in 1..n : /\ off[k] + Len(ss[k]) <= Len(s)
                       /\ \A i \in 1..Len(ss[k]) : s[off[k] + i] = ss[k][i]
    /\ \A j \in 1..Len(s) : \E k \in 1..n : off[k] < j /\ j <= off[k] + Len(ss[k])

\* One more sequence begins where those before it end.
LEMMA LaidNext ==
  ASSUME NEW T, NEW n \in Nat, NEW ss, \A k \in 1..(n + 1) : ss[k] \in Seq(T),
         NEW s \in Seq(T), NEW off, Laid(s, ss, n, off)
  PROVE  \E f : Laid(s \o ss[n + 1], ss, n + 1, f)
<1> DEFINE u == s \o ss[n + 1]
           t == ss[n + 1]
           f == [k \in 1..(n + 1) |-> IF k = n + 1 THEN Len(s) ELSE off[k]]
<1>1. t \in Seq(T) /\ n + 1 \in 1..(n + 1)
  OBVIOUS
<1>2. Len(s) \in Nat /\ Len(t) \in Nat
  BY <1>1
<1>3. /\ Len(u) = Len(s) + Len(t)
      /\ \A i \in 1..Len(s) : u[i] = s[i]
      /\ \A i \in 1..Len(t) : u[Len(s) + i] = t[i]
  BY <1>1
<1>4. \A k \in 1..n : Len(ss[k]) \in Nat
  <2> SUFFICES ASSUME NEW k \in 1..n PROVE Len(ss[k]) \in Nat
    OBVIOUS
  <2>1. ss[k] \in Seq(T)
    OBVIOUS
  <2> QED BY ONLY <2>1
<1>5. /\ off \in [1..n -> Nat]
      /\ \A k \in 1..n : /\ off[k] + Len(ss[k]) <= Len(s)
                         /\ \A i \in 1..Len(ss[k]) : s[off[k] + i] = ss[k][i]
      /\ \A j \in 1..Len(s) : \E k \in 1..n : off[k] < j /\ j <= off[k] + Len(ss[k])
  BY DEF Laid
<1>6. \A k \in 1..(n + 1) : k \in Nat /\ (k # n + 1 => k \in 1..n)
  OBVIOUS
<1>7. f[n + 1] = Len(s) /\ \A k \in 1..n : f[k] = off[k] /\ k \in 1..(n + 1) /\ k # n + 1
  OBVIOUS
<1>8. f \in [1..(n + 1) -> Nat]
  <2>1. ASSUME NEW k \in 1..(n + 1) PROVE f[k] \in Nat
    BY <1>2, <1>5, <1>6
  <2> QED BY <2>1
<1> HIDE DEF u, f, t
<1>9. ASSUME NEW k \in 1..(n + 1)
      PROVE  f[k] + Len(ss[k]) <= Len(u) /\ \A i \in 1..Len(ss[k]) : u[f[k] + i] = ss[k][i]
  <2>1. CASE k = n + 1
    <3>1. ss[k] = t /\ f[k] = Len(s)
      BY <1>7, <2>1 DEF t
    <3> QED BY ONLY <1>2, <1>3, <3>1
  <2>2. CASE k # n + 1
    <3>1. k \in 1..n /\ f[k] = off[k] /\ off[k] \in Nat /\ Len(ss[k]) \in Nat
      BY <1>4, <1>5, <1>6, <1>7, <2>2
    <3>2. off[k] + Len(ss[k]) <= Len(s) /\ \A i \in 1..Len(ss[k]) : s[off[k] + i] = ss[k][i]
      BY <1>5, <3>1
    <3>3. ASSUME NEW i \in 1..Len(ss[k]) PROVE u[f[k] + i] = ss[k][i]
      <4>1. off[k] + i \in 1..Len(s)
        BY ONLY <1>2, <3>1, <3>2, i \in 1..Len(ss[k])
      <4> QED BY <1>3, <3>1, <3>2, <4>1
    <3>4. f[k] + Len(ss[k]) <= Len(u)
      BY ONLY <1>2, <1>3, <3>1, <3>2
    <3> QED BY <3>3, <3>4
  <2> QED BY <2>1, <2>2
<1>10. ASSUME NEW j \in 1..Len(u)
       PROVE  \E k \in 1..(n + 1) : f[k] < j /\ j <= f[k] + Len(ss[k])
  <2>1. CASE j <= Len(s)
    <3>1. j \in 1..Len(s)
      BY <1>2, <1>3, <2>1
    <3>2. PICK k \in 1..n : off[k] < j /\ j <= off[k] + Len(ss[k])
      BY <1>5, <3>1
    <3>3. k \in 1..(n + 1) /\ f[k] = off[k]
      BY <1>7
    <3> QED BY <3>2, <3>3
  <2>2. CASE ~(j <= Len(s))
    <3>1. f[n + 1] < j /\ j <= f[n + 1] + Len(ss[n + 1])
      BY <1>2, <1>3, <1>7, <2>2 DEF t
    <3> QED BY <1>1, <3>1
  <2> QED BY <2>1, <2>2
<1>11. Laid(u, ss, n + 1, f)
  BY <1>8, <1>9, <1>10 DEF Laid
<1> QED BY <1>11 DEF u

\* Each of the sequences is there as it is, and there is nothing else.
LEMMA Flattened ==
  ASSUME NEW T, NEW ss \in Seq(Seq(T)), Len(ss) > 0
  PROVE  FlattenSeq(ss) \in Seq(T) /\ \E off : Laid(FlattenSeq(ss), ss, Len(ss), off)
<1> DEFINE N == Len(ss)
<1>1. PICK F : /\ FlattenSeq(ss) = F[N] /\ F[1] = ss[1]
               /\ \A k \in 1..N : F[k] \in Seq(T)
               /\ \A k \in 2..N : F[k] = F[k - 1] \o ss[k]
  BY FlattenGoes
<1>2. N \in Nat \ {0} /\ \A k \in 1..N : ss[k] \in Seq(T)
  OBVIOUS
<1> DEFINE B == {k \in 1..N : ~\E off : Laid(F[k], ss, k, off)}
<1> HIDE DEF N
<1>3. B = {}
  <2> SUFFICES ASSUME B # {} PROVE FALSE
    OBVIOUS
  <2>1. B \in SUBSET Nat
    BY <1>2
  <2>2. PICK m \in B : \A k \in B : m <= k
    <3> HIDE DEF B
    <3> QED BY <2>1, FirstOf
  <2>3. m \in 1..N /\ ~\E off : Laid(F[m], ss, m, off)
    BY <2>2
  <2>4. m # 1
    <3> DEFINE f == [k \in 1..1 |-> 0]
    <3>1. ss[1] \in Seq(T)
      BY <1>2
    <3>2. Len(ss[1]) \in Nat
      BY ONLY <3>1
    <3>3. f \in [1..1 -> Nat] /\ f[1] = 0 /\ \A k \in 1..1 : k = 1
      OBVIOUS
    <3> HIDE DEF f
    <3>4. Laid(ss[1], ss, 1, f)
      BY ONLY <3>2, <3>3 DEF Laid
    <3> QED BY <1>1, <2>3, <3>4
  <2>5. PICK n : n = m - 1 /\ n \in Nat /\ n \in 1..N /\ m = n + 1 /\ m \in 2..N /\ ~(m <= n)
    BY <1>2, <2>3, <2>4
  <2>6. n \notin B
    <3> HIDE DEF B
    <3> QED BY <2>2, <2>5
  <2>7. PICK off : Laid(F[n], ss, n, off)
    BY <2>5, <2>6
  <2>8. F[m] = F[n] \o ss[n + 1] /\ F[n] \in Seq(T) /\ \A k \in 1..(n + 1) : ss[k] \in Seq(T)
    <3>1. \A k \in 1..(n + 1) : k \in 1..N
      BY <1>2, <2>5
    <3> QED BY <1>1, <1>2, <2>5, <3>1
  <2>9. PICK s \in Seq(T) : s = F[n]
    BY <2>8
  <2>10. \E f : Laid(s \o ss[n + 1], ss, n + 1, f)
    <3>1. Laid(s, ss, n, off) /\ n \in Nat /\ \A k \in 1..(n + 1) : ss[k] \in Seq(T)
      BY <2>5, <2>7, <2>8, <2>9
    <3> QED BY ONLY <3>1, s \in Seq(T), LaidNext
  <2> QED BY <2>3, <2>5, <2>8, <2>9, <2>10
<1>4. N \in 1..N
  BY <1>2
<1> QED BY <1>1, <1>3, <1>4 DEF N
-----------------------------------------------------------------------------
(* What is found in a tree.                                                *)

\* The language of a file is one of the languages.
LEMMA LangIs ==
  ASSUME TreeInv
  PROVE  lang \in DOMAIN Languages
BY ExtensionAssumption DEF TreeInv, lang, language_for

\* The type of a node and its kind agree.
LEMMA NodeFine ==
  ASSUME TreeInv, NEW n
  PROVE  Fine(classify_node(n), tree[n].kind, lang)
BY LangIs, Classified, Tables DEF TableOK

\* What a node of the tree is made of.
LEMMA NodeIs ==
  ASSUME TreeInv, NEW n \in 1..Len(tree)
  PROVE  /\ tree[n].symbol \in Symbol /\ tree[n].bases \in SUBSET Symbol
         /\ tree[n].first \in DOMAIN Source /\ tree[n].last \in DOMAIN Source
         /\ tree[n].first <= tree[n].last
<1> DEFINE H == TreeNode
<1>1. tree \in Seq(H) /\ n \in DOMAIN tree
  BY LineageExists DEF TreeInv
<1>2. tree[n] \in H
  <2> HIDE DEF H
  <2> QED BY <1>1
<1>3. tree[n].symbol \in Symbol /\ tree[n].bases \in SUBSET Symbol
  BY <1>2 DEF TreeNode
<1> QED BY <1>1, <1>3 DEF TreeInv

\* The nodes that become chunks, in their order.
LEMMA WalkedIs ==
  ASSUME TreeInv
  PROVE  Walked \in SUBSET (1..Len(tree)) /\ AscendingOK(Ascending(Walked), Walked)
<1>1. Walked \in SUBSET (1..Len(tree)) /\ Len(tree) \in Nat
  BY LineageExists DEF Walked
<1>2. Walked \in SUBSET Nat /\ IsFiniteSet(Walked)
  <2>1. IsFiniteSet(1..Len(tree))
    BY <1>1, FS_Interval
  <2>2. IsFiniteSet(Walked)
    BY <1>1, <2>1, FS_Subset
  <2> QED BY <1>1, <2>2
<1> QED BY <1>1, <1>2, AscendingIs

\* The id of a chunk says where it starts.
Named(c) ==
    \/ c.id = <<"lines", c.start, c.end>>
    \/ c.type \notin {"lines", "sub"} /\ c.id = <<c.type, c.name, c.start>>

\* A chunk is of a node that the walk comes to, or the whole file.
Placed(c) ==
    \/ c.node = 0 /\ c.type = "Code" /\ Walked = {}
    \/ /\ c.node \in Walked /\ c.type = classify_node(c.node)
       /\ c.start = LineOf(tree[c.node].first) /\ c.end = LineOf(tree[c.node].last)

Chunk(c) ==
    /\ FoundOK(c) /\ c.end <= LineCount /\ c.calls \cup c.inherits \subseteq Symbol
    /\ Named(c) /\ Placed(c)

\* Nothing is no id.
LEMMA Triple ==
  ASSUME NEW a, NEW b, NEW d
  PROVE  <<a, b, d>> # <<>>
OBVIOUS

\* The chunk of a node that the walk comes to.
LEMMA NodeChunkIs ==
  ASSUME TreeInv, NEW n \in Walked
  PROVE  Chunk(NodeChunk(n)) /\ NodeChunk(n).node = n
<1> DEFINE c == NodeChunk(n)
           from == line_for_byte(tree[n].first)
           to == line_for_byte(tree[n].last)
<1>1. n \in 1..Len(tree)
  BY WalkedIs
<1>2. /\ tree[n].bases \in SUBSET Symbol
      /\ tree[n].first \in DOMAIN Source /\ tree[n].last \in DOMAIN Source /\ tree[n].first <= tree[n].last
  BY <1>1, NodeIs
<1>3. from = LineOf(tree[n].first) /\ to = LineOf(tree[n].last)
  BY <1>2, LineIs
<1>4. from \in Nat \ {0} /\ to \in Nat /\ from <= to /\ to <= LineCount
  BY <1>2, <1>3, LinesGrow
<1>5. collect_calls(n) \subseteq Symbol
  <2>1. CallsIn(n) \subseteq 1..Len(tree)
    BY LineageExists DEF CallsIn
  <2>2. \A k \in 1..Len(tree) : tree[k].symbol \in Symbol
    BY NodeIs
  <2> QED BY <2>1, <2>2 DEF collect_calls
<1>6. collect_inherits(n) \subseteq Symbol
  BY <1>2 DEF collect_inherits
<1> HIDE DEF from, to
<1>7. c = [id |-> make_chunk_id(classify_node(n), qualify_method_name(n), from, to),
           node |-> n, type |-> classify_node(n), name |-> qualify_method_name(n), start |-> from,
           end |-> to, calls |-> collect_calls(n), inherits |-> collect_inherits(n),
           depth |-> Cardinality(Above[n] \cap Walked), parent |-> <<>>, children |-> <<>>]
  BY DEF NodeChunk, from, to
<1> HIDE DEF c
<1>8. /\ c.id = make_chunk_id(classify_node(n), c.name, from, to) /\ c.node = n
      /\ c.type = classify_node(n) /\ c.start = from /\ c.end = to /\ c.calls = collect_calls(n)
      /\ c.inherits = collect_inherits(n) /\ c.parent = <<>> /\ c.children = <<>> /\ Fields(c)
  BY ONLY <1>7 DEF Fields
<1>9. c.type \notin {"lines", "sub"}
  <2>1. Fine(classify_node(n), tree[n].kind, lang)
    BY NodeFine
  <2> QED BY <1>8, <2>1 DEF Fine
<1>10. c.id = <<"lines", c.start, c.end>> \/ c.id = <<c.type, c.name, c.start>>
  BY ONLY <1>8 DEF make_chunk_id
<1>11. c.id # <<>>
  <2>1. <<"lines", c.start, c.end>> # <<>> /\ <<c.type, c.name, c.start>> # <<>>
    BY ONLY Triple
  <2> QED BY ONLY <1>10, <2>1
<1>12. FoundOK(c)
  BY ONLY <1>4, <1>8, <1>11 DEF FoundOK
<1>13. Named(c)
  BY ONLY <1>9, <1>10 DEF Named
<1>14. Placed(c)
  BY <1>3, <1>8 DEF Placed, from, to
<1> QED BY <1>4, <1>5, <1>6, <1>8, <1>12, <1>13, <1>14 DEF Chunk, c

\* A file has a line.
LEMMA GenericLines == LineCount \in Nat \ {0}
<1>1. 1 \in DOMAIN Source
  <2> DEFINE H == {"x", "nl"}
  <2>1. Source \in Seq(H) /\ Source # <<>>
    BY AstAssumption
  <2> HIDE DEF H
  <2> QED BY <2>1
<1> QED BY <1>1, LinesGrow

\* The chunk of a file that declares nothing.
LEMMA GenericIs ==
  ASSUME Walked = {}
  PROVE  Chunk(generic) /\ generic.node = 0
<1>1. generic = [id |-> <<"lines", 1, LineCount>>, node |-> 0, type |-> "Code", name |-> <<NoSymbol>>,
                 start |-> 1, end |-> LineCount, calls |-> {}, inherits |-> {}, depth |-> 0,
                 parent |-> <<>>, children |-> <<>>]
  BY DEF generic
<1>2. LineCount \in Nat \ {0}
  BY GenericLines
<1> DEFINE c == generic
<1> HIDE DEF c
<1>3. /\ c.id = <<"lines", 1, LineCount>> /\ c.node = 0 /\ c.type = "Code" /\ c.start = 1
      /\ c.end = LineCount /\ c.calls = {} /\ c.inherits = {} /\ c.parent = <<>> /\ c.children = <<>>
      /\ Fields(c)
  BY ONLY <1>1 DEF Fields, c
<1>4. c.id # <<>> /\ Named(c)
  BY ONLY <1>3 DEF Named
<1>5. FoundOK(c) /\ c.end <= LineCount /\ Placed(c) /\ c.calls \cup c.inherits \subseteq Symbol
  BY <1>2, <1>3, <1>4 DEF FoundOK, Placed
<1> QED BY <1>3, <1>4, <1>5 DEF Chunk, c

\* One chunk for each node that the walk comes to, or one for the file.
Listed(f) ==
    /\ Len(f) \in Nat \ {0} /\ DOMAIN f = 1..Len(f) /\ f = [k \in 1..Len(f) |-> f[k]]
    /\ \A k \in 1..Len(f) : Chunk(f[k])
    /\ \A j, k \in 1..Len(f) : f[j].node = f[k].node => j = k
    /\ \A n \in Walked : \E k \in 1..Len(f) : f[k].node = n

\* What is found is listed, one chunk after the other.
LEMMA FoundAre ==
  ASSUME TreeInv
  PROVE  Listed(FoundChunks)
<1> DEFINE nodes == Ascending(Walked)
           N == Cardinality(Walked)
           w == walk_for_chunks
<1>1. AscendingOK(nodes, Walked)
  BY WalkedIs
<1>2. /\ N \in Nat /\ nodes \in [1..N -> Walked] /\ DOMAIN nodes = 1..N
      /\ \A n \in Walked : \E k \in 1..N : nodes[k] = n
      /\ \A j, k \in 1..N : nodes[j] = nodes[k] => j = k
  BY <1>1 DEF AscendingOK
<1>3. w = [i \in DOMAIN nodes |-> NodeChunk(nodes[i])]
  BY DEF walk_for_chunks
<1> HIDE DEF nodes, N, w
<1>4. w = [i \in 1..N |-> NodeChunk(nodes[i])]
  BY <1>2, <1>3
<1>5. Len(w) = N /\ DOMAIN w = 1..N /\ w = [k \in 1..N |-> w[k]]
  BY <1>2, <1>4
<1>6. \A k \in 1..N : Chunk(w[k]) /\ w[k].node = nodes[k]
  BY <1>2, <1>4, NodeChunkIs
<1>7. CASE N # 0
  <2>1. w # <<>>
    BY <1>2, <1>5, <1>7
  <2>2. FoundChunks = w
    BY <2>1 DEF FoundChunks, w
  <2>3. \A j, k \in 1..N : w[j].node = w[k].node => j = k
    BY <1>2, <1>6
  <2>4. \A n \in Walked : \E k \in 1..N : w[k].node = n
    BY <1>2, <1>6
  <2>5. Listed(w)
    BY ONLY <1>2, <1>5, <1>6, <1>7, <2>3, <2>4 DEF Listed
  <2> QED BY <2>2, <2>5
<1>8. CASE N = 0
  <2>1. w = <<>> /\ Walked = {}
    <3>1. 1..N = {}
      BY <1>8
    <3> QED BY <1>2, <1>5, <1>8, <3>1
  <2>2. FoundChunks = <<generic>>
    BY <2>1 DEF FoundChunks, w
  <2> DEFINE f == <<generic>>
  <2>3. Len(f) = 1 /\ DOMAIN f = 1..1 /\ f = [k \in 1..1 |-> f[k]] /\ f[1] = generic
    OBVIOUS
  <2>4. \A k \in 1..1 : k = 1
    OBVIOUS
  <2> HIDE DEF f
  <2>5. Listed(f)
    BY <2>1, <2>3, <2>4, GenericIs DEF Listed
  <2> QED BY <2>2, <2>5 DEF f
<1> QED BY <1>7, <1>8
-----------------------------------------------------------------------------
(* What a file is cut into.                                                *)

\* Each chunk that is found, after its pieces, from a place of its own on.
Layout(f, m, off, s) ==
    /\ m \in [1..Len(f) -> Nat] /\ off \in [1..Len(f) -> Nat]
    /\ Len(s) \in Nat /\ DOMAIN s = 1..Len(s)
    /\ \A k \in 1..Len(f) :
          /\ Lines(f[k]) > MAX_CHUNK_LINES <=> m[k] # 0
          /\ off[k] + m[k] + 1 \in 1..Len(s) /\ WholeOf(s[off[k] + m[k] + 1], f[k])
          /\ s[off[k] + m[k] + 1].children = [i \in 1..m[k] |-> <<"sub", f[k].id, i>>]
          /\ \A i \in 1..m[k] : off[k] + i \in 1..Len(s) /\ PieceOf(s[off[k] + i], f[k], i)
          /\ m[k] # 0 => \A l \in f[k].start..f[k].end :
                            \E i \in 1..m[k] : s[off[k] + i].start <= l /\ l <= s[off[k] + i].end
    /\ \A j \in 1..Len(s) : \E k \in 1..Len(f) :
          j = off[k] + m[k] + 1 \/ \E i \in 1..m[k] : j = off[k] + i

\* What is cut has its place, each chunk after its pieces.
LEMMA LaidOut ==
  ASSUME NEW f, Listed(f)
  PROVE  \E m, off : Layout(f, m, off, split_oversized(f))
<1> DEFINE N == Len(f)
           ss == [i \in DOMAIN f |-> SplitChunk(f[i])]
           s == split_oversized(f)
           m == [k \in 1..N |-> CHOOSE x \in Nat : SplitOK(f[k], SplitChunk(f[k]), x)]
           T == UNION {Range(ss[k]) : k \in 1..N}
<1>1. N \in Nat \ {0} /\ DOMAIN f = 1..N /\ \A k \in 1..N : FoundOK(f[k])
  BY DEF Listed, Chunk
<1>2. s = FlattenSeq(ss)
  BY DEF split_oversized
<1>3. DOMAIN ss = 1..N /\ ss = [k \in 1..N |-> ss[k]] /\ \A k \in 1..N : ss[k] = SplitChunk(f[k])
  BY <1>1
<1> HIDE DEF N, s, ss
<1>4. \A k \in 1..N : m[k] \in Nat /\ SplitOK(f[k], ss[k], m[k])
  <2> SUFFICES ASSUME NEW k \in 1..N PROVE m[k] \in Nat /\ SplitOK(f[k], ss[k], m[k])
    OBVIOUS
  <2>1. FoundOK(f[k]) /\ ss[k] = SplitChunk(f[k])
    BY <1>1, <1>3
  <2> DEFINE x == CHOOSE x \in Nat : SplitOK(f[k], SplitChunk(f[k]), x)
  <2>2. x \in Nat /\ SplitOK(f[k], SplitChunk(f[k]), x)
    BY <2>1, SplitIs
  <2>3. m[k] = x
    OBVIOUS
  <2> HIDE DEF x, m
  <2> QED BY <2>1, <2>2, <2>3
<1>5. m \in [1..N -> Nat]
  <2>1. m = [k \in 1..N |-> m[k]]
    OBVIOUS
  <2> HIDE DEF m
  <2> QED BY <1>4, <2>1
<1> HIDE DEF m
<1>6. ASSUME NEW k \in 1..N
      PROVE  ss[k] \in Seq(T) /\ Len(ss[k]) = m[k] + 1 /\ m[k] \in Nat
  <2>1. PICK q, n : q = ss[k] /\ n = m[k]
    OBVIOUS
  <2>2. SplitOK(f[k], q, n)
    BY <1>4, <2>1
  <2>3. n \in Nat /\ DOMAIN q = 1..(n + 1) /\ Len(q) = n + 1 /\ q = [i \in 1..(n + 1) |-> q[i]]
    BY ONLY <2>2 DEF SplitOK
  <2>4. \A i \in 1..(n + 1) : q[i] \in T
    <3>1. \A i \in 1..(n + 1) : q[i] \in Range(q)
      BY ONLY <2>3 DEF Range
    <3>2. Range(ss[k]) \subseteq T
      OBVIOUS
    <3> QED BY <2>1, <3>1, <3>2
  <2> HIDE DEF T
  <2>5. q \in Seq(T)
    <3>1. n + 1 \in Nat
      BY ONLY <2>3
    <3> QED BY ONLY <2>3, <2>4, <3>1
  <2> QED BY <2>1, <2>3, <2>5
<1> HIDE DEF T
<1>7. ss \in Seq(Seq(T)) /\ Len(ss) = N
  <2> DEFINE V == Seq(T)
  <2>1. \A k \in 1..N : ss[k] \in V
    BY <1>6
  <2> HIDE DEF V
  <2>2. ss \in Seq(V) /\ Len(ss) = N
    BY ONLY <1>1, <1>3, <2>1
  <2> QED BY <2>2 DEF V
<1>8. s \in Seq(T) /\ \E off : Laid(s, ss, N, off)
  <2>1. Len(ss) > 0
    BY <1>1, <1>7
  <2> QED BY <1>2, <1>7, <2>1, Flattened
<1>9. PICK off : Laid(s, ss, N, off)
  BY <1>8
<1>10. /\ off \in [1..N -> Nat]
       /\ \A k \in 1..N : /\ off[k] + Len(ss[k]) <= Len(s)
                          /\ \A i \in 1..Len(ss[k]) : s[off[k] + i] = ss[k][i]
       /\ \A j \in 1..Len(s) : \E k \in 1..N : off[k] < j /\ j <= off[k] + Len(ss[k])
  BY <1>9 DEF Laid
<1>11. Len(s) \in Nat /\ DOMAIN s = 1..Len(s)
  BY ONLY <1>8
<1>12. ASSUME NEW k \in 1..N
       PROVE  /\ Lines(f[k]) > MAX_CHUNK_LINES <=> m[k] # 0
              /\ off[k] + m[k] + 1 \in 1..Len(s) /\ WholeOf(s[off[k] + m[k] + 1], f[k])
              /\ s[off[k] + m[k] + 1].children = [i \in 1..m[k] |-> <<"sub", f[k].id, i>>]
              /\ \A i \in 1..m[k] : off[k] + i \in 1..Len(s) /\ PieceOf(s[off[k] + i], f[k], i)
              /\ m[k] # 0 => \A l \in f[k].start..f[k].end :
                                \E i \in 1..m[k] : s[off[k] + i].start <= l /\ l <= s[off[k] + i].end
  <2>1. off[k] \in Nat /\ m[k] \in Nat /\ off[k] + (m[k] + 1) <= Len(s)
    BY <1>6, <1>10
  <2>2. \A i \in 1..(m[k] + 1) : s[off[k] + i] = ss[k][i]
    BY <1>6, <1>10
  <2>3. off[k] + m[k] + 1 \in 1..Len(s) /\ \A i \in 1..m[k] : off[k] + i \in 1..Len(s)
    BY ONLY <1>11, <2>1
  <2>4. SplitOK(f[k], ss[k], m[k])
    BY <1>4
  <2>5. s[off[k] + m[k] + 1] = ss[k][m[k] + 1]
    <3>1. m[k] + 1 \in 1..(m[k] + 1) /\ off[k] + (m[k] + 1) = off[k] + m[k] + 1
      BY <2>1
    <3> QED BY <2>2, <3>1
  <2>6. \A i \in 1..m[k] : s[off[k] + i] = ss[k][i]
    <3>1. \A i \in 1..m[k] : i \in 1..(m[k] + 1)
      BY <2>1
    <3> QED BY <2>2, <3>1
  <2> QED BY ONLY <2>3, <2>4, <2>5, <2>6 DEF SplitOK
<1>13. ASSUME NEW j \in 1..Len(s)
       PROVE  \E k \in 1..N : j = off[k] + m[k] + 1 \/ \E i \in 1..m[k] : j = off[k] + i
  <2>1. PICK k \in 1..N : off[k] < j /\ j <= off[k] + Len(ss[k])
    BY <1>10
  <2>2. off[k] \in Nat /\ m[k] \in Nat /\ Len(ss[k]) = m[k] + 1 /\ j \in Nat
    BY <1>6, <1>10, <1>11
  <2>3. PICK i : i = j - off[k]
    OBVIOUS
  <2>4. j = off[k] + i /\ i \in 1..(m[k] + 1)
    BY ONLY <2>1, <2>2, <2>3
  <2>5. j = off[k] + m[k] + 1 \/ i \in 1..m[k]
    BY ONLY <2>2, <2>4
  <2> QED BY <2>4, <2>5
<1>14. Layout(f, m, off, s)
  BY <1>5, <1>10, <1>11, <1>12, <1>13 DEF Layout, N
<1> QED BY <1>14 DEF s
-----------------------------------------------------------------------------
(* What is said of the chunks.                                             *)

\* The chunks that are no pieces are those that were found.
LEMMA WholeIs ==
  ASSUME NEW f, NEW m, NEW off, Listed(f), Layout(f, m, off, chunks), NEW c \in Whole
  PROVE  \E k \in 1..Len(f) : c = chunks[off[k] + m[k] + 1] /\ WholeOf(c, f[k]) /\ Chunk(f[k])
<1>1. c \in Range(chunks) /\ c.parent = <<>>
  BY DEF Whole
<1>2. PICK j \in 1..Len(chunks) : c = chunks[j]
  BY <1>1 DEF Layout, Range
<1>3. PICK k \in 1..Len(f) : j = off[k] + m[k] + 1 \/ \E i \in 1..m[k] : j = off[k] + i
  BY DEF Layout
<1>4. Chunk(f[k])
  BY DEF Listed
<1>5. ASSUME NEW i \in 1..m[k], j = off[k] + i PROVE FALSE
  <2>1. PieceOf(c, f[k], i)
    BY <1>2, <1>5 DEF Layout
  <2>2. c.parent = f[k].id /\ f[k].id # <<>>
    BY <1>4, <2>1 DEF PieceOf, Chunk, FoundOK
  <2> QED BY <1>1, <2>2
<1>6. j = off[k] + m[k] + 1
  BY <1>3, <1>5
<1>7. WholeOf(c, f[k])
  BY <1>2, <1>6 DEF Layout
<1> QED BY <1>2, <1>4, <1>6, <1>7

\* A chunk is one that was found or a piece of it.
LEMMA EachIs ==
  ASSUME NEW f, NEW m, NEW off, Listed(f), Layout(f, m, off, chunks), NEW c \in Range(chunks)
  PROVE  \E k \in 1..Len(f) : Chunk(f[k]) /\ (WholeOf(c, f[k]) \/ \E i \in 1..m[k] : PieceOf(c, f[k], i))
<1>1. PICK j \in 1..Len(chunks) : c = chunks[j]
  BY DEF Layout, Range
<1>2. PICK k \in 1..Len(f) : j = off[k] + m[k] + 1 \/ \E i \in 1..m[k] : j = off[k] + i
  BY DEF Layout
<1>3. Chunk(f[k])
  BY DEF Listed
<1>4. CASE j = off[k] + m[k] + 1
  <2>1. WholeOf(c, f[k])
    BY <1>1, <1>4 DEF Layout
  <2> QED BY <1>3, <2>1
<1>5. CASE \E i \in 1..m[k] : j = off[k] + i
  <2>1. PICK i \in 1..m[k] : j = off[k] + i
    BY <1>5
  <2>2. PieceOf(c, f[k], i)
    BY <1>1, <2>1 DEF Layout
  <2> QED BY <1>3, <2>2
<1> QED BY <1>2, <1>4, <1>5

\* A chunk and a piece of it have a node and lines of the file, and name symbols only.
LEMMA TypeGiven ==
  ASSUME TreeInv, NEW f, NEW m, NEW off, Listed(f), Layout(f, m, off, chunks)
  PROVE  AstTypeOK
<1>1. ASSUME NEW c \in Range(chunks)
      PROVE  /\ c.node \in 0..Len(tree) /\ c.start \in 1..c.end /\ c.end <= LineCount
             /\ c.calls \cup c.inherits \subseteq Symbol
  <2>1. PICK k \in 1..Len(f) : Chunk(f[k]) /\ (WholeOf(c, f[k]) \/ \E i \in 1..m[k] : PieceOf(c, f[k], i))
    BY <1>1, EachIs
  <2> DEFINE g == f[k]
  <2>2. /\ g.start \in Nat \ {0} /\ g.end \in Nat /\ g.start <= g.end /\ g.end <= LineCount
        /\ g.calls \cup g.inherits \subseteq Symbol
    BY <2>1 DEF Chunk, FoundOK
  <2>3. g.node \in 0..Len(tree)
    <3>1. g.node = 0 \/ g.node \in 1..Len(tree)
      BY <2>1, WalkedIs DEF Chunk, Placed
    <3>2. Len(tree) \in Nat
      BY LineageExists
    <3> HIDE DEF g
    <3> QED BY ONLY <3>1, <3>2
  <2>4. LineCount \in Nat
    BY GenericLines
  <2> HIDE DEF g
  <2>5. CASE WholeOf(c, g)
    <3>1. c.node = g.node /\ c.start = g.start /\ c.end = g.end /\ c.calls = g.calls /\ c.inherits = g.inherits
      BY ONLY <2>5 DEF WholeOf
    <3> QED BY ONLY <2>2, <2>3, <3>1
  <2>6. CASE \E i \in 1..m[k] : PieceOf(c, g, i)
    <3>1. /\ c.node = g.node /\ c.calls = {} /\ c.inherits = {}
          /\ c.start \in Nat /\ c.end \in Nat /\ g.start <= c.start /\ c.start <= c.end /\ c.end <= g.end
      BY ONLY <2>6 DEF PieceOf
    <3> QED BY ONLY <2>2, <2>3, <2>4, <3>1
  <2> QED BY <2>1, <2>5, <2>6 DEF g
<1> QED BY <1>1 DEF AstTypeOK, TreeInv

\* The lines of a chunk are those of its node.
LEMMA LinesGiven ==
  ASSUME NEW f, NEW m, NEW off, Listed(f), Layout(f, m, off, chunks)
  PROVE  LinesExact
<1>1. ASSUME NEW c \in Whole, c.node # 0
      PROVE  c.start = LineOf(tree[c.node].first) /\ c.end = LineOf(tree[c.node].last)
  <2>1. PICK k \in 1..Len(f) : WholeOf(c, f[k]) /\ Chunk(f[k])
    BY WholeIs
  <2>2. c.node = f[k].node /\ c.start = f[k].start /\ c.end = f[k].end
    BY <2>1 DEF WholeOf
  <2>3. f[k].start = LineOf(tree[f[k].node].first) /\ f[k].end = LineOf(tree[f[k].node].last)
    BY <1>1, <2>1, <2>2 DEF Chunk, Placed
  <2> QED BY <2>2, <2>3
<1> QED BY <1>1 DEF LinesExact, LineOf

\* No call is in two functions that are chunks, and none of them is in the other but in Ruby.
LEMMA FunctionsApart ==
  ASSUME TreeInv, NEW a \in Walked, NEW b \in Walked, classify_node(a) \in {"Function", "Method"}
  PROVE  /\ lang # "ruby" => a \notin Above[b]
         /\ (a # b /\ classify_node(b) \in {"Function", "Method"}) => CallsIn(a) \cap CallsIn(b) = {}
<1>0. \A c \in {a, b} : classify_node(c) \in {"Function", "Method"} =>
          IF lang = "ruby" THEN tree[c].kind \in FnKinds[lang] ELSE is_function_body_node(tree[c].kind)
  <2>1. \A c : Fine(classify_node(c), tree[c].kind, lang)
    BY NodeFine
  <2>2. FnKinds["ruby"] = {"method", "singleton_method"}
    BY DEF FnKinds
  <2> QED BY <2>1, <2>2 DEF Fine
<1>1. \A c, d \in {a, b} : classify_node(c) \in {"Function", "Method"} /\ c \in Above[d] => lang = "ruby"
  <2> SUFFICES ASSUME NEW c \in {a, b}, NEW d \in {a, b}, classify_node(c) \in {"Function", "Method"},
                      c \in Above[d], lang # "ruby"
               PROVE  FALSE
    OBVIOUS
  <2>1. is_function_body_node(tree[c].kind) /\ classify_node(c) # "none"
    BY <1>0
  <2>2. d \in Walked
    OBVIOUS
  <2> QED BY <2>1, <2>2 DEF Walked
<1>2. ASSUME a # b, classify_node(b) \in {"Function", "Method"}, NEW x \in CallsIn(a) \cap CallsIn(b)
      PROVE  FALSE
  <2>1. x \in DOMAIN tree /\ \A c \in {a, b} : /\ c \in Above[x]
                                              /\ \A n \in Above[x] : c \in Above[n] => tree[n].kind \notin FnKinds[lang]
    BY <1>2 DEF CallsIn
  <2>2. a \in Above[b] \/ b \in Above[a]
    BY <1>2, <2>1, AboveIs
  <2>3. lang = "ruby"
    BY <1>1, <1>2, <2>2
  <2>4. \A c \in {a, b} : tree[c].kind \in FnKinds[lang]
    BY <1>0, <1>2, <2>3
  <2> QED BY <2>1, <2>2, <2>4
<1> QED BY <1>1, <1>2


\* The functions that are chunks.
LEMMA FunctionIs ==
  ASSUME TreeInv, NEW f, NEW m, NEW off, Listed(f), Layout(f, m, off, chunks), NEW c \in Functions
  PROVE  c \in Whole /\ c.node \in Walked /\ classify_node(c.node) \in {"Function", "Method"}
<1>1. c \in Whole /\ c.type \in {"Function", "Method"}
  BY DEF Functions
<1>2. PICK k \in 1..Len(f) : WholeOf(c, f[k]) /\ Chunk(f[k])
  BY <1>1, WholeIs
<1>3. c.node = f[k].node /\ c.type = f[k].type
  BY <1>2 DEF WholeOf
<1>4. Placed(f[k])
  BY <1>2 DEF Chunk
<1>5. f[k].node \in Walked /\ f[k].type = classify_node(f[k].node)
  BY <1>1, <1>3, <1>4 DEF Placed
<1> QED BY <1>1, <1>3, <1>5

\* Of two chunks that are no pieces each is of another node.
LEMMA WholesApart ==
  ASSUME NEW f, NEW m, NEW off, Listed(f), Layout(f, m, off, chunks),
         NEW c \in Whole, NEW d \in Whole, c.node = d.node
  PROVE  c = d
<1>1. PICK j \in 1..Len(f) : c = chunks[off[j] + m[j] + 1] /\ WholeOf(c, f[j])
  BY WholeIs
<1>2. PICK k \in 1..Len(f) : d = chunks[off[k] + m[k] + 1] /\ WholeOf(d, f[k])
  BY WholeIs
<1>3. f[j].node = f[k].node
  BY <1>1, <1>2 DEF WholeOf
<1>4. j = k
  BY <1>3 DEF Listed
<1> QED BY <1>1, <1>2, <1>4

\* The functions that are chunks share no call and are in no other chunk.
LEMMA FunctionsGiven ==
  ASSUME TreeInv, NEW f, NEW m, NEW off, Listed(f), Layout(f, m, off, chunks)
  PROVE  CallsClaimedOnce /\ FunctionsWhole
<1>1. CallsClaimedOnce
  <2> SUFFICES ASSUME NEW c \in Functions, NEW d \in Functions, c # d
               PROVE  CallsIn(c.node) \cap CallsIn(d.node) = {}
    BY DEF CallsClaimedOnce
  <2>1. \A g \in {c, d} : g \in Whole /\ g.node \in Walked /\ classify_node(g.node) \in {"Function", "Method"}
    BY FunctionIs
  <2>2. c.node # d.node
    BY <2>1, WholesApart
  <2> QED BY <2>1, <2>2, FunctionsApart
<1>2. FunctionsWhole
  <2> SUFFICES ASSUME lang # "ruby", NEW c \in Functions, NEW d \in Whole, d.node # 0
               PROVE  c.node \notin Above[d.node]
    BY DEF FunctionsWhole
  <2>1. c.node \in Walked /\ classify_node(c.node) \in {"Function", "Method"}
    BY FunctionIs
  <2>2. PICK k \in 1..Len(f) : WholeOf(d, f[k]) /\ Chunk(f[k])
    BY WholeIs
  <2>3. d.node \in Walked
    BY <2>2 DEF WholeOf, Chunk, Placed
  <2> QED BY <2>1, <2>3, FunctionsApart
<1> QED BY <1>1, <1>2

\* Every declaration outside functions is a chunk.
LEMMA DeclaredGiven ==
  ASSUME TreeInv, NEW f, NEW m, NEW off, Listed(f), Layout(f, m, off, chunks)
  PROVE  AllDeclared
<1>1. ASSUME NEW n \in DOMAIN tree, classify_node(n) # "none",
             \A a \in Above[n] : classify_node(a) \notin {"Function", "Method"}
      PROVE  n \in {c.node : c \in Whole}
  <2>1. ASSUME NEW a \in Above[n] PROVE ~(classify_node(a) # "none" /\ is_function_body_node(tree[a].kind))
    <3>1. Fine(classify_node(a), tree[a].kind, lang)
      BY NodeFine
    <3> QED BY <1>1, <3>1 DEF Fine
  <2>2. n \in Walked
    BY <1>1, <2>1 DEF Walked
  <2>3. PICK k \in 1..Len(f) : f[k].node = n
    BY <2>2 DEF Listed
  <2> DEFINE d == chunks[off[k] + m[k] + 1]
  <2>4. d \in Range(chunks) /\ WholeOf(d, f[k])
    BY DEF Layout, Range
  <2>5. d \in Whole /\ d.node = n
    BY <2>3, <2>4 DEF Whole, WholeOf
  <2> QED BY <2>5
<1>2. chunks # <<>>
  <2>1. 1 \in 1..Len(f)
    BY DEF Listed
  <2>2. off[1] + m[1] + 1 \in DOMAIN chunks
    BY <2>1 DEF Layout
  <2> QED BY <2>2
<1> QED BY <1>1, <1>2 DEF AllDeclared

-----------------------------------------------------------------------------
(* Ids.                                                                    *)

\* Chunks that start on two lines have two ids.
LEMMA NamesApart ==
  ASSUME NEW c, NEW d, Named(c), Named(d), c.start # d.start
  PROVE  c.id # d.id
BY DEF Named

\* With a declaration a line, no two chunks that are found have one id.
LEMMA FoundApart ==
  ASSUME TreeInv, NEW f, Listed(f),
         \A m, n \in Walked : m # n => line_for_byte(tree[m].first) # line_for_byte(tree[n].first),
         NEW j \in 1..Len(f), NEW k \in 1..Len(f), j # k
  PROVE  f[j].id # f[k].id
<1>1. Chunk(f[j]) /\ Chunk(f[k]) /\ f[j].node # f[k].node
  BY DEF Listed
<1>2. f[j].node \in Walked /\ f[k].node \in Walked
  BY <1>1 DEF Chunk, Placed
<1>3. f[j].start = LineOf(tree[f[j].node].first) /\ f[k].start = LineOf(tree[f[k].node].first)
  BY <1>1, <1>2 DEF Chunk, Placed
<1>4. \A n \in Walked : line_for_byte(tree[n].first) = LineOf(tree[n].first)
  BY WalkedIs, NodeIs, LineIs
<1>5. f[j].start # f[k].start
  BY <1>1, <1>2, <1>3, <1>4
<1>6. Named(f[j]) /\ Named(f[k])
  BY <1>1 DEF Chunk
<1> QED BY <1>5, <1>6, NamesApart

\* A piece has no id that a chunk has that was found.
LEMMA PieceApart ==
  ASSUME NEW c, Named(c), NEW x, NEW i
  PROVE  c.id # <<"sub", x, i>>
BY DEF Named

\* With a declaration a line, every chunk and every piece has an id of its own.
LEMMA IdsGiven ==
  ASSUME TreeInv, NEW f, NEW m, NEW off, Listed(f), Layout(f, m, off, chunks)
  PROVE  AstIdsUnique
<1> SUFFICES ASSUME \A a, b \in Walked : a # b => line_for_byte(tree[a].first) # line_for_byte(tree[b].first),
                    NEW j \in DOMAIN chunks, NEW k \in DOMAIN chunks, chunks[j].id = chunks[k].id
             PROVE  j = k
  BY DEF AstIdsUnique
<1> DEFINE At(i, a, b) == IF b = 0 THEN i = off[a] + m[a] + 1 /\ chunks[i].id = f[a].id
                          ELSE i = off[a] + b /\ chunks[i].id = <<"sub", f[a].id, b>>
<1>1. ASSUME NEW i \in DOMAIN chunks
      PROVE  \E a \in 1..Len(f), b \in Nat : At(i, a, b)
  <2>1. PICK a \in 1..Len(f) : i = off[a] + m[a] + 1 \/ \E b \in 1..m[a] : i = off[a] + b
    BY DEF Layout
  <2>2. CASE i = off[a] + m[a] + 1
    <3>1. chunks[i].id = f[a].id
      BY <2>2 DEF Layout, WholeOf
    <3>2. At(i, a, 0)
      BY <2>2, <3>1
    <3> QED BY <3>2
  <2>3. CASE \E b \in 1..m[a] : i = off[a] + b
    <3>1. PICK b \in 1..m[a] : i = off[a] + b
      BY <2>3
    <3>2. chunks[i].id = <<"sub", f[a].id, b>>
      BY <3>1 DEF Layout, PieceOf
    <3>3. b \in Nat /\ b # 0
      BY DEF Layout
    <3>4. At(i, a, b)
      BY <3>1, <3>2, <3>3
    <3> QED BY <3>3, <3>4
  <2> QED BY <2>1, <2>2, <2>3
<1>2. PICK a \in 1..Len(f), b \in Nat : At(j, a, b)
  BY <1>1
<1>3. PICK c \in 1..Len(f), d \in Nat : At(k, c, d)
  BY <1>1
<1>4. Named(f[a]) /\ Named(f[c]) /\ (f[a].id = f[c].id => a = c)
  <2>1. f[a].id = f[c].id => a = c
    BY FoundApart
  <2> QED BY <2>1 DEF Listed, Chunk
<1>5. b = 0 <=> d = 0
  <2>1. \A x, y : f[a].id # <<"sub", x, y>> /\ f[c].id # <<"sub", x, y>>
    BY <1>4, PieceApart
  <2> QED BY <1>2, <1>3, <2>1
<1>6. CASE b = 0
  BY <1>2, <1>3, <1>4, <1>5, <1>6
<1>7. CASE b # 0
  <2>1. <<"sub", f[a].id, b>> = <<"sub", f[c].id, d>>
    BY <1>2, <1>3, <1>5, <1>7
  <2>2. f[a].id = f[c].id /\ b = d
    BY ONLY <2>1
  <2> QED BY <1>2, <1>3, <1>4, <1>5, <1>7, <2>2
<1> QED BY <1>6, <1>7


-----------------------------------------------------------------------------
(* Pieces.                                                                 *)

\* Numbers that follow each other.
LEMMA AscendingRange ==
  ASSUME NEW o \in Nat, NEW n \in Nat
  PROVE  Ascending((o + 1)..(o + n)) = [i \in 1..n |-> o + i]
<1> DEFINE P == (o + 1)..(o + n)
           s == Ascending(P)
<1>1. P \in SUBSET Nat /\ IsFiniteSet(P) /\ Cardinality(P) = n
  <2>1. P \in SUBSET Nat
    OBVIOUS
  <2>2. IsFiniteSet(P)
    <3>1. o + 1 \in Int /\ o + n \in Int
      OBVIOUS
    <3> QED BY ONLY <3>1, FS_Interval
  <2>3. Cardinality(P) = n
    <3>1. PICK a, b : a = o + 1 /\ b = o + n
      OBVIOUS
    <3>2. a \in Int /\ b \in Int
      BY <3>1
    <3>3. Cardinality(a..b) = IF a > b THEN 0 ELSE b - a + 1
      BY ONLY <3>2, FS_Interval
    <3> QED BY <3>1, <3>3
  <2> QED BY <2>1, <2>2, <2>3
<1>2. AscendingOK(s, P)
  <2> HIDE DEF P
  <2> QED BY <1>1, AscendingIs
<1>3. s \in [1..n -> P] /\ \A x \in P : s[Cardinality(Upto(P, x))] = x
  BY <1>1, <1>2 DEF AscendingOK
<1>4. ASSUME NEW i \in 1..n PROVE s[i] = o + i
  <2>1. o + i \in P
    OBVIOUS
  <2>2. Upto(P, o + i) = (o + 1)..(o + i)
    BY DEF Upto
  <2>3. Cardinality((o + 1)..(o + i)) = i
    <3>1. PICK a, b : a = o + 1 /\ b = o + i
      OBVIOUS
    <3>2. a \in Int /\ b \in Int
      BY <3>1
    <3>3. Cardinality(a..b) = IF a > b THEN 0 ELSE b - a + 1
      BY ONLY <3>2, FS_Interval
    <3> QED BY <3>1, <3>3
  <2> HIDE DEF P, s
  <2> QED BY <1>3, <2>1, <2>2, <2>3
<1>5. s = [i \in 1..n |-> s[i]]
  BY <1>3
<1> HIDE DEF s
<1>6. s = [i \in 1..n |-> o + i]
  BY <1>4, <1>5
<1> QED BY <1>6 DEF s

\* The pieces of a chunk are in the places before it.
LEMMA PiecesAt ==
  ASSUME NEW f, NEW m, NEW off, Listed(f), Layout(f, m, off, chunks), NEW k \in 1..Len(f)
  PROVE  {i \in DOMAIN chunks : chunks[i].parent = f[k].id /\ chunks[i].node = f[k].node}
         = (off[k] + 1)..(off[k] + m[k])
<1> DEFINE P == {i \in DOMAIN chunks : chunks[i].parent = f[k].id /\ chunks[i].node = f[k].node}
<1>1. off[k] \in Nat /\ m[k] \in Nat
  BY DEF Layout
<1>2. f[k].id # <<>>
  BY DEF Listed, Chunk, FoundOK
<1>3. ASSUME NEW i \in P PROVE i \in (off[k] + 1)..(off[k] + m[k])
  <2>1. PICK a \in 1..Len(f) : i = off[a] + m[a] + 1 \/ \E b \in 1..m[a] : i = off[a] + b
    BY DEF Layout
  <2>2. i # off[a] + m[a] + 1
    <3> SUFFICES ASSUME i = off[a] + m[a] + 1 PROVE FALSE
      OBVIOUS
    <3>1. chunks[i].parent = <<>>
      BY DEF Layout, WholeOf
    <3> QED BY <1>2, <1>3, <3>1
  <2>3. PICK b \in 1..m[a] : i = off[a] + b
    BY <2>1, <2>2
  <2>4. chunks[i].node = f[a].node
    BY <2>3 DEF Layout, PieceOf
  <2>5. a = k
    BY <1>3, <2>4 DEF Listed
  <2> QED BY <1>1, <2>3, <2>5
<1>4. ASSUME NEW i \in (off[k] + 1)..(off[k] + m[k]) PROVE i \in P
  <2>1. PICK b : b = i - off[k]
    OBVIOUS
  <2>2. b \in 1..m[k] /\ i = off[k] + b
    BY ONLY <1>1, <2>1, i \in (off[k] + 1)..(off[k] + m[k])
  <2>3. i \in DOMAIN chunks /\ chunks[i].parent = f[k].id /\ chunks[i].node = f[k].node
    BY <2>2 DEF Layout, PieceOf
  <2> QED BY <2>3
<1> HIDE DEF P
<1>5. P = (off[k] + 1)..(off[k] + m[k])
  BY <1>3, <1>4
<1> QED BY <1>5 DEF P

\* A long chunk is covered by its pieces.
LEMMA PiecesGiven ==
  ASSUME TreeInv, NEW f, NEW m, NEW off, Listed(f), Layout(f, m, off, chunks)
  PROVE  PiecesCover
<1> SUFFICES ASSUME NEW c \in Whole
             PROVE  LET places == Ascending({i \in DOMAIN chunks : chunks[i].parent = c.id /\ chunks[i].node = c.node})
                        pieces == [k \in DOMAIN places |-> chunks[places[k]]]
                    IN /\ Lines(c) > MAX_CHUNK_LINES <=> pieces # <<>>
                       /\ c.children = [i \in DOMAIN pieces |-> pieces[i].id]
                       /\ pieces # <<>> =>
                             /\ UNION {p.start..p.end : p \in Range(pieces)} = c.start..c.end
                             /\ \A p \in Range(pieces) : Lines(p) <= SUB_CHUNK_WINDOW
  BY DEF PiecesCover
<1> DEFINE places == Ascending({i \in DOMAIN chunks : chunks[i].parent = c.id /\ chunks[i].node = c.node})
           pieces == [k \in DOMAIN places |-> chunks[places[k]]]
<1>1. PICK k \in 1..Len(f) : c = chunks[off[k] + m[k] + 1] /\ WholeOf(c, f[k]) /\ Chunk(f[k])
  BY WholeIs
<1>2. PICK n, o : n = m[k] /\ o = off[k] /\ n \in Nat /\ o \in Nat
  BY DEF Layout
<1>3. places = [i \in 1..n |-> o + i]
  <2>1. c.id = f[k].id /\ c.node = f[k].node
    BY <1>1 DEF WholeOf
  <2>2. {i \in DOMAIN chunks : chunks[i].parent = c.id /\ chunks[i].node = c.node} = (o + 1)..(o + n)
    BY <1>2, <2>1, PiecesAt
  <2> QED BY <1>2, <2>2, AscendingRange
<1> HIDE DEF places
<1>4. pieces = [i \in 1..n |-> chunks[o + i]]
  BY <1>3
<1>5. /\ Lines(f[k]) > MAX_CHUNK_LINES <=> n # 0
      /\ c.children = [i \in 1..n |-> <<"sub", f[k].id, i>>]
      /\ \A i \in 1..n : PieceOf(chunks[o + i], f[k], i)
      /\ n # 0 => \A l \in f[k].start..f[k].end :
                     \E i \in 1..n : chunks[o + i].start <= l /\ l <= chunks[o + i].end
  BY <1>1, <1>2 DEF Layout
<1> HIDE DEF pieces
<1>6. pieces # <<>> <=> n # 0
  <2>1. DOMAIN pieces = 1..n
    BY <1>4
  <2>2. CASE n = 0
    <3>1. pieces = <<>>
      <4>1. 1..0 = {}
        OBVIOUS
      <4> QED BY <1>4, <2>2, <4>1
    <3> QED BY <2>2, <3>1
  <2>3. CASE n # 0
    <3>1. 1 \in DOMAIN pieces
      BY <1>2, <2>1, <2>3
    <3> QED BY <2>3, <3>1
  <2> QED BY <2>2, <2>3
<1>7. c.start = f[k].start /\ c.end = f[k].end /\ Lines(c) = Lines(f[k])
  BY <1>1 DEF WholeOf, Lines
<1>8. c.children = [i \in DOMAIN pieces |-> pieces[i].id]
  <2>1. DOMAIN pieces = 1..n /\ \A i \in 1..n : pieces[i].id = <<"sub", f[k].id, i>>
    BY <1>4, <1>5 DEF PieceOf
  <2> QED BY <1>5, <2>1
<1>9. Range(pieces) = {chunks[o + i] : i \in 1..n}
  BY <1>4 DEF Range
<1>10. \A p \in Range(pieces) : /\ Lines(p) <= SUB_CHUNK_WINDOW /\ p.start \in Nat /\ p.end \in Nat
                                /\ c.start <= p.start /\ p.end <= c.end
  BY <1>5, <1>7, <1>9 DEF PieceOf
<1>11. ASSUME n # 0 PROVE UNION {p.start..p.end : p \in Range(pieces)} = c.start..c.end
  <2> DEFINE U == UNION {p.start..p.end : p \in Range(pieces)}
  <2>1. c.start \in Nat /\ c.end \in Nat
    BY <1>1, <1>7 DEF Chunk, FoundOK
  <2>2. ASSUME NEW l \in U PROVE l \in c.start..c.end
    <3>1. PICK p \in Range(pieces) : l \in p.start..p.end
      OBVIOUS
    <3>2. p.start \in Nat /\ p.end \in Nat /\ c.start <= p.start /\ p.end <= c.end
      BY <1>10
    <3> QED BY ONLY <2>1, <3>1, <3>2
  <2>3. ASSUME NEW l \in c.start..c.end PROVE l \in U
    <3>1. PICK i \in 1..n : chunks[o + i].start <= l /\ l <= chunks[o + i].end
      BY <1>5, <1>7, <1>11
    <3>2. PICK p \in Range(pieces) : p.start <= l /\ l <= p.end
      BY <1>9, <3>1
    <3>3. p.start \in Nat /\ p.end \in Nat
      BY <1>10
    <3>4. l \in p.start..p.end
      BY ONLY <2>1, <3>2, <3>3, l \in c.start..c.end
    <3> QED BY <3>4
  <2> HIDE DEF U
  <2>4. U = c.start..c.end
    BY <2>2, <2>3
  <2> QED BY <2>4 DEF U
<1>12. /\ Lines(c) > MAX_CHUNK_LINES <=> pieces # <<>>
       /\ c.children = [i \in DOMAIN pieces |-> pieces[i].id]
       /\ pieces # <<>> =>
             /\ UNION {p.start..p.end : p \in Range(pieces)} = c.start..c.end
             /\ \A p \in Range(pieces) : Lines(p) <= SUB_CHUNK_WINDOW
  BY <1>5, <1>6, <1>7, <1>8, <1>10, <1>11
<1> QED BY <1>12 DEF pieces, places
-----------------------------------------------------------------------------
(* The steps.                                                              *)

\* What a node is in depends on the tree only.
LEMMA SameLineage ==
  ASSUME tree' = tree PROVE Lineage' = Lineage
BY DEF Lineage

\* What is found depends on the tree and the language only.
LEMMA SameFound ==
  ASSUME tree' = tree, extension' = extension
  PROVE  FoundChunks' = FoundChunks
<1>1. Above' = Above
  BY SameLineage DEF Above
<1>2. lang' = lang
  BY DEF lang
<1>3. \A n, kinds : ancestor_kind(n, kinds)' = ancestor_kind(n, kinds)
  BY <1>1 DEF ancestor_kind
<1>4. \A n : classify_node(n)' = classify_node(n)
  BY <1>2, <1>3 DEF classify_node
<1>5. \A n : qualify_method_name(n)' = qualify_method_name(n)
  BY <1>2, <1>3, <1>4 DEF qualify_method_name, name_of
<1>6. \A n : collect_calls(n)' = collect_calls(n) /\ collect_inherits(n)' = collect_inherits(n)
  BY <1>1, <1>2 DEF collect_calls, CallsIn, collect_inherits
<1>7. Walked' = Walked
  BY <1>1, <1>4 DEF Walked
<1>8. \A n : NodeChunk(n)' = NodeChunk(n)
  BY <1>1, <1>4, <1>5, <1>6, <1>7 DEF NodeChunk
<1>9. walk_for_chunks' = walk_for_chunks
  BY <1>7, <1>8 DEF walk_for_chunks
<1> QED BY <1>9 DEF FoundChunks

\* At first there is no tree.
LEMMA AstStarts == AstInit => AstInv
<1> SUFFICES ASSUME AstInit PROVE AstInv
  OBVIOUS
<1>1. extension \in Extension /\ tree = <<>> /\ chunks = <<>> /\ chunked = FALSE
  BY DEF AstInit
<1>2. tree \in Seq(TreeNode) /\ Len(tree) = 0 /\ DOMAIN tree = {}
  <2> DEFINE H == TreeNode
  <2> HIDE DEF H
  <2>1. tree \in Seq(H) /\ Len(tree) = 0 /\ DOMAIN tree = {}
    BY <1>1
  <2> QED BY <2>1 DEF H
<1>3. MaxNodes \in Nat
  BY AstAssumption
<1>4. \A n \in DOMAIN tree : FALSE
  BY ONLY <1>2
<1>5. TreeInv
  BY ONLY <1>1, <1>2, <1>3, <1>4 DEF TreeInv
<1>6. chunked \in BOOLEAN /\ (chunks = IF chunked THEN split_oversized(FoundChunks) ELSE <<>>)
  BY ONLY <1>1
<1> QED BY ONLY <1>5, <1>6 DEF AstInv

\* The tree stays one when a node is added to it.
LEMMA ParseKeeps ==
  ASSUME AstInv, NEW kind \in Kinds[lang] \cup {"call"}, NEW parent \in 0..Len(tree), NEW symbol \in Symbol,
         NEW first \in DOMAIN Source, NEW bases \in BasesOf(kind), NEW last \in first..Len(Source),
         Parse(kind, parent, symbol, bases, first, last)
  PROVE  AstInv'
<1> DEFINE node == [kind |-> kind, parent |-> parent, symbol |-> symbol, bases |-> bases,
                    first |-> first, last |-> last]
           N == Len(tree)
<1>1. /\ ~chunked /\ N < MaxNodes /\ tree' = Append(tree, node)
      /\ extension' = extension /\ chunks' = chunks /\ chunked' = chunked
  BY DEF Parse
<1>2. TreeInv /\ N \in Nat /\ DOMAIN tree = 1..N /\ chunks = <<>> /\ chunked \in BOOLEAN
  BY <1>1, LineageExists DEF AstInv
<1>3. first \in DOMAIN Source /\ last \in DOMAIN Source /\ first <= last /\ first \in Nat /\ last \in Nat
  <2> DEFINE H == {"x", "nl"}
  <2>1. Source \in Seq(H)
    BY AstAssumption
  <2> HIDE DEF H
  <2> QED BY <2>1
<1>4. parent \in Nat /\ parent < N + 1
  BY <1>2
<1>5. node \in TreeNode
  <2>1. kind \in {"call"} \cup UNION {Kinds[l] : l \in DOMAIN Languages}
    BY <1>2, LangIs
  <2>2. bases \in SUBSET Symbol
    BY DEF BasesOf
  <2> QED BY <1>3, <1>4, <2>1, <2>2 DEF TreeNode
<1> DEFINE H == TreeNode
<1>6. tree \in Seq(H) /\ node \in H
  BY <1>2, <1>5 DEF TreeInv
<1>7. node.parent = parent /\ node.first = first /\ node.last = last
  OBVIOUS
<1> HIDE DEF node, N, H
<1>8. /\ tree' \in Seq(H) /\ Len(tree') = N + 1 /\ DOMAIN tree' = 1..(N + 1)
      /\ tree'[N + 1] = node /\ \A n \in 1..N : tree'[n] = tree[n]
  BY <1>1, <1>2, <1>6 DEF N
<1>9. ASSUME NEW n \in 1..(N + 1)
      PROVE  /\ tree'[n].parent < n /\ tree'[n].first \in DOMAIN Source
             /\ tree'[n].last \in DOMAIN Source /\ tree'[n].first <= tree'[n].last
  <2>1. CASE n = N + 1
    BY <1>3, <1>4, <1>7, <1>8, <2>1
  <2>2. CASE n # N + 1
    <3>1. n \in 1..N
      BY <1>2, <2>2
    <3> QED BY <1>2, <1>8, <3>1 DEF TreeInv
  <2> QED BY <2>1, <2>2
<1>10. N + 1 <= MaxNodes
  BY <1>1, <1>2, AstAssumption
<1>11. TreeInv'
  BY <1>1, <1>2, <1>8, <1>9, <1>10 DEF TreeInv, H
<1> QED BY <1>1, <1>2, <1>11 DEF AstInv

\* Every step keeps what is so of the tree and of what it is cut into.
LEMMA AstKeeps == AstInv /\ [AstNext]_avars => AstInv'
<1> SUFFICES ASSUME AstInv, [AstNext]_avars PROVE AstInv'
  OBVIOUS
<1>1. ASSUME tree' = tree, extension' = extension PROVE TreeInv'
  BY <1>1 DEF AstInv, TreeInv
<1>2. CASE chunk_ast
  <2>1. /\ chunked' = TRUE /\ tree' = tree /\ extension' = extension
        /\ chunks' = split_oversized(FoundChunks)
    BY <1>2 DEF chunk_ast, FoundChunks
  <2>2. FoundChunks' = FoundChunks
    BY <2>1, SameFound
  <2> QED BY <1>1, <2>1, <2>2 DEF AstInv
<1>3. ASSUME NEW kind \in Kinds[lang] \cup {"call"}, NEW parent \in 0..Len(tree), NEW symbol \in Symbol,
             NEW first \in DOMAIN Source, NEW bases \in BasesOf(kind), NEW last \in first..Len(Source),
             Parse(kind, parent, symbol, bases, first, last)
      PROVE  AstInv'
  BY <1>3, ParseKeeps
<1>4. CASE UNCHANGED avars
  <2>1. tree' = tree /\ extension' = extension /\ chunks' = chunks /\ chunked' = chunked
    BY <1>4 DEF avars
  <2>2. FoundChunks' = FoundChunks
    BY <2>1, SameFound
  <2> QED BY <1>1, <2>1, <2>2 DEF AstInv
<1> QED BY <1>2, <1>3, <1>4 DEF AstNext

\* What holds of the tree and of the cutting gives what is said of the chunks.
LEMMA AstGives == AstInv => AstChunksExact
<1> SUFFICES ASSUME AstInv PROVE AstChunksExact
  OBVIOUS
<1>1. TreeInv
  BY DEF AstInv
<1>2. CASE chunked
  <2>1. PICK f : f = FoundChunks
    OBVIOUS
  <2>2. Listed(f) /\ chunks = split_oversized(f)
    BY <1>1, <1>2, <2>1, FoundAre DEF AstInv
  <2>3. PICK m, off : Layout(f, m, off, chunks)
    BY <2>2, LaidOut
  <2>4. AstTypeOK /\ LinesExact /\ PiecesCover /\ AstIdsUnique
    BY <1>1, <2>2, <2>3, TypeGiven, LinesGiven, PiecesGiven, IdsGiven
  <2>5. CallsClaimedOnce /\ FunctionsWhole /\ AllDeclared
    BY <1>1, <2>2, <2>3, FunctionsGiven, DeclaredGiven
  <2> QED BY <2>4, <2>5 DEF AstChunksExact, DeclarationsWhole
<1>3. CASE ~chunked
  <2>1. chunks = <<>>
    BY <1>3 DEF AstInv
  <2>2. DOMAIN chunks = {} /\ Range(chunks) = {} /\ Whole = {} /\ Functions = {}
    BY <2>1 DEF Range, Whole, Functions
  <2>3. AstTypeOK
    BY <1>1, <2>2 DEF AstTypeOK, TreeInv
  <2>4. LinesExact /\ PiecesCover /\ AstIdsUnique /\ CallsClaimedOnce /\ FunctionsWhole /\ AllDeclared
    BY <1>3, <2>2 DEF LinesExact, PiecesCover, AstIdsUnique, CallsClaimedOnce, FunctionsWhole, AllDeclared
  <2> QED BY <2>3, <2>4 DEF AstChunksExact, DeclarationsWhole
<1> QED BY <1>2, <1>3

\* Whatever the tree, the language and the bounds: the lines a chunk names are those its
\* code is on, a long chunk is covered by its pieces, no two chunks have one id when there
\* is a declaration a line, every declaration outside functions is in a chunk, and no call
\* is claimed by two functions (chunk_ast, walk_for_chunks, collect_calls, split_oversized).
THEOREM AstChunksAreExact == AstSpec => []AstChunksExact
BY AstStarts, AstKeeps, AstGives, PTL DEF AstSpec
==============================================================================
