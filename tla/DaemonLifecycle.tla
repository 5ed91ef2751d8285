--------------------------- MODULE DaemonLifecycle ---------------------------
(***************************************************************************)
(* Starting, finding and stopping the daemon. A `start --foreground' goes  *)
(* through the pid check, the reaping of orphans, the flock on             *)
(* daemon.lock, the port walk and the discovery files before it serves;    *)
(* `stop' and the reaping send SIGTERM, wait, and send SIGKILL; a command  *)
(* resolves the address, probes it and starts a daemon if there is none.   *)
(* All of them are processes that see each other only through the files,   *)
(* the flock, the process table and the ports.                             *)
(*                                                                         *)
(* Each process of Proc runs once; pids are not used again. A flock is on  *)
(* the inode a process opened, not on the name, which others unlink.       *)
(***************************************************************************)
EXTENDS Naturals, FiniteSets

CONSTANTS Proc,      \* the `start --foreground' processes there will be
          Stopper,   \* `stop' commands
          Client,    \* commands that need the daemon
          MaxPort,   \* ports 1 (the default), ..., MaxPort
          MaxForeign,\* bound on another program's taking and leaving a port
          MaxKills   \* bound on SIGKILLs from outside, power failures included

None == 0
Port == 1..MaxPort
Inode == 1..(Cardinality(Proc) + 2)
NoPid == "nopid"

ASSUME DaemonAssumption ==
    /\ IsFiniteSet(Proc) /\ MaxPort \in Nat \ {0} /\ MaxForeign \in Nat
    /\ MaxKills \in Nat /\ NoPid \notin Proc /\ Proc \cap Stopper = {}

VARIABLES
    phase,     \* of each process
    file,      \* inode each process has open as its lock file
    flock,     \* inode to the process that holds the lock on it
    pidIn,     \* inode to the pid written in it
    lock,      \* the inode called daemon.lock, None if there is no such file
    listening, \* port each process accepts connections on
    portFile, addrFile,   \* daemon.port and http_addr
    targets,   \* what each process or `stop' is about to terminate
    streams,   \* processes with an open event stream
    stop,      \* phase of each `stop'
    client, base,         \* phase of each client, and the port it polls
    kills,
    foreign, changes,  \* ports other programs listen on
    \* history
    overlap,   \* two processes have been between their pid check and serving
    robbed     \* a `stop' has removed the port file of a daemon it did not stop

process == <<phase, file, listening, streams>>
lockfile == <<flock, pidIn, lock>>
discovery == <<portFile, addrFile>>
commands == <<stop, client, base>>
world == <<kills, foreign, changes, overlap, robbed>>
vars == <<process, lockfile, discovery, targets, commands, world>>

Booting == {"scan", "reap", "open", "try", "stale", "retry", "last", "pid", "bind",
            "portfile", "addrfile"}
Ending == {"drain", "flush", "unport", "unaddr"}
Phase == {"off", "check", "serving", "dead"} \cup Booting \cup Ending

Alive(p) == phase[p] \notin {"off", "dead"}
pid_alive(pid) == pid # NoPid /\ Alive(pid)
Serving == {p \in Proc : phase[p] = "serving"}
Reachable(port) == port \in foreign \/ \E p \in Proc : listening[p] = port
Healthy(port) == \E p \in Serving : listening[p] = port
Goto(p, label) == phase' = [phase EXCEPT ![p] = label]

DaemonTypeOK ==
    /\ phase \in [Proc -> Phase] /\ file \in [Proc -> Inode \cup {None}]
    /\ flock \in [Inode -> Proc \cup {NoPid}] /\ pidIn \in [Inode -> Proc \cup {NoPid}]
    /\ \A k \in Inode : flock[k] # NoPid => Alive(flock[k]) /\ file[flock[k]] = k
    /\ lock \in Inode \cup {None}
    /\ portFile \in Port \cup {None} /\ addrFile \in Port \cup {None}
    /\ \A p, q \in Proc : p # q /\ listening[p] # None => listening[p] # listening[q]
    /\ \A p \in Proc : listening[p] \notin foreign
    /\ stop \in [Stopper -> {"idle", "wait", "killed", "done"}]
    /\ client \in [Client -> {"idle", "refresh", "probe", "poll", "ok", "failed"}]
    /\ targets \in [Proc \cup Stopper -> SUBSET Proc]

Init ==
    /\ phase = [p \in Proc |-> "off"] /\ file = [p \in Proc |-> None]
    /\ flock = [k \in Inode |-> NoPid] /\ pidIn = [k \in Inode |-> NoPid] /\ lock = None
    /\ listening = [p \in Proc |-> None] /\ portFile = None /\ addrFile = None
    /\ targets = [t \in Proc \cup Stopper |-> {}] /\ streams = {}
    /\ stop = [s \in Stopper |-> "idle"]
    /\ client = [c \in Client |-> "idle"] /\ base = [c \in Client |-> None]
    /\ kills = 0 /\ foreign = {} /\ changes = 0 /\ overlap = FALSE /\ robbed = FALSE

-----------------------------------------------------------------------------
(* Signals. When a process ends the kernel closes its sockets and its flock.  *)

\* Others move as `next' says, but those of `ends' end and those of `drains' stop
\* listening.
Signalled(next, ends, drains) ==
    /\ phase' = [p \in Proc |-> IF p \in ends THEN "dead"
                                ELSE IF p \in drains THEN "drain" ELSE next[p]]
    /\ listening' = [p \in Proc |-> IF p \in ends \cup drains THEN None ELSE listening[p]]
    /\ flock' = [k \in Inode |-> IF flock[k] \in ends THEN NoPid ELSE flock[k]]
    /\ file' = [p \in Proc |-> IF p \in ends THEN None ELSE file[p]]
    /\ streams' = streams \ ends
    /\ UNCHANGED pidIn

\* SIGTERM ends a process that has not installed its handler yet, begins the
\* shutdown of one that serves, and does nothing to one that is shutting down.
Term(next, ps) ==
    Signalled(next, {p \in ps : phase[p] \in Booting \cup {"check"}}, ps \cap Serving)

\* SIGKILL
Kill(next, ps) == Signalled(next, {p \in ps : Alive(p)}, {})

Exit(p) == Signalled(phase, {p}, {})

\* A SIGKILL from elsewhere or a power failure hits a process at any point.
Killed ==
    \E p \in Proc :
        /\ Alive(p) /\ kills < MaxKills
        /\ kills' = kills + 1
        /\ Exit(p)
        /\ UNCHANGED <<lock, discovery, targets, commands, foreign, changes, overlap, robbed>>

\* Another program takes a port, or leaves it.
OtherProgram ==
    \E port \in Port :
        /\ changes < MaxForeign /\ changes' = changes + 1
        /\ \/ ~Reachable(port) /\ foreign' = foreign \cup {port}
           \/ port \in foreign /\ foreign' = foreign \ {port}
        /\ UNCHANGED <<process, lockfile, discovery, targets, commands, kills, overlap,
                       robbed>>

-----------------------------------------------------------------------------
(* start --foreground                                                        *)

\* By hand, by a supervisor, or by a client.
Start(p) ==
    /\ phase[p] = "off"
    /\ Goto(p, "check")
    /\ UNCHANGED <<file, listening, streams, lockfile, discovery, targets, commands,
                   world>>

Checked(p) ==
    /\ phase[p] = "check"
    /\ overlap' = (overlap \/ \E q \in Proc \ {p} : phase[q] \in Booting)
    /\ UNCHANGED <<lock, discovery, targets, commands, kills, foreign, changes, robbed>>

\* running_daemon_pid: the lock file names a process that is alive.
PidCheck(p) ==
    /\ Checked(p)
    /\ IF lock # None /\ pid_alive(pidIn[lock]) THEN Exit(p)
       ELSE Goto(p, "scan") /\ UNCHANGED <<file, listening, streams, flock, pidIn>>

\* Every other process that has `start' among its arguments, those that are still
\* booting too. The table is not read at one moment, and a process whose arguments
\* it does not tell is missed.
find_daemon_pids(me) == SUBSET {q \in Proc : q # me /\ Alive(q)}

Scan(p) ==
    /\ phase[p] = "scan"
    /\ \E orphans \in find_daemon_pids(p) :
          IF orphans = {}
          THEN Goto(p, "open") /\ UNCHANGED <<file, listening, streams, flock, pidIn, targets>>
          ELSE /\ targets' = [targets EXCEPT ![p] = orphans]
               /\ Term([phase EXCEPT ![p] = "reap"], orphans)
    /\ UNCHANGED <<lock, discovery, commands, world>>

\* All gone, or three seconds have passed and SIGKILL makes them go. Lock and port
\* file are removed, whosever they are by now.
Reap(p) ==
    /\ phase[p] = "reap"
    /\ Kill([phase EXCEPT ![p] = "open"], targets[p])
    /\ lock' = None /\ portFile' = None
    /\ targets' = [targets EXCEPT ![p] = {}]
    /\ UNCHANGED <<addrFile, commands, world>>

\* acquire_lock opens or creates the file, ...
OpenLock(p) ==
    /\ phase[p] \in {"open", "retry"}
    /\ LET k == IF lock # None THEN lock
                ELSE CHOOSE j \in Inode : \A q \in Proc : file[q] # j
       IN /\ lock' = k /\ file' = [file EXCEPT ![p] = k]
          /\ pidIn' = IF lock = None THEN [pidIn EXCEPT ![k] = NoPid] ELSE pidIn
    /\ Goto(p, IF phase[p] = "open" THEN "try" ELSE "last")
    /\ UNCHANGED <<flock, listening, streams, discovery, targets, commands, world>>

\* ... tries to lock what it opened, the second time for the last time ...
TryLock(p) ==
    /\ phase[p] \in {"try", "last"}
    /\ IF flock[file[p]] = NoPid
       THEN /\ flock' = [flock EXCEPT ![file[p]] = p]
            /\ Goto(p, "pid") /\ UNCHANGED <<file, listening, streams, pidIn>>
       ELSE IF phase[p] = "try"
       THEN Goto(p, "stale") /\ UNCHANGED <<file, listening, streams, flock, pidIn>>
       ELSE Exit(p)
    /\ UNCHANGED <<lock, discovery, targets, commands, world>>

\* ... and if somebody else has the lock but the pid in the file is of a process
\* that is dead, removes the file and starts again.
Stale(p) ==
    /\ phase[p] = "stale"
    /\ IF lock # None /\ pidIn[lock] # NoPid /\ ~pid_alive(pidIn[lock])
       THEN /\ Goto(p, "retry") /\ file' = [file EXCEPT ![p] = None]
            /\ lock' = None
            /\ UNCHANGED <<listening, streams, flock, pidIn>>
       ELSE Exit(p) /\ UNCHANGED lock
    /\ UNCHANGED <<discovery, targets, commands, world>>

WritePid(p) ==
    /\ phase[p] = "pid"
    /\ pidIn' = [pidIn EXCEPT ![file[p]] = p]
    /\ Goto(p, "bind")
    /\ UNCHANGED <<file, listening, streams, flock, lock, discovery, targets, commands,
                   world>>

\* bind_with_auto_port: the first port from the default that nobody listens on.
Bind(p) ==
    /\ phase[p] = "bind"
    /\ LET free == {port \in Port : ~Reachable(port)}
       IN IF free = {} THEN Exit(p)
          ELSE /\ listening' = [listening EXCEPT ![p] =
                     CHOOSE port \in free : \A other \in free : port <= other]
               /\ Goto(p, "portfile") /\ UNCHANGED <<file, streams, flock, pidIn>>
    /\ UNCHANGED <<lock, discovery, targets, commands, world>>

WritePortFile(p) ==
    /\ phase[p] = "portfile"
    /\ portFile' = listening[p]
    /\ Goto(p, "addrfile")
    /\ UNCHANGED <<file, listening, streams, lockfile, addrFile, targets, commands,
                   world>>

\* http_addr is best-effort; then the daemon serves.
WriteAddrFile(p) ==
    /\ phase[p] = "addrfile"
    /\ addrFile' = listening[p]
    /\ Goto(p, "serving")
    /\ UNCHANGED <<file, listening, streams, lockfile, portFile, targets, commands,
                   world>>

\* A dashboard opens or closes its event stream.
Stream ==
    \E p \in Proc :
        /\ \/ phase[p] = "serving" /\ p \notin streams /\ streams' = streams \cup {p}
           \/ p \in streams /\ streams' = streams \ {p}
        /\ UNCHANGED <<phase, file, listening, lockfile, discovery, targets, commands,
                       world>>

\* The graceful shutdown waits for the responses under way; an event stream has no
\* end of its own.
Drained(p) ==
    /\ phase[p] = "drain" /\ p \notin streams
    /\ Goto(p, "flush")
    /\ UNCHANGED <<file, listening, streams, lockfile, discovery, targets, commands,
                   world>>

\* flush_all_indexes_on_shutdown, which SnapshotFiles models.
Flush(p) ==
    /\ phase[p] = "flush"
    /\ Goto(p, "unport")
    /\ UNCHANGED <<file, listening, streams, lockfile, discovery, targets, commands,
                   world>>

RemovePortFile(p) ==
    /\ phase[p] = "unport"
    /\ portFile' = None
    /\ Goto(p, "unaddr")
    /\ UNCHANGED <<file, listening, streams, lockfile, addrFile, targets, commands,
                   world>>

RemoveAddrFile(p) ==
    /\ phase[p] = "unaddr"
    /\ addrFile' = None
    /\ Exit(p)
    /\ UNCHANGED <<lock, portFile, targets, commands, world>>

-----------------------------------------------------------------------------
(* stop                                                                      *)

\* The pid in the lock file, dead or alive, and every daemon in the process table.
StopTerm(s) ==
    /\ stop[s] = "idle"
    /\ \E found \in find_daemon_pids(s) :
          LET primary == IF lock = None THEN {} ELSE {pidIn[lock]} \ {NoPid}
              all == found \cup primary
          IN /\ all # {}
             /\ targets' = [targets EXCEPT ![s] = all]
             /\ Term(phase, all)
    /\ stop' = [stop EXCEPT ![s] = "wait"]
    /\ UNCHANGED <<lock, discovery, client, base, world>>

StopSeen(s) ==
    /\ stop[s] = "wait"
    /\ \A p \in targets[s] : ~Alive(p)
    /\ portFile = None
    /\ stop' = [stop EXCEPT ![s] = "done"]
    /\ UNCHANGED <<process, lockfile, discovery, targets, client, base, world>>

\* Mutant: the stragglers get a second SIGTERM.
StopTermAgain(s) ==
    /\ stop[s] = "wait"
    /\ Term(phase, targets[s])
    /\ stop' = [stop EXCEPT ![s] = "killed"]
    /\ UNCHANGED <<lock, discovery, targets, client, base, world>>

\* Five seconds have passed.
StopKill(s) ==
    /\ stop[s] = "wait"
    /\ Kill(phase, targets[s])
    /\ stop' = [stop EXCEPT ![s] = "killed"]
    /\ UNCHANGED <<lock, discovery, targets, client, base, world>>

\* The port file of a daemon that was killed; by now it may be of another one.
StopCleanup(s) ==
    /\ stop[s] = "killed"
    /\ portFile' = IF \E p \in targets[s] : Alive(p) THEN portFile ELSE None
    /\ robbed' = (robbed \/ (portFile' # portFile /\ \E p \in Proc : listening[p] = portFile))
    /\ stop' = [stop EXCEPT ![s] = "done"]
    /\ UNCHANGED <<process, lockfile, addrFile, targets, client, base, kills, foreign,
                   changes, overlap>>

-----------------------------------------------------------------------------
(* A command: daemon_base_url, then ensure_daemon_running.                    *)

\* The port file's port, or the default.
Fallback == IF portFile # None THEN portFile ELSE 1

\* Mutant: http_addr is believed.
BaseUrlTrusting == IF addrFile # None THEN addrFile ELSE Fallback

\* http_addr if somebody answers there.
BaseUrl == IF addrFile # None /\ Reachable(addrFile) THEN addrFile ELSE Fallback

Resolve(c) ==
    /\ client[c] = "idle"
    /\ base' = [base EXCEPT ![c] = BaseUrl]
    /\ client' = [client EXCEPT ![c] = IF BaseUrl # addrFile /\ Reachable(BaseUrl)
                                      THEN "refresh" ELSE "probe"]
    /\ UNCHANGED <<process, lockfile, discovery, targets, stop, world>>

\* A fallback that answered goes into http_addr, whatever is written there by now.
Refresh(c) ==
    /\ client[c] = "refresh"
    /\ addrFile' = base[c]
    /\ client' = [client EXCEPT ![c] = "probe"]
    /\ UNCHANGED <<process, lockfile, portFile, targets, stop, base, world>>

\* Healthy: done. No process named in the lock file: a daemon is started. Either way
\* the client polls the address it resolved at first.
Probe(c) ==
    /\ client[c] = "probe"
    /\ IF Healthy(base[c])
       THEN client' = [client EXCEPT ![c] = "ok"] /\ UNCHANGED phase
       ELSE /\ client' = [client EXCEPT ![c] = "poll"]
            /\ IF (lock # None /\ pid_alive(pidIn[lock])) \/ \A p \in Proc : phase[p] # "off"
               THEN UNCHANGED phase
               ELSE \E p \in Proc : phase[p] = "off" /\ Goto(p, "check")
    /\ UNCHANGED <<file, listening, streams, lockfile, discovery, targets, stop, base,
                   world>>

Poll(c) ==
    /\ client[c] = "poll"
    /\ client' = [client EXCEPT ![c] = IF Healthy(base[c]) THEN "ok" ELSE "failed"]
    /\ UNCHANGED <<process, lockfile, discovery, targets, stop, base, world>>

-----------------------------------------------------------------------------
Boot(p) ==
    \/ PidCheck(p) \/ Scan(p) \/ Reap(p) \/ OpenLock(p) \/ TryLock(p) \/ Stale(p)
    \/ WritePid(p) \/ Bind(p) \/ WritePortFile(p) \/ WriteAddrFile(p)
Shutdown(p) == Drained(p) \/ Flush(p) \/ RemovePortFile(p) \/ RemoveAddrFile(p)
Stop(s) == StopTerm(s) \/ StopSeen(s) \/ StopKill(s) \/ StopCleanup(s)
Command(c) == Resolve(c) \/ Refresh(c) \/ Probe(c) \/ Poll(c)

Next ==
    \/ \E p \in Proc : Start(p) \/ Boot(p) \/ Shutdown(p)
    \/ \E s \in Stopper : Stop(s)
    \/ \E c \in Client : Command(c)
    \/ Killed \/ Stream \/ OtherProgram

\* Processes run; a `stop' that has begun goes on. No dashboard has to be closed.
Fairness ==
    /\ \A p \in Proc : WF_vars(Boot(p)) /\ WF_vars(Shutdown(p))
    /\ \A s \in Stopper : WF_vars(StopSeen(s) \/ StopKill(s) \/ StopCleanup(s))

Spec == Init /\ [][Next]_vars /\ Fairness

-----------------------------------------------------------------------------
(* Properties.                                                             *)

\* "Only one daemon may run per machine" (daemon.rs:6): as long as no two starts are
\* under way at the same time, whatever is killed or stopped meanwhile, one process
\* at most is past the lock, and the lock file is the one it has locked and names it,
\* so that `stop' and the next start find it.
Singleton ==
    ~overlap =>
        \A p \in Proc : phase[p] \in {"bind", "portfile", "addrfile", "serving"} \cup Ending =>
            /\ lock = file[p] /\ flock[lock] = p /\ pidIn[lock] = p
            /\ \A q \in Proc \ {p} : ~(phase[q] \in Booting \cup {"serving"} \cup Ending)

Quiet ==
    /\ \A p \in Proc : phase[p] \in {"off", "serving", "dead"}
    /\ \A s \in Stopper : stop[s] \in {"idle", "done"}

\* A daemon that serves is found: when no start or stop is under way, a command that
\* resolves the address now gets one that a daemon serves, whatever stale files kills
\* left and whatever ports the daemons before it had; unless another program answers,
\* or a `stop' took the port file of a daemon started behind its back.
Discoverable ==
    Quiet /\ Serving # {} /\ ~overlap /\ ~robbed /\ foreign = {} => Healthy(BaseUrl)

\* One daemon, which the lock file names and its clients find.
DaemonSound == DaemonTypeOK /\ Singleton /\ Discoverable

\* `stop' ends, and none of what it set out to stop is alive then, although a daemon
\* with an open event stream never ends by itself.
StopStops ==
    \A s \in Stopper, p \in Proc :
        (p \in targets[s]) ~> (stop[s] = "done" /\ ~Alive(p))
=============================================================================
