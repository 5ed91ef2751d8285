------------------------------ MODULE Conversion ------------------------------
(***************************************************************************)
(* `convert' and the index phase of `migrate' find the projects of another *)
(* tool, register each with the daemon and queue a reindex of it, several  *)
(* at a time. Other clients create and delete indexes meanwhile, runs      *)
(* abort at the memory limit, replies are lost, the daemon dies, and the   *)
(* next one restores from indexes.toml, which knows what was created but   *)
(* not which roots were overridden.                                        *)
(***************************************************************************)
EXTENDS Naturals, FiniteSets

CONSTANTS Project,        \* a project is named by its root
          Unreadable,     \* projects whose config.json does not parse
          Elsewhere,      \* the root of an index that is none of theirs
          NameOf(_),      \* lower case, blanks replaced: not injective
          Concurrency,    \* what the user may ask for
          MaxOthers, MaxLosses

Names == {NameOf(p) : p \in Project}

ASSUME ConversionAssumption ==
    /\ IsFiniteSet(Project) /\ Unreadable \subseteq Project
    /\ Concurrency \subseteq Nat /\ MaxLosses \in Nat

VARIABLES
    roots,      \* the daemon's indexes, to their roots
    recorded,   \* the same in indexes.toml
    left,       \* the entries that the start has still to restore
    building,   \* the one of these that it found missing and builds
    serving,    \* "up" or "down"
    model,      \* the embedder: "loading", "ready" or "failed"
    cooling,    \* indexes whose last run aborted, within the cooldown
    accepted,   \* the runs queued for the command, as name and root
    job,        \* the command that runs
    task,       \* of each project
    touched,    \* indexes that others created or deleted meanwhile
    steady,     \* the daemon has had its indexes since the command began
    others, losses

restore == <<left, building>>
service == <<serving, model, cooling>>
server == <<roots, recorded, restore, service>>
tasks == <<job, task, accepted>>
convvars == <<server, tasks, touched, steady, others, losses>>

NoTask == [at |-> "none"]
NoJob == [at |-> "none"]

Empty == [n \in {} |-> Elsewhere]
Without(f, n) == [m \in DOMAIN f \ {n} |-> f[m]]
With(f, n, root) == [m \in DOMAIN f \cup {n} |-> IF m = n THEN root ELSE f[m]]
MayHave(known) == {f \in [known -> Project \cup {Elsewhere}] :
                      \A n \in known : f[n] = Elsewhere \/ NameOf(f[n]) = n}

\* The indexes are there when the embedder is.
ConversionInit ==
    /\ \E known \in SUBSET Names :
           /\ recorded \in MayHave(known)
           /\ \/ model = "ready" /\ roots \in MayHave(known)
              \/ model = "loading" /\ roots = Empty
    /\ serving = "up" /\ cooling = {} /\ left = Empty /\ building = {}
    /\ accepted = {} /\ job = NoJob /\ task = [p \in Project |-> NoTask]
    /\ touched = {} /\ steady = FALSE /\ others = 0 /\ losses = 0

------------------------------------------------------------------------------
(* The command.                                                            *)

Begin(projects, permits, dry) ==
    /\ job' = [at |-> "running", permits |-> permits, dry |-> dry, projects |-> projects,
               roots |-> roots, recorded |-> recorded, queued |-> 0, already |-> 0, dry_runs |-> 0, failed |-> 0]
    /\ task' = [p \in Project |-> IF p \in projects THEN [at |-> "waiting"] ELSE NoTask]
    /\ steady' = (serving = "up" /\ model # "loading" /\ left = Empty)

\* The project of the current directory, which is read before a dry run is looked at.
handle_convert_project ==
    \E p \in Project, dry \in BOOLEAN : serving = "up" /\ Begin({p}, 1, dry)

handle_convert_all ==
    \E n \in Concurrency, dry \in BOOLEAN :
        serving = "up" /\ Begin(Project, IF n > 1 THEN n ELSE 1, dry)

\* One after the other; a dry run does not ask for the daemon.
run_index_phase == \E dry \in BOOLEAN : (dry \/ serving = "up") /\ Begin(Project, 1, dry)

StartConversion ==
    /\ job = NoJob
    /\ handle_convert_project \/ handle_convert_all \/ run_index_phase
    /\ UNCHANGED <<server, accepted, touched, others, losses>>

Asking == {p \in Project : task[p].at \in {"create", "build", "save", "lost", "reindex"}}
Ended(p, status) == task' = [task EXCEPT ![p] = [at |-> "done", status |-> status]]
Quiet == UNCHANGED <<job, touched, steady, others, restore, service>>

\* With a permit: the configuration is read, and convert_one begins.
TakePermit(p) ==
    /\ task[p].at = "waiting" /\ Cardinality(Asking) < job.permits
    /\ IF p \in Unreadable THEN Ended(p, "Failed")
       ELSE IF job.dry THEN Ended(p, "DryRun") ELSE task' = [task EXCEPT ![p] = [at |-> "create"]]
    /\ Quiet /\ UNCHANGED <<roots, recorded, accepted, losses>>

\* The reply to the create, which may be lost, or its body: then it was created.
Created(p, fresh) ==
    \/ /\ task' = [task EXCEPT ![p] = [at |-> "reindex", already |-> ~fresh]]
       /\ UNCHANGED losses
    \/ /\ losses < MaxLosses /\ losses' = losses + 1
       /\ \/ task' = [task EXCEPT ![p] = [at |-> "reindex", already |-> FALSE]]
          \/ Ended(p, "Failed")

\* create_index_handler looks for the id, and goes on after it has awaited the build.
CreateAsked(p) ==
    /\ task[p].at = "create" /\ serving = "up"
    /\ IF NameOf(p) \in DOMAIN roots THEN Created(p, FALSE)
       ELSE /\ IF model = "ready" THEN task' = [task EXCEPT ![p] = [at |-> "build"]]
               ELSE Ended(p, "Failed")
            /\ UNCHANGED losses
    /\ Quiet /\ UNCHANGED <<roots, recorded, accepted>>

\* upsert_index_registry_entry: the file is read
CreateLoads(p) ==
    /\ task[p].at = "build"
    /\ task' = [task EXCEPT ![p] = [at |-> "save", loaded |-> recorded]]
    /\ Quiet /\ UNCHANGED <<roots, recorded, accepted, losses>>

\* and written, which may fail; then the index is registered, and the reply sent.
CreateRegisters(p) ==
    /\ task[p].at = "save"
    /\ roots' = With(roots, NameOf(p), p)
    /\ \/ recorded' = With(task[p].loaded, NameOf(p), p) /\ Created(p, TRUE)
       \/ /\ losses < MaxLosses /\ losses' = losses + 1 /\ UNCHANGED recorded
          /\ task' = [task EXCEPT ![p] = [at |-> "reindex", already |-> FALSE]]
    /\ Quiet /\ UNCHANGED accepted

\* Mutant: a root that is known stays.
OverrideUnknown(p) == roots
\* reindex_handler registers the index again when the root it is given differs; the
\* file keeps the root it has.
Override(p) == [roots EXCEPT ![NameOf(p)] = p]

\* Refused for an index that is gone or cooling down, or queued; the reply may be lost.
ReindexAsked(p) ==
    /\ task[p].at = "reindex" /\ serving = "up"
    /\ IF NameOf(p) \notin DOMAIN roots \/ NameOf(p) \in cooling
       THEN Ended(p, "Failed") /\ UNCHANGED <<roots, accepted, losses>>
       ELSE /\ roots' = Override(p)
            /\ accepted' = accepted \cup {<<NameOf(p), roots'[NameOf(p)]>>}
            /\ \/ /\ Ended(p, IF task[p].already THEN "AlreadyRegistered" ELSE "Queued")
                  /\ UNCHANGED losses
               \/ losses < MaxLosses /\ losses' = losses + 1 /\ Ended(p, "Failed")
    /\ Quiet /\ UNCHANGED recorded

\* A request that fails, or that the daemon died over or is not there for, ends the
\* project; axum drops the handler of a client that is gone.
RequestFails(p) ==
    /\ p \in Asking
    /\ \/ (serving = "down" \/ task[p].at = "lost") /\ UNCHANGED losses
       \/ task[p].at # "save" /\ losses < MaxLosses /\ losses' = losses + 1
    /\ Ended(p, "Failed")
    /\ Quiet /\ UNCHANGED <<roots, recorded, accepted>>

AllDone == \A p \in job.projects : task[p].at = "done"
HowMany(status) == Cardinality({p \in job.projects : task[p].status = status})
Summary ==
    /\ job.at = "running" /\ AllDone
    /\ job' = [job EXCEPT !.at = "done", !.queued = HowMany("Queued"),
                          !.already = HowMany("AlreadyRegistered"),
                          !.dry_runs = HowMany("DryRun"), !.failed = HowMany("Failed")]
    /\ UNCHANGED <<server, task, accepted, touched, steady, others, losses>>

------------------------------------------------------------------------------
(* The daemon and its other clients.                                       *)

Other == others < MaxOthers /\ others' = others + 1

OthersCreate(n) ==
    /\ Other /\ serving = "up" /\ n \notin DOMAIN roots /\ model = "ready"
    /\ roots' = With(roots, n, Elsewhere) /\ recorded' = With(recorded, n, Elsewhere)
    /\ touched' = touched \cup {n}
    /\ UNCHANGED <<restore, service, tasks, steady, losses>>

OthersDelete(n) ==
    /\ Other /\ serving = "up" /\ n \in DOMAIN roots
    /\ roots' = Without(roots, n) /\ recorded' = Without(recorded, n)
    /\ touched' = touched \cup {n}
    /\ UNCHANGED <<restore, service, tasks, steady, losses>>

\* A run aborts, or the cooldown of one is over.
Cools(n) ==
    /\ Other /\ serving = "up" /\ n \in DOMAIN roots
    /\ cooling' = IF n \in cooling THEN cooling \ {n} ELSE cooling \cup {n}
    /\ UNCHANGED <<roots, recorded, restore, serving, model, tasks, touched, steady, losses>>

\* With its memory go the indexes, the cooldowns and the requests it was working on.
DaemonDies ==
    /\ Other /\ serving = "up" /\ serving' = "down"
    /\ roots' = Empty /\ left' = Empty /\ building' = {} /\ cooling' = {} /\ steady' = FALSE
    /\ task' = [p \in Project |-> IF task[p].at \in {"build", "save"} THEN [at |-> "lost"] ELSE task[p]]
    /\ UNCHANGED <<recorded, model, job, accepted, touched, losses>>

DaemonStarts ==
    /\ serving = "down" /\ serving' = "up" /\ model' = "loading"
    /\ UNCHANGED <<roots, recorded, restore, cooling, tasks, touched, steady, others, losses>>

\* The embedder is there, and restore_indexes reads the file, if it can; or there is none.
EmbedderEnds ==
    /\ serving = "up" /\ model = "loading"
    /\ \/ model' = "ready" /\ left' = recorded /\ UNCHANGED losses
       \/ /\ model' = "ready" /\ losses < MaxLosses /\ losses' = losses + 1
          /\ UNCHANGED left
       \/ model' = "failed" /\ UNCHANGED <<left, losses>>
    /\ UNCHANGED <<roots, recorded, building, serving, cooling, tasks, touched, steady, others>>

\* One entry after the other: a create may have been ahead of the restore, which looks
RestoreLooks(n) ==
    /\ n \in DOMAIN left /\ building = {}
    /\ IF n \in DOMAIN roots THEN left' = Without(left, n) /\ UNCHANGED building
       ELSE building' = {n} /\ UNCHANGED left
    /\ UNCHANGED <<roots, recorded, service, tasks, touched, steady, others, losses>>

\* before it builds, and registers what it built in any case.
RestoreRegisters(n) ==
    /\ n \in building /\ building' = {}
    /\ roots' = With(roots, n, left[n]) /\ left' = Without(left, n)
    /\ UNCHANGED <<recorded, service, tasks, touched, steady, others, losses>>

ConversionNext ==
    \/ StartConversion \/ Summary
    \/ DaemonDies \/ DaemonStarts \/ EmbedderEnds
    \/ \E n \in Names : \/ OthersCreate(n) \/ OthersDelete(n) \/ Cools(n)
                        \/ RestoreLooks(n) \/ RestoreRegisters(n)
    \/ \E p \in Project : \/ TakePermit(p) \/ CreateAsked(p) \/ CreateLoads(p)
                          \/ CreateRegisters(p) \/ ReindexAsked(p) \/ RequestFails(p)
ConversionSpec == ConversionInit /\ [][ConversionNext]_convvars

------------------------------------------------------------------------------
(* Properties.                                                             *)

Reported(p) == task[p].at = "done" /\ task[p].status \in {"Queued", "AlreadyRegistered"}
Shared(p) == \E q \in Project \ {p} : NameOf(q) = NameOf(p)

\* The bound the user gives holds for the requests, which the daemon gets.
Bounded == job.at = "running" => Cardinality(Asking) <= job.permits

\* A project that is reported queued was given a run of its own root, and its index has
\* that root while the daemon lives, unless another project or client takes the name. Once
\* the daemon has restarted, or restores meanwhile, the index may have the root again that
\* indexes.toml had before, and no other: one that had none there has its own.
FileHad(n) == {job.recorded[m] : m \in {n} \cap DOMAIN job.recorded}
QueuedForItsRoot ==
    \A p \in Project : LET n == NameOf(p) IN
        Reported(p) =>
            /\ <<n, p>> \in accepted
            /\ ~Shared(p) /\ n \notin touched =>
                   /\ steady => n \in DOMAIN roots /\ roots[n] = p
                   /\ n \in DOMAIN roots => roots[n] \in {p} \cup FileHad(n)
                   /\ n \in DOMAIN recorded => recorded[n] \in {p} \cup FileHad(n)

\* A project that nobody asked for, and every project of a dry run, is left alone: it
\* gets no index, no entry in the file and no other root, but the one of its entry.
Had(n) == {job.roots[m] : m \in {n} \cap DOMAIN job.roots}
NothingElse ==
    job # NoJob =>
        /\ \A n \in Names \ touched :
               (job.dry \/ \A p \in job.projects \ Unreadable : NameOf(p) # n)
               => /\ steady => /\ n \in DOMAIN roots <=> n \in DOMAIN job.roots
                               /\ n \in DOMAIN roots => roots[n] = job.roots[n]
                  /\ n \in DOMAIN roots => roots[n] \in FileHad(n) \cup Had(n)
                  /\ n \in DOMAIN recorded => recorded[n] \in FileHad(n)
        /\ \A run \in accepted : ~job.dry /\ run[2] \in job.projects

\* No project is missing from the summary, and one that was registered before is said to
\* be, by a daemon that has its indexes.
SummaryAddsUp ==
    job.at = "done" =>
        /\ job.queued + job.already + job.dry_runs + job.failed = Cardinality(job.projects)
        /\ job.failed >= Cardinality(job.projects \cap Unreadable)
        /\ \A p \in job.projects : LET n == NameOf(p) IN
               n \notin touched =>
                   /\ task[p].status = "AlreadyRegistered" /\ ~Shared(p)
                      => n \in DOMAIN job.roots \cup DOMAIN job.recorded
                   /\ task[p].status = "Queued" /\ losses = 0 /\ steady
                      => n \notin DOMAIN job.roots

\* What `convert' reports of many projects at a time is what the daemon was asked to do.
ConversionSound == Bounded /\ QueuedForItsRoot /\ NothingElse /\ SummaryAddsUp

\* Refuted: convert.rs:116 derives a name from the last part of the root, and two projects
\* may have the same: both are reported queued, and one index is left.
OneIndexEach ==
    job.at = "done" /\ touched = {} /\ steady =>
        \A p \in Project : Reported(p) => roots[NameOf(p)] = p

\* Refuted: server.rs:1626 registers the index again with the root that the request has,
\* without the entry that "a daemon restart can re-register" (server.rs:729).
RootSurvives ==
    \A p \in Project : LET n == NameOf(p) IN
        Reported(p) /\ ~Shared(p) /\ n \in DOMAIN roots \ touched => roots[n] = p

\* Refuted: a command that runs while the daemon restores is told "created" of an index
\* that was registered before, and reports it as queued for the first time.
RegisteredBeforeSaid ==
    job.at = "done" /\ losses = 0 =>
        \A p \in job.projects : LET n == NameOf(p) IN
            task[p].status = "Queued" /\ n \notin touched => n \notin DOMAIN job.recorded
=============================================================================
