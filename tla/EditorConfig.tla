----------------------------- MODULE EditorConfig -----------------------------
(***************************************************************************)
(* `integrate' and `migrate' rewrite configuration files of editors: read, *)
(* change, back up, write a temporary file, rename. The user and the       *)
(* editors change the same files at any time, writes fail, commands are    *)
(* killed. One command runs at a time.                                     *)
(***************************************************************************)
EXTENDS Naturals, Sequences

CONSTANTS Rest,        \* what else a file may hold, besides the servers
          Before,      \* what the files may hold before anybody is looked at
          MaxClock,    \* bound on the seconds that pass
          MaxCommands, MaxUserEdits, MaxWriteFaults

Mcp == {"global", "project"}    \* ~/.cursor/mcp.json, and the one of the project
Config == Mcp \cup {"rules", "claude"}

Missing == [root |-> "missing"]
Garbled == [root |-> "garbled"]
HalfWritten == [root |-> "partial"]
NotObject == [root |-> "not an object"]
Rules == [root |-> "rules"]
OwnRules == [root |-> "own rules"]
\* The servers by name; "changed" is trusty-search with another entry; {"none"} stands
\* for no object of servers.
Object(servers, rest) == [root |-> "object", servers |-> servers, rest |-> rest]
NoServers == {"none"}
\* What a user or an editor writes.
Documents ==
    {Missing, Garbled}
    \cup {Object(s, r) : s \in {{"changed", "other"}, {"legacy", "other"}}, r \in Rest}

\* What is in a whole file.
IsDocument(doc) ==
    \/ doc \in {Missing, Garbled, NotObject, Rules, OwnRules}
    \/ DOMAIN doc = {"root", "servers", "rest"} /\ doc.root = "object"

ASSUME ConfigAssumption ==
    \A files \in Before : DOMAIN files = Config /\ \A f \in Config : IsDocument(files[f])

VARIABLES
    document,    \* the files
    partial,     \* their temporary files
    dirs,        \* directories that exist: of the files, and of the backups
    backups,     \* backup files to their contents
    clock,
    command,     \* the command that runs, or the last one
    yours,       \* what the user or an editor wrote last
    raced,       \* files that were edited between the command's read and its rename
    counts       \* commands, edits and faults so far

configvars == <<document, partial, dirs, backups, clock, command, yours, raced, counts>>

DirOf(f) == IF f = "global" THEN "home" ELSE f
DirsOf(f) == IF f = "rules" THEN {"rules", "project"} ELSE {DirOf(f)}
Closed == [at |-> "closed"]

ConfigInit ==
    /\ document \in Before
    /\ partial = [f \in Config |-> Missing]
    /\ dirs = {"claude"} \cup UNION {DirsOf(f) : f \in {f \in Config : document[f] # Missing}}
    /\ backups = <<>> /\ clock = 0 /\ command = Closed
    /\ yours = document /\ raced = {} /\ counts = [commands |-> 0, edits |-> 0, faults |-> 0]

\* A function with one more entry: what it has stays, or is replaced.
Added(old, key, value) ==
    [k \in DOMAIN old \cup {key} |-> IF k \in DOMAIN old THEN old[k] ELSE value]
Replaced(old, key, value) ==
    [k \in DOMAIN old \cup {key} |-> IF k = key THEN value ELSE old[k]]

Count(what, most) == counts[what] < most /\ counts' = [counts EXCEPT ![what] = @ + 1]

------------------------------------------------------------------------------
(* What is to be in a file.                                                *)

\* Mutant: servers start from an empty object.
UpsertFresh(doc) == [doc EXCEPT !.servers = {"trusty"}]

upsert_trusty_entry(doc) ==
    [doc EXCEPT !.servers = (IF @ = NoServers THEN {} ELSE @ \ {"changed"}) \cup {"trusty"}]

replace_legacy(doc) == [doc EXCEPT !.servers = (@ \ {"legacy"}) \cup {"trusty"}]

\* The document a command starts from: an empty object for a file that is not there.
Base(f) == IF f \in Mcp /\ document[f] = Missing THEN Object(NoServers, 0) ELSE document[f]
IsObject(doc) == doc.root = "object"

\* What becomes of a file before anything is written: a status, or Nothing for "write it".
Nothing == "write"
Verdict(f) ==
    LET doc == Base(f)
        Unless(done, status, planned) ==
            IF done THEN status ELSE IF command.dry THEN planned ELSE Nothing
    IN CASE f \in Mcp -> IF ~IsObject(doc) THEN "Failed"
                         ELSE Unless(upsert_trusty_entry(doc) = doc, "Skipped", "Planned")
         [] f = "rules" -> Unless(doc # Missing /\ ~command.force, "Skipped", "Planned")
         [] f = "claude" ->
              IF doc \in {Missing, Garbled} THEN "Failed"
              ELSE IF ~IsObject(doc) \/ doc.servers = NoServers THEN "NoChange"
              ELSE IF doc.servers \cap {"trusty", "changed"} # {} THEN "AlreadyMigrated"
              ELSE Unless("legacy" \notin doc.servers, "NoChange", "Migrated")

Written(f, doc) ==
    CASE f \in Mcp -> upsert_trusty_entry(doc) [] f = "rules" -> Rules [] OTHER -> replace_legacy(doc)

------------------------------------------------------------------------------
(* The commands.                                                           *)

Running == command.at \notin {"closed", "done"}
Target == Head(command.todo)

\* --global-only with --project-only is refused before anything is looked at.
handle_integrate ==
    \E dry, force, global_only, project_only, no_rules \in BOOLEAN :
        /\ ~(global_only /\ project_only)
        /\ command' = [at |-> "read", dry |-> dry, what |-> "integrate",
                       force |-> force /\ ~global_only /\ ~no_rules,
                       todo |-> (IF project_only THEN <<>> ELSE <<"global">>)
                                \o (IF global_only THEN <<>> ELSE <<"project">>)
                                \o (IF global_only \/ no_rules THEN <<>> ELSE <<"rules">>),
                       outcomes |-> <<>>, kept |-> <<>>, before |-> document, edited |-> {},
                       doc |-> Missing, key |-> <<>>]

\* The settings files found in the home directory: here one, which is there.
handle_migrate ==
    /\ document["claude"] # Missing
    /\ \E dry \in BOOLEAN :
           command' = [at |-> "read", dry |-> dry, force |-> FALSE, what |-> "migrate",
                       todo |-> <<"claude">>,
                       outcomes |-> <<>>, kept |-> <<>>, before |-> document, edited |-> {},
                       doc |-> Missing, key |-> <<>>]

RunCommand ==
    /\ ~Running /\ Count("commands", MaxCommands)
    /\ handle_integrate \/ handle_migrate
    /\ UNCHANGED <<document, partial, dirs, backups, clock, yours, raced>>

\* The next file, or the summary.
Report(status) ==
    command' = [command EXCEPT !.outcomes = Added(@, Target, status), !.todo = Tail(@),
                               !.at = IF Len(command.todo) = 1 THEN "done" ELSE "read"]

\* A new rules file gets its directories, and the project's with them.
ReadConfig ==
    /\ command.at = "read"
    /\ LET verdict == Verdict(Target)
       IN IF verdict # Nothing THEN Report(verdict) /\ UNCHANGED dirs
          ELSE /\ dirs' = IF Target = "rules" THEN dirs \cup DirsOf(Target) ELSE dirs
               /\ command' = [command EXCEPT !.doc = Base(Target), !.key = <<>>,
                                             !.at = IF Target = "rules" \/ document[Target] = Missing
                                                    THEN "write" ELSE "back up"]
    /\ UNCHANGED <<document, partial, backups, clock, yours, raced, counts>>

\* The name of a backup: of the file without its directory, and of the second; migrate
\* has one name beside the file (trusty_common).
backup_path_for(f) == IF f = "claude" THEN <<"claude", "bak">> ELSE <<"mcp.json", clock>>

CreateBackup ==
    /\ command.at = "back up"
    /\ dirs' = dirs \cup (IF Target = "claude" THEN {} ELSE {"home"})
    /\ backups' = Replaced(backups, backup_path_for(Target), HalfWritten)
    /\ command' = [command EXCEPT !.at = "backing up", !.key = backup_path_for(Target)]
    /\ UNCHANGED <<document, partial, clock, yours, raced, counts>>

FinishBackup ==
    /\ command.at = "backing up"
    /\ backups' = [backups EXCEPT ![command.key] = command.doc]
    /\ command' = [command EXCEPT !.at = "write", !.kept = Added(@, command.key, command.doc)]
    /\ UNCHANGED <<document, partial, dirs, clock, yours, raced, counts>>

CreatePartial ==
    /\ command.at = "write" /\ DirOf(Target) \in dirs
    /\ partial' = [partial EXCEPT ![Target] = HalfWritten]
    /\ command' = [command EXCEPT !.at = "writing"]
    /\ UNCHANGED <<document, dirs, backups, clock, yours, raced, counts>>

FinishPartial ==
    /\ command.at = "writing"
    /\ partial' = [partial EXCEPT ![Target] = Written(Target, command.doc)]
    /\ command' = [command EXCEPT !.at = "rename"]
    /\ UNCHANGED <<document, dirs, backups, clock, yours, raced, counts>>

RenamePartial ==
    /\ command.at = "rename"
    /\ document' = [document EXCEPT ![Target] = partial[Target]]
    /\ partial' = [partial EXCEPT ![Target] = Missing]
    /\ Report(IF command.what = "migrate" THEN "Migrated"
             ELSE IF command.key = <<>> THEN "Created" ELSE "Updated")
    /\ UNCHANGED <<dirs, backups, clock, yours, raced, counts>>

\* mcp.json's directory is nobody's to make; or a call fails, and leaves what it began.
NoDirectory ==
    /\ command.at = "write" /\ DirOf(Target) \notin dirs
    /\ Report("Failed")
    /\ UNCHANGED <<document, partial, dirs, backups, clock, yours, raced, counts>>

CallFails ==
    /\ command.at \in {"read", "back up", "backing up", "write", "writing", "rename"}
    /\ Count("faults", MaxWriteFaults) /\ Report("Failed")
    /\ UNCHANGED <<document, partial, dirs, backups, clock, yours, raced>>

KillCommand ==
    /\ Running /\ Count("faults", MaxWriteFaults) /\ command' = Closed
    /\ UNCHANGED <<document, partial, dirs, backups, clock, yours, raced>>

------------------------------------------------------------------------------
(* Everybody else.                                                         *)

\* An edit between the command's read and its rename.
Racing(f) == Running /\ command.at # "read" /\ f = Target

EditConfig ==
    /\ Count("edits", MaxUserEdits)
    /\ \E f \in Config, doc \in Documents \cup {OwnRules} :
           /\ f = "rules" <=> doc = OwnRules
           /\ document' = [document EXCEPT ![f] = doc] /\ yours' = [yours EXCEPT ![f] = doc]
           /\ raced' = IF Racing(f) THEN raced \cup {f} ELSE raced \ {f}
           /\ dirs' = dirs \cup DirsOf(f)
           /\ command' = IF Running THEN [command EXCEPT !.edited = @ \cup {f}]
                         ELSE IF command.at = "done" THEN Closed ELSE command
    /\ UNCHANGED <<partial, backups, clock>>

Second ==
    /\ clock < MaxClock /\ clock' = clock + 1
    /\ UNCHANGED <<document, partial, dirs, backups, command, yours, raced, counts>>

ConfigNext ==
    \/ RunCommand \/ ReadConfig \/ CreateBackup \/ FinishBackup
    \/ CreatePartial \/ FinishPartial \/ RenamePartial \/ NoDirectory
    \/ CallFails \/ KillCommand \/ EditConfig \/ Second
ConfigSpec == ConfigInit /\ [][ConfigNext]_configvars

------------------------------------------------------------------------------
(* Properties.                                                             *)

\* A file is never seen half-written, and keeps everything of its user but the entries of
\* the two tools: of a file that was not edited under the command's hands.
UsersKept ==
    \A f \in Config :
        /\ document[f] # HalfWritten
        /\ (f \in Mcp \cup {"claude"} /\ f \notin raced /\ yours[f] # Missing /\ document[f] # yours[f])
           => /\ IsObject(yours[f]) /\ IsObject(document[f]) /\ document[f].rest = yours[f].rest
              /\ yours[f].servers \ {"trusty", "changed", "legacy", "none"} \subseteq document[f].servers
              /\ f \in Mcp => yours[f].servers \ {"changed", "none"} \subseteq document[f].servers

\* From the backup of a file to its rename, the backup holds what the rename replaces.
BackedUp ==
    Running /\ command.at \in {"write", "writing", "rename"} /\ command.key # <<>>
    => /\ backups[command.key] = command.doc
       /\ Target \notin raced => document[Target] = command.doc

\* What the summary says of a file that nobody edited meanwhile: done means that the entry
\* is there, failed and planned that nothing is changed.
SummaryTrue ==
    command.at = "done" =>
        \A f \in DOMAIN command.outcomes \ command.edited :
            LET status == command.outcomes[f]
                dry == command.dry
            IN /\ ~dry /\ status \in {"Created", "Updated", "Migrated", "Skipped"} /\ f # "rules"
                  => "trusty" \in document[f].servers
               /\ ~dry /\ status = "Migrated" => "legacy" \notin document[f].servers
               /\ status \in {"Created", "Skipped"} /\ f = "rules" => document[f] # Missing
               /\ dry \/ status \in {"Failed", "NoChange", "Skipped", "AlreadyMigrated"}
                  => document[f] = command.before[f]

\* Files that are rewritten while others edit them: nothing torn, nothing unrelated lost,
\* a backup first, and a summary that is true.
ConfigsSound == UsersKept /\ BackedUp /\ SummaryTrue

\* Refuted: integrate.rs:425 wants the original to be recoverable. The global and the
\* project's file have one name in one directory of backups: of two in one second the
\* first is overwritten.
OriginalsKept ==
    command.at = "done" => \A key \in DOMAIN command.kept : backups[key] = command.kept[key]

\* Refuted: integrate.rs:222 says that unrelated keys are preserved. What was written
\* between the read and the rename is lost.
EditsKept == \A f \in Mcp : f \in raced => document[f] = yours[f]

\* Refuted: integrate.rs:221 wants the file to be created if absent. Its directory is not.
CreatesIfAbsent ==
    command.at = "done" /\ counts.faults = 0 =>
        \A f \in DOMAIN command.outcomes :
            command.before[f] = Missing => command.outcomes[f] # "Failed"
=============================================================================
