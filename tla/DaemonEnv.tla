------------------------------ MODULE DaemonEnv ------------------------------
(***************************************************************************)
(* How a daemon comes by its caps: the environment it is started in, the   *)
(* --device flag, daemon.env, the memory policy, and the retuning once the *)
(* embedder has found a GPU. An operator starts it from shells that have   *)
(* different variables set; a supervisor starts it again with those that   *)
(* its agent has, none unless `service install' was called in a shell that *)
(* had some; it may be killed at any point, also while it writes           *)
(* daemon.env; and a start that is refused because it runs writes that     *)
(* file all the same.                                                      *)
(***************************************************************************)
EXTENDS MemoryPolicy

CONSTANTS Shell,    \* the environments operators start it from
          Ram,      \* sizes the machine's memory may have
          MaxBoots  \* bound on starts and installs

Numbers == {"limit", "chunks", "cache", "batch", "bm25"}
PERSISTED_ENV_VARS == Numbers \cup {"device"}
Key == PERSISTED_ENV_VARS \cup {"nodes", "explicit"}
Cpu == 1
Gpu == 2
Bare == [k \in Key |-> Unset]
Saved(e) == [k \in Key |-> IF k \in PERSISTED_ENV_VARS THEN e[k] ELSE Unset]

ASSUME EnvAssumption ==
    /\ Shell \subseteq [Key -> Int] /\ Ram \subseteq Nat /\ MaxBoots \in Nat
    /\ \A e \in Shell : e.device \in {Unset, Cpu, Gpu}

VARIABLES
    stage, env,  \* of the daemon
    flag,        \* its --device: Unset is `auto'
    env_file,    \* daemon.env
    agent,       \* the variables of the LaunchAgent's plist; a unit has none
    refused,     \* what a start that will be refused has still to write, or Bare
    ram,
    limit,       \* MEMORY_LIMIT_MB of memguard, Unset until first read
    embedder,    \* "loading" or what it runs on
    boots,
    \* history
    pinned,      \* variables that were set before the policy was applied
    kept,        \* daemon.env when the process was started
    byOperator,  \* an operator started it
    lasts,       \* the supervisor's restarts are to run as this one does
    seen,        \* caps of the last that lasts and came up, by RAM
    pin          \* the device of the last by an operator that came up and saved it

envProcess == <<stage, env, flag, limit, embedder, pinned, kept, byOperator>>
envHistory == <<lasts, seen, pin>>
outside == <<agent, refused>>
evars == <<envProcess, env_file, outside, ram, boots, envHistory>>
unmoved == <<kept, byOperator, outside, boots>>   \* by what a process does

Caps == [limit |-> memory_limit_mb(env.limit), chunks |-> max_chunks_per_index(env.chunks),
         vectors |-> hnsw_max_elements(env.chunks), cache |-> embedding_cache_cap(env.cache),
         bm25 |-> bm25_corpus_cap(env.bm25), batch |-> embed_batch_size(env.batch),
         device |-> env.device]
NoCaps == [limit |-> Unset]
Unseen == [r \in Ram |-> NoCaps]

EnvTypeOK ==
    /\ stage \in {"down", "flag", "save", "write", "load", "resolve", "up"}
    /\ env \in [Key -> Int]
    /\ \A e \in {env_file, agent, refused} :
           e \in [Key -> Int] /\ \A k \in Key \ PERSISTED_ENV_VARS : e[k] = Unset
    /\ flag \in {Unset, Cpu, Gpu} /\ ram \in Ram
    /\ stage = "up" => \A k \in Numbers : env[k] >= 0
    /\ limit # Unset => stage = "up"
    /\ embedder \in {"none", "loading", "cpu", "gpu"}

EnvInit ==
    /\ stage = "down" /\ env = Bare /\ flag = Unset /\ env_file = Bare /\ ram \in Ram
    /\ \E e \in Shell \cup {Bare} : agent = Saved(e)
    /\ refused = Bare /\ limit = Unset /\ embedder = "none" /\ boots = 0
    /\ pinned = {} /\ kept = Bare /\ byOperator = FALSE
    /\ lasts = FALSE /\ seen = Unseen /\ pin = Unset

-----------------------------------------------------------------------------
WithFlag(e, device) == IF e.device = Unset THEN [e EXCEPT !.device = device] ELSE e

\* `service install' embeds what is set in the plist; a later install replaces it.
InstallService ==
    /\ boots < MaxBoots /\ boots' = boots + 1
    /\ \E e \in Shell : agent' = Saved(e)
    /\ lasts' = FALSE /\ seen' = Unseen
    /\ UNCHANGED <<envProcess, env_file, refused, ram, pin>>

StartProcess(e, device) ==
    /\ stage = "down" /\ boots < MaxBoots
    /\ boots' = boots + 1
    /\ stage' = "flag" /\ env' = e /\ flag' = device /\ kept' = env_file
    /\ UNCHANGED <<limit, embedder, env_file, outside, ram, pinned>>

\* `start', directly or by way of the detached copy it spawns with its environment.
\* Where the agent has no variables, it decides how restarts run.
OperatorStart ==
    /\ \E e \in Shell, device \in {Unset, Cpu, Gpu} : StartProcess(e, device)
    /\ byOperator' = TRUE /\ lasts' = (agent = Bare) /\ pin' = Unset
    /\ seen' = IF agent = Bare THEN Unseen ELSE seen

\* The supervisor's restart, with what the plist has.
Respawn ==
    /\ StartProcess(agent, Unset)
    /\ byOperator' = FALSE /\ lasts' = TRUE /\ UNCHANGED <<seen, pin>>

\* A restart that finds no variables goes by the file, one during a start by either.
Rewritten ==
    /\ lasts' = (lasts /\ stage = "up")
    /\ seen' = IF agent = Bare THEN Unseen ELSE seen
    /\ UNCHANGED <<envProcess, agent, ram, pin>>

\* A second start looks for the first after it has saved its variables. It truncates
\* the file (if the daemon ends before it looks, it is a start of its own, which saves),
RefusedStart ==
    /\ stage # "down" /\ refused = Bare /\ boots < MaxBoots /\ boots' = boots + 1
    /\ \/ \E e \in Shell, device \in {Unset, Cpu, Gpu} : refused' = Saved(WithFlag(e, device))
       \/ refused' = agent
    /\ refused' # Bare /\ env_file' = Bare
    /\ Rewritten

\* and writes it, or is killed first.
RefusedWrites ==
    /\ refused # Bare /\ env_file' = refused /\ refused' = Bare
    /\ Rewritten /\ UNCHANGED boots
RefusedDies ==
    /\ refused # Bare /\ refused' = Bare
    /\ UNCHANGED <<envProcess, env_file, agent, ram, boots, envHistory>>

\* The flag fills in where the variable is not set.
DeviceFlag ==
    /\ stage = "flag"
    /\ env' = WithFlag(env, flag)
    /\ stage' = "save"
    /\ UNCHANGED <<flag, env_file, ram, limit, embedder, pinned, unmoved, envHistory>>

\* save_daemon_env: nothing if no variable is set, so that the restart by an agent that
\* has none keeps the file. Otherwise the file is truncated ...
Save ==
    /\ stage = "save"
    /\ IF Saved(env) = Bare THEN stage' = "load" /\ UNCHANGED env_file
       ELSE stage' = "write" /\ env_file' = Bare
    /\ UNCHANGED <<env, flag, ram, limit, embedder, pinned, unmoved, envHistory>>

\* Mutant: the device is not among the persisted variables.
WriteNoDevice ==
    /\ stage = "write"
    /\ env_file' = [Saved(env) EXCEPT !.device = Unset]
    /\ stage' = "load"
    /\ UNCHANGED <<env, flag, ram, limit, embedder, pinned, unmoved, envHistory>>

\* ... and written with the variables that are set, without those it had before.
Write ==
    /\ stage = "write"
    /\ env_file' = Saved(env)
    /\ stage' = "load"
    /\ UNCHANGED <<env, flag, ram, limit, embedder, pinned, unmoved, envHistory>>

\* A write that fails is logged.
SaveFails ==
    /\ stage \in {"save", "write"} /\ Saved(env) # Bare
    /\ stage' = "load" /\ lasts' = FALSE
    /\ UNCHANGED <<env, flag, env_file, ram, limit, embedder, pinned, unmoved, seen, pin>>

\* load_daemon_env: the environment wins.
Load ==
    /\ stage = "load"
    /\ env' = [k \in Key |-> IF env[k] = Unset THEN env_file[k] ELSE env[k]]
    /\ pinned' = {k \in Key : env'[k] # Unset}
    /\ stage' = "resolve"
    /\ UNCHANGED <<flag, env_file, ram, limit, embedder, unmoved, envHistory>>

apply_to_env(policy) ==
    [env EXCEPT !.limit = policy.limit, !.chunks = policy.chunks, !.batch = policy.batch,
                !.cache = policy.cache, !.bm25 = policy.bm25, !.nodes = policy.nodes]

\* MemoryPolicy::detect, and the refusal to run on less than 16 GB.
ResolvePolicy ==
    /\ stage = "resolve"
    /\ env' = apply_to_env(Policy(ram, env))
    /\ IF ram < MIN_RAM_MB THEN stage' = "down" /\ UNCHANGED <<embedder, seen, pin>>
       ELSE /\ stage' = "up" /\ embedder' = "loading"
            /\ seen' = IF lasts /\ env.explicit # 1 /\ seen[ram] = NoCaps
                       THEN [seen EXCEPT ![ram] = Caps'] ELSE seen
            /\ pin' = IF byOperator /\ env_file.device = env.device THEN env.device ELSE pin
    /\ UNCHANGED <<flag, env_file, ram, limit, pinned, unmoved, lasts>>

\* The first read of the limit, by run_daemon's log line; it is cached.
ReadLimit ==
    /\ stage = "up" /\ limit = Unset
    /\ limit' = memory_limit_mb(env.limit)
    /\ UNCHANGED <<stage, env, flag, env_file, ram, embedder, pinned, unmoved, envHistory>>

tune_batch_size_for_provider(provider) ==
    IF provider = "cpu" \/ env.explicit = 1 \/ env.batch >= 512 THEN env
    ELSE [env EXCEPT !.batch = 512]

\* The embedder is loaded, by a task beside the server; a pinned CPU is honoured,
\* otherwise what the machine has decides.
EmbedderUp ==
    /\ stage = "up" /\ embedder = "loading"
    /\ \E provider \in IF env.device = Cpu THEN {"cpu"} ELSE {"cpu", "gpu"} :
          /\ embedder' = provider
          /\ env' = tune_batch_size_for_provider(provider)
    /\ UNCHANGED <<stage, flag, env_file, ram, limit, pinned, unmoved, envHistory>>

\* The process ends; the environment is gone with it. Meanwhile the machine may be
\* given more or less memory.
ProcessEnds ==
    /\ stage # "down"
    /\ stage' = "down" /\ env' = Bare /\ flag' = Unset /\ limit' = Unset /\ embedder' = "none"
    /\ pinned' = {} /\ ram' \in Ram
    /\ UNCHANGED <<env_file, unmoved, envHistory>>

EnvNext ==
    \/ InstallService \/ OperatorStart \/ Respawn \/ RefusedStart \/ RefusedWrites \/ RefusedDies
    \/ DeviceFlag \/ Save \/ Write \/ SaveFails \/ Load \/ ResolvePolicy \/ ReadLimit \/ EmbedderUp
    \/ ProcessEnds

EnvSpec == EnvInit /\ [][EnvNext]_evars

-----------------------------------------------------------------------------
(* Properties.                                                             *)

\* Running, and the embedder has not been found to be on a GPU.
Up == stage = "up" /\ embedder # "gpu"

\* What save_daemon_env is for: wherever kills hit, every restart by the supervisor on the
\* same RAM runs with the same limits and on the same device as the first did that came
\* up; where the agent has no variables, as the operator's start did that came up before
\* them, unless he used the switch that is not persisted. That ends with an install, with
\* a start that writes the file while this one is starting or a write of its own that
\* fails, and, where the agent has no variables, with any start that writes the file.
RestartsAlike == Up /\ lasts /\ seen[ram] # NoCaps => Caps = seen[ram]

\* The arena of one embedding call, at 200 MB a slot, stays within 75% of the limit
\* the process is held to, as long as nobody pinned the batch size and there is no
\* GPU; below the smallest batch nothing can be done.
ArenaWithinLimit ==
    Up /\ "batch" \notin pinned /\ Caps.limit # NoLimit =>
        Caps.batch = 8 \/ Caps.batch * 200 * 100 <= Caps.limit * 75

\* Whatever is pinned but 0, no batch passes the tier's cap without the switch.
TierCapHolds ==
    Up /\ env.explicit # 1 /\ env.batch # 0 => Caps.batch <= batch_size_hard_cap(Tier(ram))

\* The modules that read a variable by themselves see what the policy resolved, not
\* their own default, unless it is 0.
ReadersFollowPolicy ==
    Up => LET policy == Policy(ram, [k \in Key |-> IF k \in pinned THEN env[k] ELSE Unset])
          IN /\ limit # Unset => limit = memory_limit_mb(policy.limit)
             /\ policy.chunks > 0 => Caps.chunks = policy.chunks /\ Caps.vectors = policy.chunks
             /\ policy.cache > 0 => Caps.cache = policy.cache
             /\ policy.bm25 > 0 => Caps.bm25 = policy.bm25

\* The caps a daemon runs with, through starts, installs, kills, changes of RAM and
\* retuning.
CapsSound ==
    EnvTypeOK /\ RestartsAlike /\ ArenaWithinLimit /\ TierCapHolds /\ ReadersFollowPolicy

\* "env var > file > default" (start.rs:257), variable by variable. The code saves
\* before it loads, and the save drops what the shell does not set.
Precedence ==
    [][stage = "load" =>
          \A k \in Numbers : env[k] = Unset => env'[k] = kept[k]]_evars

\* Refuted: "operators who pin CPU must have that pin survive every restart"
\* (daemon.rs:94-95), unless another device takes its place. A restart by an agent that has other variables, or a
\* start that is refused, replaces the file by its own, and no device is left.
PinSurvives == stage = "up" /\ pin = Cpu => env.device # Unset
=============================================================================
