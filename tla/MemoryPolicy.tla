----------------------------- MODULE MemoryPolicy -----------------------------
(***************************************************************************)
(* The memory caps of a daemon as a function of the machine's RAM and the  *)
(* TRUSTY_* variables of its environment. All sizes are megabytes. usize   *)
(* and u64 are wide enough for every product here.                         *)
(***************************************************************************)
EXTENDS Integers

Unset == -1     \* the variable is not set
Garbled == -2   \* it is set to something that is not a number

FALLBACK_RAM_MB == 8 * 1024
MIN_RAM_MB == 16 * 1024

Clamp(n, low, high) == IF n < low THEN low ELSE IF n > high THEN high ELSE n

\* 25% of the RAM, between 1 GB and 64 GB.
compute_memory_limit_mb(ram) == Clamp((ram * 25) \div 100, 1024, 65536)

\* 50 chunks for a megabyte.
compute_max_chunks(limit) == Clamp(limit * 50, 50000, 800000)

\* 200 MB for a slot, out of 75% of the limit.
compute_max_batch_size(limit) == Clamp(((limit * 75) \div 100) \div 200, 8, 64)

Tier(ram) ==
    CASE ram \div 1024 <= 31 -> "Medium"
      [] ram \div 1024 \in 32..63 -> "Large"
      [] OTHER -> "XLarge"

batch_size_hard_cap(tier) ==
    CASE tier = "Medium" -> 16 [] tier = "Large" -> 32 [] tier = "XLarge" -> 64

\* What the tier fixes, the rest follows from the limit.
TierDefaults(tier) ==
    CASE tier = "Medium" -> [cache |-> 5000, bm25 |-> 100000, nodes |-> 150000]
      [] tier = "Large"  -> [cache |-> 10000, bm25 |-> 200000, nodes |-> 300000]
      [] tier = "XLarge" -> [cache |-> 20000, bm25 |-> 400000, nodes |-> 500000]

env_override_usize(value, default) == IF value >= 0 THEN value ELSE default

\* from_total_ram_mb. env has a value, Unset or Garbled for each of the variables;
\* env.explicit is 1 if the operator vouches for the batch size, garbled or not.
Policy(ram, env) ==
    LET tier == Tier(ram)
        limit == env_override_usize(env.limit, compute_memory_limit_mb(ram))
        batch == env_override_usize(env.batch, compute_max_batch_size(limit))
        cap == batch_size_hard_cap(tier)
    IN [limit |-> limit,
        chunks |-> env_override_usize(env.chunks, compute_max_chunks(limit)),
        batch |-> IF batch > cap /\ ~(env.explicit = 1 /\ env.batch # Unset) THEN cap
                  ELSE batch,
        cache |-> env_override_usize(env.cache, TierDefaults(tier).cache),
        bm25 |-> env_override_usize(env.bm25, TierDefaults(tier).bm25),
        nodes |-> env_override_usize(env.nodes, TierDefaults(tier).nodes)]

-----------------------------------------------------------------------------
(* The readers of the variables, each with a default and a meaning of 0 of its own. *)

Positive(value, default) == IF value > 0 THEN value ELSE default

max_chunks_per_index(value) == Positive(value, 200000)
hnsw_max_elements(value) == Positive(value, 1000000)
embedding_cache_cap(value) == Positive(value, 1000)
bm25_corpus_cap(value) == Positive(value, 50000)
max_kg_nodes(value) == env_override_usize(value, 100000)   \* 0: no cap
embed_batch_size(value) == IF value > 0 THEN Clamp(value, 8, 512) ELSE 32

NoLimit == -3
memory_limit_mb(value) == IF value = 0 THEN NoLimit ELSE env_override_usize(value, 8192)
over_memory_limit(limit, rss) == limit # NoLimit /\ rss >= limit
=============================================================================
