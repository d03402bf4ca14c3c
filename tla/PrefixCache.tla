------------------------------ MODULE PrefixCache ------------------------------
(***************************************************************************)
(* The benchmark-side prefix cache: cache/cache_models.py and its four     *)
(* models over the table of cache/prefix_table.py.  The routers and the    *)
(* backends call estimate_cached_prefix_tokens, which changes nothing, and *)
(* observe_request, the one action here.                                   *)
(*                                                                         *)
(* A token is an opaque value and a prompt a sequence of them.  The hash   *)
(* chain of a block is the sequence of chunks from the root of its         *)
(* namespace: stable_hash is taken to have no collisions.  eviction_policy *)
(* is "lru", the only policy the table accepts once it has to evict.       *)
(*                                                                         *)
(* An operator named X_Fault is X with a fault a programmer could make; no *)
(* specification uses it.                                                  *)
(***************************************************************************)
EXTENDS PrefixTable

CONSTANTS
    Configs,            \* the cache configurations considered
    Requests,           \* [adapter, prompt, tenant, group] records
    Markers,            \* config.invocation_markers.values()
    BlockSize,          \* config.block_size
    DeltaPercent,       \* 100 * config.copy_on_write_delta_fraction
    MaxObservations     \* bound: how many requests are observed

Models == {"standard_lora", "base_shared", "copy_on_write", "activated_lora"}

\* make_cache_model and CONDITIONS refuse the rest.  A budget below zero would
\* store nothing.
ASSUME ConfigsAssumption ==
    \A c \in Configs : /\ c.model \in Models
                       /\ c.condition \in {"warm", "cold", "prefix_disabled"}
                       /\ c.budget = NoBudget \/ c.budget \in Nat
ASSUME RequestsAssumption     == \A r \in Requests : r.prompt \in Seq(ToSet(r.prompt))
ASSUME BlockSizeAssumption    == BlockSize \in Nat
ASSUME DeltaAssumption        == DeltaPercent \in Nat
ASSUME ObservationsAssumption == MaxObservations \in Nat

VARIABLES
    config,                     \* the CacheConfig of the run
    table,                      \* the PrefixTable
    delta_tokens,               \* CopyOnWriteCache._delta_tokens
    request_count,
    total_prompt_tokens,
    total_cached_prefix_tokens,
    observed                    \* the observed requests (history variable)

vars == <<config, table, delta_tokens, request_count, total_prompt_tokens,
          total_cached_prefix_tokens, observed>>

TypeOK ==
    /\ config \in Configs
    /\ \A i, j \in 1 .. Len(table.blocks) :
          table.blocks[i].key = table.blocks[j].key => i = j
    /\ \A d, e \in delta_tokens : d.key = e.key => d = e
    /\ request_count = Len(observed)
    /\ total_prompt_tokens \in Nat
    /\ total_cached_prefix_tokens \in 0 .. total_prompt_tokens
    /\ observed \in Seq(Requests)

Init ==
    /\ config \in Configs
    /\ table = EmptyTable
    /\ delta_tokens = {}
    /\ request_count = 0
    /\ total_prompt_tokens = 0
    /\ total_cached_prefix_tokens = 0
    /\ observed = <<>>
------------------------------------------------------------------------------
\* Takes the trust group for the tenant.
isolation_id_IgnoresTenant(r) ==
    CASE config.salted -> <<"salt">>
      [] ~config.salted /\ config.scope = "none" -> <<"shared">>
      [] OTHER -> <<"trust", r.group>>

isolation_id(r) ==
    IF config.salted THEN <<"salt">>
    ELSE IF config.scope = "tenant" THEN <<"tenant", r.tenant>>
    ELSE IF config.scope = "none" THEN <<"shared">>
    ELSE <<"trust", r.group>>

chunks(tokens) ==
    LET size == Max({1, BlockSize})
        count == (Len(tokens) + size - 1) \div size
    IN  [k \in 1 .. count |->
            SubSeq(tokens, (k - 1) * size + 1, Min({k * size, Len(tokens)}))]

\* How many tokens precede the first marker; all of them if there is none.
invocation_index(tokens) ==
    Min({i - 1 : i \in {j \in 1 .. Len(tokens) : tokens[j] \in Markers}} \cup {Len(tokens)})

Segment(namespace, logical_namespace, tokens) ==
    [namespace |-> namespace, logical_namespace |-> logical_namespace, tokens |-> tokens]

(***************************************************************************)
(* The segments of a request under each cache model.  No model gives two   *)
(* segments of a request the same namespace, so every one starts at its    *)
(* root.                                                                   *)
(***************************************************************************)
segments(r) ==
    LET iso      == isolation_id(r)
        adapter  == <<iso, "adapter", r.adapter>>
        part(namespace, logical, tokens) ==
            IF tokens = <<>> THEN <<>> ELSE <<Segment(namespace, logical, tokens)>>
        whole(namespace, logical) == <<Segment(namespace, logical, r.prompt)>>
        split    == invocation_index(r.prompt)
    IN  CASE config.model = "standard_lora" -> whole(adapter, <<iso, "prompt">>)
          [] config.model = "base_shared"   -> whole(<<iso, "base">>, <<iso, "base">>)
          [] config.model = "copy_on_write" -> whole(<<iso, "cow-base">>, <<iso, "cow-base">>)
          [] config.model = "activated_lora" ->
                part(<<iso, "activated-base">>, <<iso, "activated-base">>,
                     SubSeq(r.prompt, 1, split))
                \o part(adapter, <<iso, "post-invocation">>,
                        SubSeq(r.prompt, split + 1, Len(r.prompt)))

\* The blocks of a segment; a key holds every chunk up to the block's own.
segment_blocks(s) ==
    LET path(k) == SubSeq(chunks(s.tokens), 1, k)
    IN  [k \in 1 .. Len(chunks(s.tokens)) |->
            [key |-> <<s.namespace, path(k)>>,
             logical_key |-> <<s.logical_namespace, path(k)>>,
             token_count |-> Len(chunks(s.tokens)[k])]]

request_blocks(r) ==
    FlattenSeq([k \in 1 .. Len(segments(r)) |-> segment_blocks(segments(r)[k])])

(***************************************************************************)
(* _estimate_segments stops at the first block that is not in the table.   *)
(***************************************************************************)
HitCount(t, r) ==
    LET blocks == request_blocks(r)
    IN  Max({n \in 0 .. Len(blocks) : \A i \in 1 .. n : blocks[i].key \in Keys(t)})

HitTokens(t, r) == TokensOf(SubSeq(request_blocks(r), 1, HitCount(t, r)))

estimate_cached_prefix_tokens(r) ==
    IF config.condition \in {"cold", "prefix_disabled"} THEN 0 ELSE HitTokens(table, r)

\* The lookups of a request that record statistics: its hits and the first miss.
looked_up(t, r) ==
    LET blocks == request_blocks(r)
    IN  FoldLeft(contains, t, SubSeq(blocks, 1, Min({HitCount(t, r) + 1, Len(blocks)})))

\* _observe_segments
stored(t, r) == FoldLeft(LAMBDA u, b : add(u, b, config.budget), t, request_blocks(r))
------------------------------------------------------------------------------
count_request(r) ==
    /\ request_count' = request_count + 1
    /\ total_prompt_tokens' = total_prompt_tokens + Len(r.prompt)
    /\ observed' = Append(observed, r)

(***************************************************************************)
(* Without a prefix cache only the request and its tokens are counted.     *)
(***************************************************************************)
ObserveDisabled(r) ==
    /\ config.condition = "prefix_disabled"
    /\ count_request(r)
    /\ UNCHANGED <<config, table, delta_tokens, total_cached_prefix_tokens>>

\* In the cold condition the storage of the last request goes first.
storage == IF config.condition = "cold" THEN EmptyTable ELSE table

\* The delta of the request's adapter after its invocation, rounded up.
delta_of(r) ==
    LET split == invocation_index(r.prompt)
        post  == Max({1, Len(r.prompt) - split})
    IN  [key |-> <<isolation_id(r), r.adapter, split, post>>,
         tokens |-> (post * DeltaPercent + 99) \div 100]

record_delta(r) ==
    IF config.model = "copy_on_write"
    THEN LET kept == IF config.condition = "cold" THEN {} ELSE delta_tokens
         IN  delta_tokens' = {d \in kept : d.key # delta_of(r).key} \cup {delta_of(r)}
    ELSE UNCHANGED delta_tokens

\* Counts the reuse of a request after it has stored its own blocks.
Observe_CountsItself(r) ==
    /\ config.condition # "prefix_disabled"
    /\ table' = stored(looked_up(storage, r), r)
    /\ total_cached_prefix_tokens' = total_cached_prefix_tokens + HitTokens(table', r)
    /\ record_delta(r)
    /\ count_request(r)
    /\ UNCHANGED config

(***************************************************************************)
(* observe_request: look the request up, count the reuse, store its        *)
(* blocks.  CopyOnWriteCache resets the storage itself when cold and makes *)
(* the rest run as if warm, which comes to the same.                       *)
(***************************************************************************)
Observe(r) ==
    /\ config.condition # "prefix_disabled"
    /\ total_cached_prefix_tokens' = total_cached_prefix_tokens + HitTokens(storage, r)
    /\ table' = stored(looked_up(storage, r), r)
    /\ record_delta(r)
    /\ count_request(r)
    /\ UNCHANGED config

Next ==
    \E r \in Requests :
        /\ Len(observed) < MaxObservations
        /\ ObserveDisabled(r) \/ Observe(r)

Spec == Init /\ [][Next]_vars
------------------------------------------------------------------------------
(***************************************************************************)
(* Properties.                                                             *)
(***************************************************************************)
memory_tokens ==
    cached_tokens(table) + MapThenSumSet(LAMBDA d : d.tokens, delta_tokens)

(***************************************************************************)
(* The stored blocks never exceed max_memory_tokens, and only the deltas   *)
(* of copy_on_write come on top of them in memory_tokens().                *)
(***************************************************************************)
BudgetRespected ==
    config.budget # NoBudget =>
        /\ cached_tokens(table) <= config.budget
        /\ config.model # "copy_on_write" => memory_tokens <= config.budget

\* The configuration lets the two requests reuse each other's blocks.
MayShare(q, r) ==
    \/ config.salted
    \/ config.scope = "none"
    \/ config.scope = "tenant" /\ q.tenant = r.tenant
    \/ config.scope \notin {"none", "tenant"} /\ q.group = r.group

\* The tokens of a prompt up to the invocation (all, unless the model is
\* activated_lora), and what follows them.
split_of(q) ==
    IF config.model = "activated_lora" THEN invocation_index(q.prompt) ELSE Len(q.prompt)

section(q, k) ==
    IF k = 1 THEN SubSeq(q.prompt, 1, split_of(q))
    ELSE SubSeq(q.prompt, split_of(q) + 1, Len(q.prompt))

\* r may reuse the k-th section of q: standard_lora shares within an adapter,
\* and so does activated_lora what follows the invocation.
Partners(q, r, k) ==
    MayShare(q, r) /\ (config.model = "standard_lora" \/ k = 2 => q.adapter = r.adapter)

\* How many leading chunks of its k-th section r shares with an observed
\* request, and how many tokens they hold.
CommonChunks(r, k) ==
    LET leading(n) == SubSeq(chunks(section(r, k)), 1, n)
    IN  Max({n \in 0 .. Len(chunks(section(r, k))) :
                n = 0 \/ \E q \in ToSet(observed) :
                            Partners(q, r, k) /\ IsPrefix(leading(n), chunks(section(q, k)))})

CommonTokens(r, k) ==
    Min({CommonChunks(r, k) * Max({1, BlockSize}), Len(section(r, k))})

(***************************************************************************)
(* The reference the table is measured against, computed from the prompts  *)
(* alone: the tokens that r shares, in whole leading chunks, with observed *)
(* requests it may share with, those after the invocation only when all    *)
(* before it are shared.                                                   *)
(***************************************************************************)
SharedTokens(r) ==
    CommonTokens(r, 1) + IF CommonTokens(r, 1) = split_of(r) THEN CommonTokens(r, 2) ELSE 0

(***************************************************************************)
(* The estimate every router scores with is never more than what earlier   *)
(* requests it may share with have in common with the request, and without *)
(* a budget it is exactly that.  In the other conditions nothing is reused *)
(* or counted as reused.                                                   *)
(***************************************************************************)
EstimateMatchesHistory ==
    /\ config.condition = "warm" =>
          \A r \in Requests :
              /\ estimate_cached_prefix_tokens(r) <= SharedTokens(r)
              /\ config.budget = NoBudget => estimate_cached_prefix_tokens(r) = SharedTokens(r)
    /\ config.condition # "warm" =>
          total_cached_prefix_tokens = 0 /\ table.hit_count = 0

(***************************************************************************)
(* The counters add up: what is stored or was evicted came in as uncached  *)
(* prompt tokens, and without a budget every uncached token is stored once *)
(* (activated_lora may find a late segment stored under another prefix).   *)
(***************************************************************************)
FootprintAccounted ==
    LET uncached == total_prompt_tokens - total_cached_prefix_tokens
        footprint == cached_tokens(table) + table.evicted_token_count
    IN  /\ footprint <= uncached
        /\ config.budget = NoBudget /\ config.condition = "warm"
               /\ config.model # "activated_lora" => footprint = uncached
        /\ table.lookup_count - table.hit_count <= request_count

(***************************************************************************)
(* A prompt that fits the budget is wholly reusable right after it was     *)
(* observed: making room for its last block never evicts its first.        *)
(***************************************************************************)
LastPromptReusable ==
    LET fits(r) == config.budget = NoBudget \/ Len(r.prompt) <= config.budget
    IN  config.condition = "warm" /\ observed # <<>> =>
            (fits(Last(observed)) =>
                estimate_cached_prefix_tokens(Last(observed)) = Len(Last(observed).prompt))
=============================================================================
