------------------------------ MODULE Routing ------------------------------
(***************************************************************************)
(* The routing policies (routing/*.py) over the workloads that the         *)
(* generator makes, as run() of bench/run_workload.py composes them with   *)
(* the mock backend: all requests are generated, then each is routed,      *)
(* answered and observed before the next.                                  *)
(*                                                                         *)
(* The prefix cache is standard_lora without a memory limit, kept as the   *)
(* prompts that were observed: PrefixCache shows that an estimate is what  *)
(* this history gives.  Scores are in thousandths.  The load of the        *)
(* adapters is zero in a sequential run; to see the policies under the     *)
(* concurrent runner as well, each request meets one of some loads.        *)
(***************************************************************************)
EXTENDS Workloads

CONSTANTS
    Configs,            \* for each workload, router and cache configurations of a run
    Loads,              \* dispatches in flight per adapter, as functions
    Weights,            \* alpha, beta, gamma, delta, epsilon, in thousandths
    BlockSize           \* cache.block_size

\* Some adapter is served, and every one has a load; a block has tokens.
ASSUME RoutingAssumption ==
    /\ \A name \in Shapes : \A c \in Configs[name] :
          /\ 1 \in DOMAIN c.adapters
          /\ \A load \in Loads : \A k \in DOMAIN c.adapters : load[c.adapters[k]] \in Nat
    /\ BlockSize \in Nat \ {0}
    /\ {Weights.alpha, Weights.beta, Weights.gamma, Weights.delta, Weights.epsilon} \subseteq Nat

VARIABLES
    config,             \* the configuration of the run
    session_adapter,    \* SessionState: the adapter of a session's last request
    adapter_tenants,    \* and who was routed to each adapter
    adapter_trust_groups,
    observed,           \* the prompts in the cache, by namespace
    decisions           \* the routing decisions, in the order of the requests

state_vars == <<session_adapter, adapter_tenants, adapter_trust_groups>>
vars == <<shape, stream, drawn, config, state_vars, observed, decisions>>

AdapterNames == Tasks \union {"multitask"}
adapter_ids == {config.adapters[k] : k \in DOMAIN config.adapters}

-----------------------------------------------------------------------------
(* scoring.py *)

specialist_prior == [qa |-> 920, json |-> 940, summary |-> 900, code |-> 880]
multitask_prior  == [qa |-> 820, json |-> 800, summary |-> 820, code |-> 760]

quality_prior(task, adapter) ==
    IF task \in Tasks /\ adapter = task THEN specialist_prior[task]
    ELSE IF task \in Tasks /\ adapter = "multitask" THEN multitask_prior[task]
    ELSE IF adapter = task THEN 860
    ELSE 460

-----------------------------------------------------------------------------
(* The estimate of the cache model *)

isolation_id(r) ==
    CASE config.salt                               -> <<"salt">>
      [] ~config.salt /\ config.scope = "tenant"   -> <<"tenant", r.tenant>>
      [] ~config.salt /\ config.scope = "none"     -> <<"shared">>
      [] OTHER                                     -> <<"trust", r.trust>>

namespace(adapter, r) == <<adapter, isolation_id(r)>>

tokens(segments) == MapThenSumSet(LAMBDA k : size(segments[k]), DOMAIN segments)

\* The tokens of the leading segments that two prompts share, in whole blocks
\* unless they are all of them.
shared_tokens(p, q) ==
    LET common == {n \in 0 .. Len(p) : n <= Len(q) /\ \A k \in 1 .. n : p[k] = q[k]}
        n      == tokens(SubSeq(p, 1, Max(common)))
    IN  IF p = q THEN n ELSE (n \div BlockSize) * BlockSize

\* estimate_cached_prefix_tokens
cached(adapter, r) ==
    IF config.condition # "warm" THEN 0
    ELSE Max({0} \union {shared_tokens(o.prompt, r.prompt) :
                            o \in {o \in observed : o.namespace = namespace(adapter, r)}})

-----------------------------------------------------------------------------
(* SessionState *)

warm_adapters == DOMAIN adapter_tenants

isolation_penalty_PerGroup(adapter, r, scope) ==
    CASE scope = "none" -> 0
      [] scope = "tenant" ->
            IF adapter \in warm_adapters
            THEN Cardinality(adapter_tenants[adapter] \ {r.tenant}) ELSE 0
      [] OTHER ->
            IF adapter \in warm_adapters
            THEN Cardinality(adapter_trust_groups[adapter] \ {r.trust}) ELSE 0

isolation_penalty(adapter, r, scope) ==
    CASE scope = "none" -> 0
      [] scope = "tenant" ->
            IF adapter \in warm_adapters /\ r.tenant \notin adapter_tenants[adapter]
            THEN 1 ELSE 0
      [] OTHER ->
            IF adapter \in warm_adapters /\ r.trust \notin adapter_trust_groups[adapter]
            THEN 1 ELSE 0

including(sets, key, element) ==
    [k \in DOMAIN sets \union {key} |->
        (IF k \in DOMAIN sets THEN sets[k] ELSE {}) \union
        (IF k = key THEN {element} ELSE {})]

remember(r, adapter) ==
    /\ session_adapter' = [s \in DOMAIN session_adapter \union {r.session} |->
                             IF s = r.session THEN adapter ELSE session_adapter[s]]
    /\ adapter_tenants' = including(adapter_tenants, adapter, r.tenant)
    /\ adapter_trust_groups' = including(adapter_trust_groups, adapter, r.trust)

-----------------------------------------------------------------------------
(* The policies: the adapters that each may choose.                        *)

\* The first adapter of the list with the highest score.
first_best(score(_)) ==
    LET best == {k \in DOMAIN config.adapters :
                    \A j \in DOMAIN config.adapters :
                        /\ score(config.adapters[j]) <= score(config.adapters[k])
                        /\ score(config.adapters[j]) = score(config.adapters[k]) => k <= j}
    IN  {config.adapters[k] : k \in best}

multitask_or_first ==
    IF "multitask" \in adapter_ids THEN "multitask" ELSE config.adapters[1]

cache_aware_score(r, load, adapter) ==
    LET current == IF r.session \in DOMAIN session_adapter
                   THEN session_adapter[r.session] ELSE adapter
        scope   == IF config.salt THEN "none" ELSE config.scope
    IN  quality_prior(r.task, adapter)
          + Weights.alpha * cached(adapter, r)
          - Weights.beta * load[adapter]
          - (IF current # adapter THEN Weights.gamma ELSE 0)
          - Weights.delta * isolation_penalty(adapter, r, scope)
          - (IF adapter \in warm_adapters THEN 0 ELSE Weights.epsilon)

\* The prompt has the same length for every adapter: the score times it.
oracle_score(r, adapter) ==
    quality_prior(r.task, adapter) * tokens(r.prompt) + 200 * cached(adapter, r)

semantic(r) ==
    LET adapter == expected_adapter_for_task(r.task)
    IN  CASE adapter \in adapter_ids -> adapter
          [] adapter \notin adapter_ids /\ r.expected \in adapter_ids -> r.expected
          [] OTHER -> config.adapters[1]

\* Any adapter that can answer at all.
compatible_Loose(task, adapter) == quality_prior(task, adapter) >= 460

compatible(task, adapter) == quality_prior(task, adapter) >= 700

\* Falls back to the adapter of the task, served or not.
sticky_session_Unserved(r) ==
    IF /\ r.session \in DOMAIN session_adapter
       /\ session_adapter[r.session] \in adapter_ids
       /\ compatible(r.task, session_adapter[r.session])
    THEN session_adapter[r.session]
    ELSE expected_adapter_for_task(r.task)

sticky_session(r) ==
    LET adapter == expected_adapter_for_task(r.task)
    IN  IF /\ r.session \in DOMAIN session_adapter
           /\ session_adapter[r.session] \in adapter_ids
           /\ compatible(r.task, session_adapter[r.session])
        THEN session_adapter[r.session]
        ELSE IF adapter \in adapter_ids THEN adapter ELSE multitask_or_first

choices(r, load) ==
    CASE config.policy = "random"         -> adapter_ids
      [] config.policy = "semantic"       -> {semantic(r)}
      [] config.policy = "multitask"      -> {multitask_or_first}
      [] config.policy = "sticky_session" -> {sticky_session(r)}
      [] config.policy = "cache_aware"    -> first_best(LAMBDA a : cache_aware_score(r, load, a))
      [] config.policy = "oracle"         -> first_best(LAMBDA a : oracle_score(r, a))
      [] OTHER                            -> {}

-----------------------------------------------------------------------------
(* run() *)

Init ==
    /\ WorkloadInit
    /\ config \in Configs[shape]
    /\ session_adapter = <<>>
    /\ adapter_tenants = <<>>
    /\ adapter_trust_groups = <<>>
    /\ observed = {}
    /\ decisions = <<>>

GenerateRequest ==
    /\ Generate
    /\ UNCHANGED <<config, state_vars, observed, decisions>>

\* route, generate and observe_request, for the next request of the list
RouteRequest ==
    /\ Len(stream) = planned_request_count
    /\ Len(decisions) < Len(stream)
    /\ LET r == stream[Len(decisions) + 1]
       IN  \E load \in Loads : \E adapter \in choices(r, load) :
              /\ decisions' = Append(decisions,
                                     [adapter |-> adapter,
                                      cached  |-> [a \in adapter_ids |-> cached(a, r)]])
              /\ remember(r, adapter)
              /\ observed' = IF config.condition # "warm" THEN observed
                             ELSE observed \union {[namespace |-> namespace(adapter, r),
                                                    prompt    |-> r.prompt]}
    /\ UNCHANGED <<shape, stream, drawn, config>>

Next == GenerateRequest \/ RouteRequest

Spec == Init /\ [][Next]_vars

-----------------------------------------------------------------------------
(* Properties *)

\* The tasks of the requests lo + 1 .. hi, drawn from shuffled blocks of some
\* length: of each task as many as whole blocks have, and of no task more than
\* the next block has.
in_blocks(block, length, lo, hi) ==
    LET whole == (hi - lo) \div length
    IN  \A t \in Tasks :
            LET share == IF t \in DOMAIN block THEN block[t] ELSE 0
                uses  == Cardinality({k \in 1 .. hi - lo : stream[lo + k].task = t})
            IN  share * whole <= uses /\ uses <= share * (whole + 1)

\* Each regime has the structure it is named for (docs/regime_science.md,
\* "Regime Axes") whatever the generator draws, and the structure metrics of
\* the summary say so: a uniform mix uses every task and document equally often;
\* a zipfian one is mostly of the first tasks, at any length; bursts keep to their
\* session; the two phases have mixes of their own, and no document in common;
\* churn changes the adapter with every request, reuses no document, and comes
\* back to an adapter as late as it can.
RegimeStructure ==
    LET n == Len(stream)
        uses(field(_), v) == Cardinality({k \in DOMAIN stream : field(stream[k]) = v})
    IN  n = planned_request_count =>
        CASE shape = "regime_uniform" ->
                /\ \A t, u \in Tasks : uses(LAMBDA r : r.task, t)
                                         <= uses(LAMBDA r : r.task, u) + 1
                /\ \A d, e \in 0 .. Docs - 1 : uses(LAMBDA r : r.prefix, d)
                                                 <= uses(LAMBDA r : r.prefix, e) + 1
          [] shape = "regime_zipfian" ->
                in_blocks([qa |-> 12, json |-> 6, summary |-> 3, code |-> 1], 22, 0, n)
          [] shape = "regime_bursty_session" ->
                \* all requests but one in each full burst, and in a last short one
                (n - 1 - same_session_transitions(stream)) * Min(BurstLengths) < n
          [] shape = "regime_phase_shift" ->
                /\ \A j \in 1 .. midpoint, k \in midpoint + 1 .. n :
                        stream[j].prefix # stream[k].prefix
                /\ in_blocks([qa |-> 6, json |-> 4, summary |-> 1], 11, 0, midpoint)
                /\ in_blocks([code |-> 6, summary |-> 4, json |-> 1], 11, midpoint, n)
          [] shape = "regime_adversarial_churn" ->
                /\ n > 0 => switches(stream) = n - 1
                /\ reusable(stream) = 0
                /\ Sessions > 1 => same_session_transitions(stream) = 0
                /\ reuse_distances(stream) = 3 * Cardinality(5 .. n)
          [] OTHER -> TRUE

\* Whatever a policy falls back to, the adapter of a decision is one that the
\* configuration serves: the backend has a model for it.
DecisionsAreServed == \A k \in DOMAIN decisions : decisions[k].adapter \in adapter_ids

\* Where all specialists are served, session affinity shows only for a session
\* with a request of a task that none is trained for: it is sent to multitask,
\* which is good enough for every task, and all later requests of the session
\* stay there.  Else a specialist is below the threshold for every task but its
\* own, and sticky_session chooses what semantic does.
StickyIsSemantic ==
    config.policy = "sticky_session" /\ Tasks \subseteq adapter_ids =>
        \A k \in DOMAIN decisions :
            LET caught == /\ "multitask" \in adapter_ids
                          /\ \E j \in 1 .. k - 1 : /\ stream[j].session = stream[k].session
                                                   /\ stream[j].task \notin Tasks
            IN  stream[k].task \in Tasks =>
                    decisions[k].adapter = IF caught THEN "multitask" ELSE stream[k].task

\* The adapters that were trained for a task.
trained(task) == {a \in adapter_ids : a \in {task, "multitask"}}

\* The largest penalties leave the specialist of a task ahead of an adapter of
\* another one, by the smallest specialist prior.  A cold adapter is not isolated.
PriorsPrevail ==
    \A name \in Shapes : \A c \in Configs[name] : \A load \in Loads : \A k \in DOMAIN c.adapters :
        \A last \in {Weights.delta, Weights.epsilon} :
            Weights.beta * load[c.adapters[k]] + Weights.gamma + last < 880 - 460

\* The penalties for load, switching, isolation and cold adapters, all together,
\* never send a request past the specialist for its task to one of another task:
\* cache_aware does so only for cached tokens that the specialist has not.  (Past
\* the multitask adapter it may.)  oracle passes over neither of the two.
UntrainedOnlyForCache ==
    \A k \in DOMAIN decisions :
        LET d == decisions[k]
            r == stream[k]
            untrained == r.task \in Tasks /\ d.adapter \notin {r.task, "multitask"}
        IN  /\ config.policy = "cache_aware" /\ untrained /\ r.task \in adapter_ids
               => d.cached[d.adapter] > d.cached[r.task]
            /\ config.policy = "oracle" /\ untrained
               => {r.task, "multitask"} \intersect adapter_ids = {}
=============================================================================
