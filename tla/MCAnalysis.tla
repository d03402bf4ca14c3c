------------------------------- MODULE MCAnalysis -------------------------------
(***************************************************************************)
(* Five small directories of runs: the policies of two matrix sweeps under *)
(* two cache conditions, of which only the cold one names its condition; a *)
(* single run beside a legacy one; two strategies with a seed that only    *)
(* one of them has; two models of the model-family sweep; and a suite of   *)
(* one combination in place of the 180 of benchmark_v0.                    *)
(***************************************************************************)
EXTENDS Analysis

\* The second is worse, the third faster than the first and as good in qag.
MCMetrics == {[qag |-> 2, quality |-> 2, ttft |-> 2], [qag |-> 1, quality |-> 1, ttft |-> 2],
              [qag |-> 2, quality |-> 1, ttft |-> 1]}

MCRun(router, cache, condition, sweep) ==
    [workload |-> "w1", router |-> router, cache |-> cache, condition |-> condition,
     alias |-> "base", sweep |-> sweep, seed |-> 17, stamp |-> NoStamp,
     family |-> FALSE, legacy |-> FALSE, frozen |-> FALSE]

MCMatrix(router, cache, extra) ==
    extra @@ [router |-> router, cache |-> cache, workload |-> "w1", seed |-> 17]

\* A warm sweep does not name its condition, a cold one does.
MCRegime ==
    ("warm-oracle" :> MCRun("oracle", "standard_lora", "warm",
                            MCMatrix("oracle", "standard_lora", <<>>)))
    @@ ("warm-sticky" :> MCRun("sticky_session", "standard_lora", "warm",
                               MCMatrix("sticky_session", "standard_lora", <<>>)))
    @@ ("cold-sticky" :> MCRun("sticky_session", "standard_lora", "cold",
                               MCMatrix("sticky_session", "standard_lora",
                                        [cache_condition |-> "cold"])))

\* Without dimensions the condition is all that tells two regimes apart.
MCSingle ==
    ("legacy" :> [MCRun("semantic", "base_shared", "warm", <<>>) EXCEPT !.legacy = TRUE])
    @@ ("cold-multitask" :> MCRun("multitask", "standard_lora", "cold", <<>>))

MCStrategy(strategy, seed, adapters, alias) ==
    MCRun(IF strategy = "multitask" THEN "multitask" ELSE "cache_aware", "standard_lora", "warm",
          [strategy |-> strategy, seed |-> seed, adapter_count |-> adapters,
           model_alias |-> alias, workload |-> "w1", cache |-> "standard_lora"])

MCPairs ==
    ("specialists-17" :> MCStrategy("specialists", 17, 2, "base"))
    @@ ("multitask-17" :> MCStrategy("multitask", 17, 4, "base"))
    @@ ("specialists-23" :> MCStrategy("specialists", 23, 2, "base"))

MCFamily ==
    ("model-family-a" :> [MCStrategy("specialists", 17, 2, "a") EXCEPT !.family = TRUE])
    @@ ("model-family-b" :> [MCStrategy("specialists", 17, 2, "b") EXCEPT !.family = TRUE])

\* A child of the matrix sweep, and a single run whose id ends with its time.
MCFrozen ==
    ("w1-oracle-standard_lora-seed17" :>
        [MCRun("oracle", "standard_lora", "warm", MCMatrix("oracle", "standard_lora", <<>>))
            EXCEPT !.frozen = TRUE])
    @@ ("w1-oracle-standard_lora-seed23-1" :>
            [MCRun("oracle", "standard_lora", "warm", <<>>) EXCEPT !.seed = 23, !.stamp = 1])

MCSuites == {MCRegime, MCSingle, MCPairs, MCFamily, MCFrozen}
=============================================================================
