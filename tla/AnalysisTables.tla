---------------------------- MODULE AnalysisTables ----------------------------
(***************************************************************************)
(* The tables made from the summaries of runs: the Pareto frontier, the    *)
(* policy regret, the claim evidence with its paired deltas, and the       *)
(* frozen benchmark_v0 suite.  A data frame is a set of rows (the order    *)
(* matters only where a table sorts), a grouping a set of sets of rows.    *)
(*                                                                         *)
(* A row has run_id, workload, router, cache, condition, alias (of its     *)
(* model), seed and stamp (what its run_id ends with), the metrics qag,    *)
(* quality and ttft, and sweep, a function from the sweep dimensions in    *)
(* its manifest to their values.  A mean is a pair of a sum and a count;   *)
(* the other metrics are averaged like these, and confidence intervals and *)
(* request counts are left out.                                            *)
(*                                                                         *)
(* An operator named X_Fault is X with a fault a programmer could make; no *)
(* specification uses it.                                                  *)
(***************************************************************************)
EXTENDS Integers, Sequences, SequencesExt, FiniteSetsExt

CONSTANTS
    NoStamp,        \* a run_id that does not end with a timestamp
    Unknown         \* a dimension that a run has not recorded

\* DataFrame.groupby
GroupBy(df, key(_)) == {{r \in df : key(r) = k} : k \in {key(r) : r \in df}}

Sample(rows) == CHOOSE r \in rows : TRUE

Mean(rows, metric) == [sum |-> MapThenSumSet(LAMBDA r : r[metric], rows),
                       count |-> Cardinality(rows)]

\* m - n for two means, as a fraction.
Minus(m, n) == [num |-> m.sum * n.count - n.sum * m.count, den |-> m.count * n.count]
------------------------------------------------------------------------------
\* Sorts both columns in ascending order.
frontier_order_Ascending(r, q) == r.ttft < q.ttft \/ (r.ttft = q.ttft /\ r.quality <= q.quality)

\* Ascending latency; of equal latencies the best quality first.
frontier_order(r, q) == r.ttft < q.ttft \/ (r.ttft = q.ttft /\ r.quality >= q.quality)

\* df.sort_values
ordered(df) ==
    CHOOSE s \in SetToSeqs(df) : \A j \in DOMAIN s : \A i \in 1 .. j : frontier_order(s[i], s[j])

(***************************************************************************)
(* pareto_frontier walks the rows in that order and keeps each one that is *)
(* better than every row before it.                                        *)
(***************************************************************************)
pareto_frontier(df) ==
    LET keep(kept, r) == IF r.quality > kept.best
                         THEN [rows |-> kept.rows \cup {r}, best |-> r.quality] ELSE kept
    IN  FoldLeft(keep, [rows |-> {}, best |-> -1], ordered(df)).rows

workload_pareto_frontiers(df) ==
    UNION {pareto_frontier(group) : group \in GroupBy(df, LAMBDA r : r.workload)}
------------------------------------------------------------------------------
\* A run without a strategy in its dimensions is named for its router or cache.
infer_strategy(r) ==
    IF "strategy" \in DOMAIN r.sweep THEN r.sweep.strategy
    ELSE IF r.router = "multitask" THEN "multitask"
    ELSE r.cache

\* The regret table also knows the oracle.
infer_policy(r) ==
    IF "strategy" \notin DOMAIN r.sweep /\ r.router = "oracle" THEN "oracle" ELSE infer_strategy(r)

NonRegimeKeys == {"cache", "cache_model", "policy", "router", "router_policy", "seed", "strategy",
                  "workload"}

SweepKeys(df) == UNION {DOMAIN r.sweep : r \in df}

\* Looks at the recorded dimensions only.
regime_columns_SweepOnly(df) == {"workload"} \cup (SweepKeys(df) \ NonRegimeKeys)

(***************************************************************************)
(* _dimension_columns: the workload, every dimension that is not about the *)
(* policy, and the cache condition as soon as a run was not warm.          *)
(***************************************************************************)
regime_columns(df) ==
    LET swept == SweepKeys(df) \ NonRegimeKeys
    IN  {"workload"} \cup swept
            \cup {k \in {"cache_condition"} \ swept : \E r \in df : r.condition # "warm"}

regime_key(r, columns) ==
    [k \in columns |->
        IF k = "workload" THEN r.workload
        ELSE IF k \in DOMAIN r.sweep THEN r.sweep[k]
        ELSE IF k = "cache_condition" THEN r.condition ELSE Unknown]

policy_means(df) ==
    LET columns == regime_columns(df)
        key(r)  == <<regime_key(r, columns), infer_policy(r), r.router, r.cache>>
    IN  {[regime |-> key(Sample(group))[1], policy |-> key(Sample(group))[2],
          router |-> Sample(group).router, cache |-> Sample(group).cache,
          runs |-> Cardinality(group), qag |-> Mean(group, "qag")] : group \in GroupBy(df, key)}

\* The better mean; which of equal ones comes first is decided by name.
Better(p, q) == Minus(p.qag, q.qag).num > 0

(***************************************************************************)
(* build_policy_regret_table: every policy of a regime against the best    *)
(* one observed there, also when the oracle is present and is not it.      *)
(***************************************************************************)
build_policy_regret_table(df) ==
    LET policies  == policy_means(df)
        rivals(p) == {q \in policies : q.regime = p.regime}
        baseline(p) == CHOOSE b \in rivals(p) : \A q \in rivals(p) : ~Better(q, b)
        above(p)  == {q \in rivals(p) : Better(q, p)}
        oracle(p) == "oracle" \in {p.policy, p.router}
    IN  {[policy |-> p, baseline |-> baseline(p), regret |-> Minus(baseline(p).qag, p.qag),
          rank |-> 1 + Cardinality(GroupBy(above(p),
                          LAMBDA q : {s \in above(p) : ~Better(s, q) /\ ~Better(q, s)})),
          oracle_present |-> \E q \in rivals(p) : oracle(q),
          baseline_source |-> IF oracle(baseline(p)) THEN "oracle" ELSE "best_observed"]
            : p \in policies}
------------------------------------------------------------------------------
NonComparableKeys == {"adapter_count", "model", "model_alias", "seed", "strategy"}

model_alias(r) == IF "model_alias" \in DOMAIN r.sweep THEN r.sweep.model_alias ELSE r.alias

\* _claim_group over the dimensions not excluded; without any, workload and cache.
claim_group(r, excluded) ==
    IF DOMAIN r.sweep \subseteq excluded THEN [workload |-> r.workload, cache |-> r.cache]
    ELSE [k \in DOMAIN r.sweep \ excluded |-> r.sweep[k]]

(***************************************************************************)
(* The evidence rows: one per claim group, model and strategy.             *)
(***************************************************************************)
evidence_rows(df) ==
    LET key(r) == <<claim_group(r, NonComparableKeys \ {"adapter_count"}), model_alias(r),
                    infer_strategy(r)>>
    IN  {[key |-> key(Sample(group)), runs |-> Cardinality(group),
          quality |-> Mean(group, "quality")] : group \in GroupBy(df, key)}

paired_key(r) == <<claim_group(r, NonComparableKeys), model_alias(r)>>

OfStrategy(rows, s) == {r \in rows : infer_strategy(r) = s}

\* A strategy that is missing counts as a run without quality.
seed_delta_MissingIsZero(rows, seed) ==
    LET of(s) == {r \in OfStrategy(rows, s) : r.sweep.seed = seed}
        mean(s) == IF of(s) = {} THEN [sum |-> 0, count |-> 1] ELSE Mean(of(s), "quality")
    IN  {Minus(mean("specialists"), mean("multitask"))}

\* The difference of the two strategies with one seed, if both have runs.
seed_delta(rows, seed) ==
    LET of(s) == {r \in OfStrategy(rows, s) : r.sweep.seed = seed}
    IN  IF of("specialists") = {} \/ of("multitask") = {} THEN {}
        ELSE {Minus(Mean(of("specialists"), "quality"), Mean(of("multitask"), "quality"))}

(***************************************************************************)
(* The paired rows: specialists against multitask, seed by seed, within a  *)
(* group of runs that differ in nothing else but the number of adapters.   *)
(***************************************************************************)
paired_delta_rows(df) ==
    LET seeded == {r \in df : "seed" \in DOMAIN r.sweep}
        seeds(group) == {r.sweep.seed : r \in group}
        deltas(group) == UNION {{<<s, d>> : d \in seed_delta(group, s)} : s \in seeds(group)}
    IN  {[key |-> paired_key(Sample(group)), deltas |-> deltas(group)] :
            group \in {g \in GroupBy(seeded, paired_key) :
                          /\ OfStrategy(g, "specialists") # {} /\ OfStrategy(g, "multitask") # {}
                          /\ deltas(g) # {}}}
------------------------------------------------------------------------------
combination(r) == <<r.workload, r.router, r.cache, r.seed>>

(***************************************************************************)
(* benchmark_v0_summary: the latest run of every combination.  The seed    *)
(* and the time are read from the run_id, which must end with              *)
(* -seed<n>-<timestamp>.                                                   *)
(***************************************************************************)
benchmark_v0_rows(df) ==
    LET named == {r \in df : r.stamp # NoStamp}
    IN  {CHOOSE r \in group : \A q \in group : q.stamp <= r.stamp :
            group \in GroupBy(named, combination)}

benchmark_v0_missing(df, expected) == expected \ {combination(r) : r \in benchmark_v0_rows(df)}
=============================================================================
