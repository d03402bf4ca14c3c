------------------------------ MODULE Planning ------------------------------
(***************************************************************************)
(* From configuration files to runs: `acb doctor` and `acb run`            *)
(* (cli.py), the merging of configuration files (config.py), the choice of *)
(* a runner, and the expansion of a matrix to children by the three sweeps *)
(* (run_matrix.py, run_concurrency_sweep.py, run_exhaustive_sweep.py).     *)
(* What a sweep does child by child, with failures and kills, is           *)
(* SweepState; here a sweep that is not refused finishes, and leaves in    *)
(* the run directory of every child the configuration that was run.        *)
(*                                                                         *)
(* A run name is kept as the tuple of the parts that the code joins with   *)
(* dashes.  _slug only replaces characters that keep the values of the     *)
(* shipped configurations apart.                                           *)
(***************************************************************************)
EXTENDS Integers, Sequences, FiniteSets, Functions

CONSTANTS
    Files,              \* the configuration files an operator may name
    Overlays,           \* files that are named second, to override fields
    Budgets,            \* the budget options of a command line
    Environments,       \* what the machine and the cloud may answer
    CloudFlags,         \* the flags of `acb doctor` about the cloud
    Unset,              \* an option that was not given
    MaxCommands         \* bound: how many commands the operator gives

ASSUME CommandsAssumption == MaxCommands \in Nat

VARIABLES
    store,              \* run name -> the configuration its directory holds
    report,             \* what the last `acb doctor` said, and of what
    outcome,            \* what the last `acb run` did
    sweeps,             \* history: the children of every sweep that finished
    commands            \* number of commands given

planVars == <<store, report, outcome, sweeps, commands>>

-----------------------------------------------------------------------------
(* load_config.  A file is a record of the fields it sets and a matrix.    *)

\* A dict with the entries of another laid over it.
updated(base, override) ==
    [k \in DOMAIN base \union DOMAIN override |->
        IF k \in DOMAIN override THEN override[k] ELSE base[k]]

\* A later file whose matrix replaces the earlier one as a whole.
deep_merge_Shallow(base, override) ==
    [fields |-> updated(base.fields, override.fields),
     matrix |-> IF DOMAIN override.matrix = {} THEN base.matrix ELSE override.matrix]

deep_merge(base, override) ==
    [fields |-> updated(base.fields, override.fields),
     matrix |-> updated(base.matrix, override.matrix)]

\* BenchmarkConfig and what it defaults to.
Defaults ==
    [run_name |-> "small", policy |-> "cache_aware", beta |-> "default",
     adapters |-> {"qa", "json", "summary", "code", "multitask"},
     served |-> {}, family |-> "none", model |-> "mock", kind |-> "mock",
     concurrency |-> 1, spaced |-> FALSE, workload |-> "shared_doc_qa",
     cache |-> "standard_lora", condition |-> "warm", seed |-> 11,
     overlap |-> "1.0", tenants |-> 2, scope |-> "trust_group",
     requests |-> 40, budget |-> "unbounded", url_ok |-> TRUE, port_ok |-> TRUE,
     scrape |-> FALSE, metrics_url |-> TRUE]

load_config(paths) ==
    LET merged == IF Len(paths) = 1 THEN paths[1] ELSE deep_merge(paths[1], paths[2])
    IN  [config |-> updated(Defaults, merged.fields), matrix |-> merged.matrix]

-----------------------------------------------------------------------------
(* infer_runner *)

MATRIX_KEYS == {"routers", "caches", "cache_conditions", "workloads", "seeds"}
CONCURRENCY_SWEEP_KEYS == {"strategies", "concurrencies", "cache_conditions", "seeds"}
EXHAUSTIVE_SWEEP_KEYS ==
    {"strategies", "concurrencies", "workloads", "caches", "cache_conditions", "seeds",
     "overlap_fractions", "adapter_counts", "tenants", "isolation_scopes", "models"}
EXHAUSTIVE_ONLY_KEYS == EXHAUSTIVE_SWEEP_KEYS \ (CONCURRENCY_SWEEP_KEYS \union MATRIX_KEYS)
KNOWN_MATRIX_KEYS == MATRIX_KEYS \union CONCURRENCY_SWEEP_KEYS \union EXHAUSTIVE_SWEEP_KEYS

SWEEP_RUNNERS == {"matrix", "concurrency-sweep", "exhaustive-sweep"}

\* The runner, or "error" where the code raises.
infer_runner(loaded) ==
    LET keys == DOMAIN loaded.matrix
        cfg  == loaded.config
    IN  CASE keys = {} /\ (cfg.concurrency > 1 \/ cfg.spaced) -> "concurrent"
          [] keys = {} /\ ~(cfg.concurrency > 1 \/ cfg.spaced) -> "workload"
          [] ~(keys \subseteq KNOWN_MATRIX_KEYS) -> "error"
          [] OTHER ->
             IF keys \intersect EXHAUSTIVE_ONLY_KEYS # {} THEN "exhaustive-sweep"
             ELSE IF keys \intersect {"strategies", "concurrencies"} # {}
                  THEN IF keys \subseteq CONCURRENCY_SWEEP_KEYS
                       THEN "concurrency-sweep" ELSE "exhaustive-sweep"
             ELSE IF keys \subseteq MATRIX_KEYS THEN "matrix" ELSE "error"

-----------------------------------------------------------------------------
(* apply_strategy, apply_adapter_count.  Files on which they raise are left *)
(* out: an unknown strategy, and a count outside 1..5 (of which base and    *)
(* multitask do not make use).                                              *)

STRATEGIES == {"base", "cache_static", "specialists", "multitask", "semantic",
               "sticky_session", "oracle"}

ASSUME StrategiesAssumption ==
    \A f \in Files \union Overlays :
        "strategies" \in DOMAIN f.matrix => f.matrix["strategies"] \subseteq STRATEGIES

ASSUME AdapterCountsAssumption ==
    \A f \in Files \union Overlays :
        "adapter_counts" \in DOMAIN f.matrix => f.matrix["adapter_counts"] \subseteq 1 .. 5

\* A list without values would leave a sweep without children.
ASSUME ListsAssumption ==
    \A f \in Files \union Overlays : \A key \in DOMAIN f.matrix : f.matrix[key] # {}

SPECIALISTS == {"qa", "json", "summary", "code"}

apply_strategy(cfg, strategy) ==
    CASE strategy = "base" -> [cfg EXCEPT !.policy = "cache_aware", !.served = {}]
      [] strategy = "cache_static" ->
            [cfg EXCEPT !.policy = "cache_aware", !.beta = "zero", !.served = SPECIALISTS]
      [] strategy = "specialists" ->
            [cfg EXCEPT !.policy = "cache_aware", !.served = SPECIALISTS]
      [] strategy = "multitask" ->
            [cfg EXCEPT !.policy = "multitask", !.adapters = {"multitask"},
                        !.served = {"multitask"}]
      [] strategy \in {"semantic", "sticky_session", "oracle"} ->
            [cfg EXCEPT !.policy = strategy, !.served = SPECIALISTS]

ADAPTER_IDS_BY_COUNT ==
    <<{"qa"}, {"qa", "json"}, {"qa", "json", "summary"}, SPECIALISTS,
      SPECIALISTS \union {"multitask"}>>

apply_adapter_count(cfg, strategy, count, family) ==
    CASE strategy = "base" -> cfg
      [] strategy = "multitask" ->
            [cfg EXCEPT !.adapters = {"multitask"}, !.served = {"multitask"},
                        !.family = family]
      [] OTHER ->
            [cfg EXCEPT !.adapters = ADAPTER_IDS_BY_COUNT[count],
                        !.served = ADAPTER_IDS_BY_COUNT[count], !.family = family]

-----------------------------------------------------------------------------
(* The expansions.  A child is a point of the matrix with its name and its *)
(* configuration; two points may lead to equal ones.                       *)

matrix_values(loaded, key, default) ==
    IF key \in DOMAIN loaded.matrix THEN loaded.matrix[key] ELSE {default}

\* Only names a condition that the matrix lists.
condition_label_Listed(loaded, condition) ==
    IF "cache_conditions" \in DOMAIN loaded.matrix THEN {condition} ELSE {}

\* What a name says of the condition: nothing, if all of the sweep is warm.
condition_label(loaded, condition) ==
    IF "cache_conditions" \in DOMAIN loaded.matrix \/ loaded.config.condition # "warm"
    THEN {condition} ELSE {}

matrix_points(loaded) ==
    LET cfg == loaded.config
    IN  [router    : matrix_values(loaded, "routers", cfg.policy),
         cache     : matrix_values(loaded, "caches", cfg.cache),
         condition : matrix_values(loaded, "cache_conditions", cfg.condition),
         workload  : matrix_values(loaded, "workloads", cfg.workload),
         seed      : matrix_values(loaded, "seeds", cfg.seed)]

matrix_name(loaded, p) ==
    [by |-> "matrix",
     parts |-> <<p.workload, p.router, p.cache, condition_label(loaded, p.condition),
                 p.seed>>]

matrix_config(cfg, p) ==
    [cfg EXCEPT !.policy = p.router, !.cache = p.cache, !.condition = p.condition,
                !.workload = p.workload, !.seed = p.seed]

expand_matrix_sweep(loaded) ==
    {[point |-> p, name |-> matrix_name(loaded, p),
      config |-> matrix_config(loaded.config, p)] : p \in matrix_points(loaded)}

concurrency_points(loaded) ==
    LET cfg == loaded.config
    IN  [strategy    : IF "strategies" \in DOMAIN loaded.matrix
                       THEN loaded.matrix["strategies"] ELSE {"base", "specialists"},
         concurrency : matrix_values(loaded, "concurrencies", cfg.concurrency),
         condition   : matrix_values(loaded, "cache_conditions", cfg.condition),
         seed        : matrix_values(loaded, "seeds", cfg.seed)]

concurrency_name(loaded, p) ==
    [by |-> "concurrency-sweep",
     parts |-> <<loaded.config.run_name, p.strategy, p.concurrency,
                 condition_label(loaded, p.condition), p.seed>>]

concurrency_config(cfg, p) ==
    [apply_strategy(cfg, p.strategy)
        EXCEPT !.concurrency = p.concurrency, !.condition = p.condition, !.seed = p.seed]

expand_concurrency_sweep_children(loaded) ==
    {[point |-> p, name |-> concurrency_name(loaded, p),
      config |-> concurrency_config(loaded.config, p)] : p \in concurrency_points(loaded)}

\* _model_specs: an entry of the matrix is a name or a record with its alias.
model_specs(loaded) ==
    {[name |-> m.name, alias |-> IF m.alias = "" THEN m.last_part ELSE m.alias]
        : m \in matrix_values(loaded, "models",
                              [name |-> loaded.config.model, alias |-> "",
                               last_part |-> loaded.config.model])}

\* The configuration of one point of an exhaustive sweep.
exhaustive_config(cfg, p) ==
    apply_adapter_count(
        [apply_strategy(cfg, p.strategy)
            EXCEPT !.model = p.model.name, !.concurrency = p.concurrency,
                   !.workload = p.workload, !.cache = p.cache, !.condition = p.condition,
                   !.seed = p.seed, !.overlap = p.overlap, !.tenants = p.tenants,
                   !.scope = p.scope],
        p.strategy, p.adapter_count, p.model.name)

\* The count is written for specialists only.
exhaustive_name_NoCount(loaded, p) ==
    [by |-> "exhaustive-sweep",
     parts |-> <<loaded.config.run_name, p.strategy, p.model.alias, p.concurrency,
                 p.workload, p.cache, condition_label(loaded, p.condition), p.overlap,
                 IF p.strategy = "specialists" THEN p.adapter_count ELSE 0,
                 p.tenants, p.scope, p.seed>>]

exhaustive_name(loaded, p) ==
    LET child == exhaustive_config(loaded.config, p)
        count == IF p.strategy = "specialists" THEN p.adapter_count
                 ELSE Cardinality(child.adapters)
    IN  [by |-> "exhaustive-sweep",
         parts |-> <<loaded.config.run_name, p.strategy, p.model.alias, p.concurrency,
                     p.workload, p.cache, condition_label(loaded, p.condition), p.overlap,
                     count, p.tenants, p.scope, p.seed>>]

exhaustive_points(loaded) ==
    LET cfg == loaded.config
    IN  [strategy      : matrix_values(loaded, "strategies", "specialists"),
         concurrency   : matrix_values(loaded, "concurrencies", cfg.concurrency),
         workload      : matrix_values(loaded, "workloads", cfg.workload),
         cache         : matrix_values(loaded, "caches", cfg.cache),
         condition     : matrix_values(loaded, "cache_conditions", cfg.condition),
         seed          : matrix_values(loaded, "seeds", cfg.seed),
         overlap       : matrix_values(loaded, "overlap_fractions", cfg.overlap),
         adapter_count : matrix_values(loaded, "adapter_counts", 4),
         tenants       : matrix_values(loaded, "tenants", cfg.tenants),
         scope         : matrix_values(loaded, "isolation_scopes", cfg.scope),
         model         : model_specs(loaded)]

expand_exhaustive_sweep(loaded) ==
    {[point |-> p, name |-> exhaustive_name(loaded, p),
      config |-> exhaustive_config(loaded.config, p)] : p \in exhaustive_points(loaded)}

\* _runner_children.  The name of a single run holds the time `now` of the command.
runner_children(loaded, runner, now) ==
    CASE runner = "matrix" -> expand_matrix_sweep(loaded)
      [] runner = "concurrency-sweep" -> expand_concurrency_sweep_children(loaded)
      [] runner = "exhaustive-sweep" -> expand_exhaustive_sweep(loaded)
      [] OTHER -> {[point |-> [run |-> runner], config |-> loaded.config,
                    name |-> [by |-> runner, parts |-> <<loaded.config.run_name, now>>]]}

-----------------------------------------------------------------------------
(* validate_budget: the first limit that the planned children exceed.      *)

planned_requests(children) ==
    FoldFunctionOnSet(LAMBDA n, sum : n + sum, 0,
                      [c \in children |-> c.config.requests], children)

ASSUME BudgetsAssumption ==
    Budgets \subseteq [resume : BOOLEAN, max_runs : Nat \union {Unset},
                       max_requests : Nat \union {Unset}, max_gpu_hours : Nat \union {Unset},
                       seconds_per_run : Nat \union {Unset}]

above(n, limit) == limit # Unset /\ n > limit

budget_error(children, options) ==
    LET runs == Cardinality(children)
    IN  IF above(runs, options.max_runs) THEN {"max_runs"}
        ELSE IF above(planned_requests(children), options.max_requests)
             THEN {"max_requests"}
        ELSE IF /\ options.max_gpu_hours # Unset
                /\ options.seconds_per_run # Unset
                /\ runs * options.seconds_per_run > options.max_gpu_hours * 3600
             THEN {"max_gpu_hours"}
        ELSE {}

has_sweep_options(options) ==
    \/ options.resume
    \/ \E o \in {"max_runs", "max_requests", "max_gpu_hours", "seconds_per_run"} :
            options[o] # Unset

-----------------------------------------------------------------------------
(* The checks of `acb doctor` that can fail, each with its errors.         *)

REMOTE_BACKENDS == {"vllm", "openai_compatible"}

\* One adapter with a name is enough.
backend_errors_AnyName(cfg) ==
    {e \in {"base_url", "metrics_url", "adapter_names"} :
        CASE e = "base_url" -> ~cfg.url_ok
          [] e = "metrics_url" -> cfg.kind = "vllm" /\ cfg.scrape /\ ~cfg.metrics_url
          [] e = "adapter_names" ->
                cfg.kind = "vllm" /\ cfg.served # {}
                /\ cfg.adapters \intersect cfg.served = {}}

\* What is wrong with the backend of a child.
backend_errors(cfg) ==
    {e \in {"base_url", "metrics_url", "adapter_names"} :
        CASE e = "base_url" -> ~cfg.url_ok
          [] e = "metrics_url" -> cfg.kind = "vllm" /\ cfg.scrape /\ ~cfg.metrics_url
          [] e = "adapter_names" ->
                cfg.kind = "vllm" /\ cfg.served # {} /\ ~(cfg.adapters \subseteq cfg.served)}

\* _check_gcloud_config
check_gcloud_config(env) ==
    IF ~env.gcloud THEN {"no gcloud"}
    ELSE (IF env.account THEN {} ELSE {"no account"})
            \union (IF env.project THEN {} ELSE {"no project"})

\* _check_gcloud_instance: its payload is of use only when it was described.
instance_described(env) == env.gcloud /\ env.instance.answer = "described"
check_gcloud_instance(env) ==
    IF ~env.gcloud THEN {"no gcloud"}
    ELSE IF instance_described(env) THEN {} ELSE {"no instance"}

\* _check_gcloud_quota; a quota that is not listed is no error.
quota_errors(quota, label, needed) ==
    CASE quota.answer = "refused" -> {label}
      [] quota.answer = "listed"  -> IF quota.headroom < needed THEN {label} ELSE {}
      [] quota.answer = "unlisted" -> {}

check_gcloud_quota(env, flags) ==
    CASE ~env.gcloud -> {"no gcloud"}
      [] env.gcloud /\ (~flags.instance \/ ~instance_described(env)) -> {"no gpu metadata"}
      [] OTHER ->
         IF env.instance.gpus <= 0 THEN {"no gpu metadata"}
         ELSE IF ~env.instance.known_gpu THEN {"unsupported gpu"}
         ELSE IF ~flags.zone THEN {"no zone"}
         ELSE quota_errors(env.regional, "regional quota", env.instance.gpus)
                \union quota_errors(env.overall, "project quota", env.instance.gpus)

\* _check_cloud_provenance.  `wrong` are the variables that disagree with a
\* flag or with the hardware of the instance, if those are known.
check_cloud_provenance(env, flags) ==
    IF ~env.provenance.complete THEN {"provenance missing"}
    ELSE (IF env.provenance.gcp THEN {} ELSE {"provider"})
            \union {v \in env.provenance.wrong :
                        CASE v = "ACB_CLOUD_INSTANCE" -> flags.instance
                          [] v = "ACB_CLOUD_ZONE"     -> flags.zone
                          [] v = "ACB_CLOUD_GPU_TYPE" ->
                                flags.instance /\ instance_described(env)}

\* _doctor_config: the errors of the report.
doctor_errors(children, options, flags, env) ==
    LET remote == {c \in children : c.config.kind \in REMOTE_BACKENDS}
    IN  budget_error(children, options) \union
        IF remote = {} THEN {}
        ELSE UNION {backend_errors(c.config) : c \in remote}
             \union (IF flags.check_gcloud THEN check_gcloud_config(env) ELSE {})
             \union (IF flags.instance THEN check_gcloud_instance(env) ELSE {})
             \union (IF flags.quota THEN check_gcloud_quota(env, flags) ELSE {})
             \union (IF flags.port
                     THEN (IF env.port_free THEN {} ELSE {"port in use"})
                          \union {"url port" : c \in {d \in remote : ~d.config.port_ok}}
                     ELSE {})
             \union (IF flags.provenance THEN check_cloud_provenance(env, flags) ELSE {})

-----------------------------------------------------------------------------
(* The commands *)

NoReport  == [of |-> <<>>]
NoOutcome == [of |-> <<>>]

PlanInit ==
    /\ store = <<>>
    /\ report = NoReport
    /\ outcome = NoOutcome
    /\ sweeps = {}
    /\ commands = 0

\* doctor_command, with --runner auto
Doctor(paths, options, flags, env) ==
    LET loaded   == load_config(paths)
        runner   == infer_runner(loaded)
        children == runner_children(loaded, runner, commands)
    IN  /\ commands < MaxCommands
        /\ commands' = commands + 1
        /\ report' = IF runner = "error"
                     THEN [of |-> paths, options |-> options, runner |-> runner,
                           planned |-> 0, errors |-> {"runner"}]
                     ELSE [of |-> paths, options |-> options, runner |-> runner,
                           planned |-> Cardinality(children),
                           errors |-> doctor_errors(children, options, flags, env)]
        /\ UNCHANGED <<store, outcome, sweeps>>

Refuse(paths, options, runner, why) ==
    /\ outcome' = [of |-> paths, options |-> options, runner |-> runner,
                   children |-> {}, refused |-> why]
    /\ UNCHANGED <<store, sweeps>>

\* execute_sweep, or the one run: a directory that --resume finds is kept.
Execute(paths, options, runner, children) ==
    LET fresh == {c \in children : ~(options.resume /\ c.name \in DOMAIN store)}
        last(name) == (CHOOSE c \in fresh : c.name = name).config
    IN  /\ store' = updated(store, [name \in {c.name : c \in fresh} |-> last(name)])
        /\ outcome' = [of |-> paths, options |-> options, runner |-> runner,
                       children |-> children, refused |-> {}]
        /\ sweeps' = sweeps \union {children}

\* run_command, with --runner auto
Run(paths, options) ==
    LET loaded   == load_config(paths)
        runner   == infer_runner(loaded)
        children == runner_children(loaded, runner, commands)
    IN  /\ commands < MaxCommands
        /\ commands' = commands + 1
        /\ UNCHANGED report
        /\ CASE runner = "error" -> Refuse(paths, options, runner, {"runner"})
             [] runner \notin SWEEP_RUNNERS \union {"error"} ->
                IF has_sweep_options(options)
                THEN Refuse(paths, options, runner, {"options"})
                ELSE Execute(paths, options, runner, children)
             [] runner \in SWEEP_RUNNERS ->
                IF budget_error(children, options) # {}
                THEN Refuse(paths, options, runner, budget_error(children, options))
                ELSE Execute(paths, options, runner, children)

CommandLines == {<<f>> : f \in Files} \union {<<f, o>> : f \in Files, o \in Overlays}

PlanNext ==
    \E paths \in CommandLines, options \in Budgets :
        \/ Run(paths, options)
        \/ \E flags \in CloudFlags, env \in Environments :
                ~options.resume /\ Doctor(paths, options, flags, env)

PlanSpec == PlanInit /\ [][PlanNext]_planVars

-----------------------------------------------------------------------------
(* Properties *)

\* Children of one sweep that share a run directory are the same run, so that
\* none overwrites another's results, and --resume skips none that did not run.
\* They may differ in the model, when two model names end in the same part.
NamesIdentifyRuns ==
    \A s \in sweeps : \A c, d \in s :
        c.name = d.name =>
            c.config = [d.config EXCEPT !.model  = c.config.model,
                                        !.family = c.config.family]

\* The fields of a configuration that a name of the runner tells: the named ones,
\* and what the strategy makes of the router and of the served adapters.
named_fields(runner) ==
    CASE runner = "matrix" -> {"policy", "cache", "condition", "workload", "seed"}
      [] runner = "concurrency-sweep" ->
            {"policy", "served", "concurrency", "condition", "seed"}
      [] runner = "exhaustive-sweep" ->
            {"policy", "served", "concurrency", "condition", "seed", "workload", "cache",
             "overlap", "tenants", "scope"}
      [] OTHER -> {}

\* The directory of a child holds a run with the fields that its name tells,
\* whichever sweep of whichever file ran there last and whatever --resume kept:
\* what a sweep reports of a run by its name is what was measured.
DirectoryHoldsName ==
    \A s \in sweeps : \A c \in s :
        /\ c.name \in DOMAIN store
        /\ \A k \in named_fields(c.name.by) : store[c.name][k] = c.config[k]

\* What a report without errors says of a configuration is what `acb run` then
\* does: it is not refused, unless for budget options that a single run does
\* not take, it has the planned number of children, and every adapter that a
\* vLLM child may choose has a model to serve it, or none of them has.
DoctorForeseesRun ==
    /\ report # NoReport
    /\ outcome # NoOutcome
    /\ report.of = outcome.of
    /\ report.options = [outcome.options EXCEPT !.resume = FALSE]
    /\ report.errors = {}
    =>
    /\ outcome.refused \subseteq {"options"}
    /\ outcome.refused = {} => Cardinality(outcome.children) = report.planned
    /\ \A c \in outcome.children :
            c.config.kind = "vllm" =>
                c.config.served = {} \/ c.config.adapters \subseteq c.config.served

\* The child c ran with the value v of a matrix key.
ran_with(c, key, v) ==
    CASE key = "routers"           -> c.config.policy = v
      [] key = "caches"            -> c.config.cache = v
      [] key = "cache_conditions"  -> c.config.condition = v
      [] key = "workloads"         -> c.config.workload = v
      [] key = "seeds"             -> c.config.seed = v
      [] key = "concurrencies"     -> c.config.concurrency = v
      [] key = "overlap_fractions" -> c.config.overlap = v
      [] key = "tenants"           -> c.config.tenants = v
      [] key = "isolation_scopes"  -> c.config.scope = v
      [] key = "strategies"        -> "strategy" \in DOMAIN c.point /\ c.point.strategy = v
      [] key = "adapter_counts"    ->
            "adapter_count" \in DOMAIN c.point /\ c.point.adapter_count = v
      [] OTHER -> FALSE

\* The runner that is inferred runs every value that a file of the command line
\* lists and no later file overrides.  It does not for `routers` beside keys that
\* only the exhaustive sweep has, which has no such dimension.
EveryValueIsRun ==
    outcome # NoOutcome /\ outcome.refused = {} =>
        \A i \in DOMAIN outcome.of :
            \A key \in DOMAIN outcome.of[i].matrix \ {"models"} :
                \/ \E j \in DOMAIN outcome.of :
                        j > i /\ key \in DOMAIN outcome.of[j].matrix
                \/ outcome.runner = "exhaustive-sweep" /\ key = "routers"
                \/ \A v \in outcome.of[i].matrix[key] :
                        \E c \in outcome.children : ran_with(c, key, v)
=============================================================================
