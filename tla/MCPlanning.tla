----------------------------- MODULE MCPlanning -----------------------------
(* The shapes of the shipped configurations, each with few values per key.  *)
EXTENDS Planning

None == <<>>

memory_pressure ==
    [fields |-> [run_name |-> "memory-pressure", requests |-> 64, budget |-> "512"],
     matrix |-> [routers |-> {"semantic", "oracle"}, caches |-> {"standard_lora"},
                 workloads |-> {"shared_doc_qa"}, seeds |-> {11, 17}]]
repeated ==
    [fields |-> [run_name |-> "repeated", requests |-> 48],
     matrix |-> [routers |-> {"semantic", "oracle"}, caches |-> {"standard_lora"},
                 workloads |-> {"shared_doc_qa"}, seeds |-> {17}]]
conditions ==
    [fields |-> [run_name |-> "regime", condition |-> "cold"],
     matrix |-> [routers |-> {"semantic"}, cache_conditions |-> {"warm", "cold"}]]
concurrency ==
    [fields |-> [run_name |-> "frontier", kind |-> "vllm", adapters |-> {"qa", "code"}],
     matrix |-> [strategies |-> {"base", "semantic", "cache_static", "sticky_session"},
                 concurrencies |-> {1, 4}]]
default_strategies ==
    [fields |-> [run_name |-> "pilot", kind |-> "vllm", scrape |-> TRUE],
     matrix |-> [concurrencies |-> {1, 2}]]
adapter_counts ==
    [fields |-> [run_name |-> "counts", kind |-> "vllm"],
     matrix |-> [strategies |-> {"base", "specialists", "multitask", "semantic"},
                 adapter_counts |-> {2, 5}, tenants |-> {2},
                 isolation_scopes |-> {"tenant", "none"}]]
models ==
    [fields |-> [run_name |-> "family", kind |-> "vllm"],
     matrix |-> [models |-> {[name |-> "org1/base", alias |-> "", last_part |-> "base"],
                             [name |-> "org2/base", alias |-> "", last_part |-> "base"],
                             [name |-> "org3/base", alias |-> "tuned",
                              last_part |-> "base"]},
                 overlap_fractions |-> {"0.5"}, routers |-> {"random"}]]
plain == [fields |-> [run_name |-> "small"], matrix |-> None]
spaced ==
    [fields |-> [run_name |-> "spaced", kind |-> "openai_compatible", spaced |-> TRUE,
                 url_ok |-> FALSE, port_ok |-> FALSE],
     matrix |-> None]
unknown == [fields |-> [run_name |-> "odd"], matrix |-> [surprise |-> {1}]]

MCFiles == {memory_pressure, repeated, conditions, concurrency, default_strategies,
            adapter_counts, models, plain, spaced, unknown}

\* An overlay of fields, and one of the matrix.
MCOverlays ==
    {[fields |-> [metrics_url |-> FALSE, concurrency |-> 2, condition |-> "cold"],
      matrix |-> None],
     [fields |-> None, matrix |-> [cache_conditions |-> {"prefix_disabled"}]]}

NoBudget == [resume |-> FALSE, max_runs |-> Unset, max_requests |-> Unset,
             max_gpu_hours |-> Unset, seconds_per_run |-> Unset]
MCBudgets ==
    {NoBudget,
     [NoBudget EXCEPT !.max_runs = 3, !.max_requests = 100],
     [NoBudget EXCEPT !.resume = TRUE, !.max_gpu_hours = 1, !.seconds_per_run = 1200]}

NoFlags == [check_gcloud |-> FALSE, instance |-> FALSE, zone |-> FALSE,
            quota |-> FALSE, port |-> FALSE, provenance |-> FALSE]
AllFlags == [f \in DOMAIN NoFlags |-> TRUE]
MCCloudFlags == {AllFlags, [NoFlags EXCEPT !.quota = TRUE]}

Ready ==
    [gcloud |-> TRUE, account |-> TRUE, project |-> TRUE, port_free |-> TRUE,
     instance   |-> [answer |-> "described", gpus |-> 1, known_gpu |-> TRUE],
     regional   |-> [answer |-> "listed", headroom |-> 1],
     overall    |-> [answer |-> "unlisted", headroom |-> 0],
     provenance |-> [complete |-> TRUE, gcp |-> TRUE, wrong |-> {}]]
MCEnvironments ==
    {Ready,
     [Ready EXCEPT !.gcloud = FALSE, !.port_free = FALSE],
     [Ready EXCEPT !.account = FALSE, !.project = FALSE, !.instance.answer = "garbled"],
     [Ready EXCEPT !.instance.known_gpu = FALSE, !.provenance.complete = FALSE],
     [Ready EXCEPT !.instance.gpus = 0, !.provenance.gcp = FALSE],
     [Ready EXCEPT !.regional.headroom = 0, !.overall.answer = "refused",
                   !.provenance.wrong = {"ACB_CLOUD_INSTANCE", "ACB_CLOUD_ZONE",
                                         "ACB_CLOUD_GPU_TYPE"}]}
=============================================================================
