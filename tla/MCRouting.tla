----------------------------- MODULE MCRouting -----------------------------
(* Every policy over lists of adapters with and without the one of a task.  *)
EXTENDS Routing

MCShapes == WorkloadNames

\* One task from three trust groups, after a task that no adapter is named for
\* in the session of the first.
row(task, expected, doc, session, group) ==
    [task |-> task, expected |-> expected, doc |-> doc, session |-> session,
     tenant |-> group, trust |-> group]
MCRows ==
    <<row("extract", "", 0, 0, 2), row("code", "", 0, 0, 0),
      row("code", "multitask", 1, 1, 1), row("code", "", 2, 2, 2)>>

All == <<"qa", "json", "summary", "code", "multitask">>
Four == <<"qa", "json", "summary", "code">>
base == [adapters |-> All, condition |-> "warm", scope |-> "trust_group", salt |-> FALSE]
with(policy, c) == [policy |-> policy, adapters |-> c.adapters, condition |-> c.condition,
                    scope |-> c.scope, salt |-> c.salt]

\* Three adapters, so that a task may be without the one trained for it.
Three == <<"json", "qa", "multitask">>
aware == with("cache_aware", base)
sticky(adapters) == with("sticky_session", [base EXCEPT !.adapters = adapters])
aware_cold == with("cache_aware", [base EXCEPT !.adapters = Four, !.condition = "cold"])
aware_salt == with("cache_aware", [base EXCEPT !.adapters = Four, !.salt = TRUE])
aware_tenant == with("cache_aware", [base EXCEPT !.adapters = Three, !.scope = "tenant",
                                                 !.condition = "cold"])

AllConfigs ==
    {with("random", [base EXCEPT !.adapters = <<"qa", "json">>]),
     with("multitask", [base EXCEPT !.adapters = <<"multitask">>]),
     with("semantic", [base EXCEPT !.adapters = <<"json", "summary", "multitask">>]),
     with("oracle", base), aware, aware_cold, aware_salt, aware_tenant,
     with("cache_aware", [base EXCEPT !.adapters = <<"qa", "json">>, !.scope = "none"])}
    \union {sticky(adapters) : adapters \in {All, Four, Three, <<"qa", "code">>}}

\* The workloads with many draws run with few configurations.
MCConfigs ==
    [name \in MCShapes |->
        CASE name = "regime_uniform" -> {aware, sticky(Four)}
          [] name = "regime_zipfian" -> {sticky(All)}
          [] name = "regime_phase_shift" -> {aware_cold, sticky(<<"qa", "code">>)}
          [] name = "regime_bursty_session" -> {aware_salt, sticky(Three)}
          [] name = "regime_adversarial_churn" -> {aware_tenant, with("oracle", base)}
          [] OTHER -> AllConfigs]

MCWeights == [alpha |-> 10, beta |-> 1, gamma |-> 100, delta |-> 250, epsilon |-> 50]

\* No load, or 16 dispatches in flight to one adapter.
MCLoads == {[a \in AdapterNames |-> IF a = busy THEN 16 ELSE 0] :
                busy \in {"none", "code", "qa"}}

\* Bound: a zipfian request draws its document with its session.
MCZipfianDocs ==
    shape = "regime_zipfian" => \A k \in DOMAIN stream : stream[k].prefix = stream[k].session

\* So that UntrainedOnlyForCache is about the cache.
ASSUME PriorsPrevail
=============================================================================
