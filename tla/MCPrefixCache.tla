---------------------------- MODULE MCPrefixCache ----------------------------
(***************************************************************************)
(* Instance of PrefixCache for TLC: every model in every condition, with   *)
(* and without a budget of two blocks and one token, under every           *)
(* isolation; prompts that share one chunk, that differ in the marker, and *)
(* whose marker is not at the start of a chunk.                            *)
(***************************************************************************)
EXTENDS PrefixCache

Config(model, condition, budget, scope, salted) ==
    [model |-> model, condition |-> condition, budget |-> budget,
     scope |-> scope, salted |-> salted]

MCModels == {"standard_lora", "base_shared", "copy_on_write", "activated_lora"}

MCConfigs ==
    {Config(m, "warm", b, "trust_group", FALSE) : m \in MCModels, b \in {5, NoBudget}}
    \cup {Config(m, "cold", NoBudget, "trust_group", FALSE) : m \in MCModels}
    \cup {Config(m, "prefix_disabled", NoBudget, "trust_group", FALSE)
            : m \in {"standard_lora", "copy_on_write"}}
    \cup {Config("standard_lora", "warm", NoBudget, s, FALSE) : s \in {"tenant", "none"}}
    \cup {Config("standard_lora", "warm", 1, "trust_group", FALSE),
          Config("base_shared", "warm", NoBudget, "tenant", TRUE)}

Request(adapter, prompt, tenant, group) ==
    [adapter |-> adapter, prompt |-> prompt, tenant |-> tenant, group |-> group]

MCRequests ==
    {Request("qa",   <<"doc", "text", "@qa", "ask">>,           "t1", "g1"),
     Request("qa",   <<"doc", "text", "@qa", "ask">>,           "t2", "g1"),
     Request("json", <<"doc", "text", "@qa", "ask">>,           "t1", "g1"),
     Request("json", <<"doc", "text", "@json", "ask">>,         "t1", "g2"),
     Request("qa",   <<"doc", "text", "more", "@qa", "ask">>,   "t1", "g1"),
     Request("qa",   <<"note", "@qa", "ask">>,                  "t1", "g1"),
     Request("qa",   <<"doc", "text", "more", "and", "even", "more">>, "t1", "g1")}
=============================================================================
