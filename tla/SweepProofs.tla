----------------------------- MODULE SweepProofs -----------------------------
(***************************************************************************)
(* Sweeps, from their configuration files to the end of their last         *)
(* invocation: which runs are planned, for every set of files (Planning),  *)
(* and what --resume may rely on, for every plan, every number of          *)
(* invocations and every crash (SweepState).                               *)
(***************************************************************************)
EXTENDS SweepState, Planning, FiniteSetTheorems, TLAPS

------------------------------------------------------------------------------
(***************************************************************************)
(* Planning.  Its properties relate what was done at different times, so   *)
(* the invariant says of each report, outcome and sweep which runs were    *)
(* planned for its command line.  The rest is about the expansions: what   *)
(* a name says of a run, and what the points of a matrix cover.            *)
(***************************************************************************)

\* Two configurations that differ in nothing but the model and its family.
SameButModel(x, y) == x = [y EXCEPT !.model = x.model, !.family = x.family]

\* Two configurations with the same fields agree up to the model when every
\* other field does.
LEMMA SameUpToModel ==
    ASSUME NEW x, NEW y, NEW D,
           x = [k \in D |-> x[k]], y = [k \in D |-> y[k]],
           \A k \in D \ {"model", "family"} : x[k] = y[k]
    PROVE  SameButModel(x, y)
<1> DEFINE z == [y EXCEPT !.model = x.model, !.family = x.family]
<1>1. z = [k \in D |-> z[k]]
  OBVIOUS
<1>2. \A k \in D : x[k] = z[k]
  OBVIOUS
<1>3. x = z
  <2> HIDE DEF z
  <2> QED  BY <1>1, <1>2
<1> QED  BY <1>3 DEF SameButModel

\* A name of the matrix runner holds the whole point: the condition, when it
\* is left out of the name, is the only one there is.
LEMMA MatrixNames ==
    ASSUME NEW loaded, NEW c \in expand_matrix_sweep(loaded),
           NEW d \in expand_matrix_sweep(loaded), c.name = d.name
    PROVE  SameButModel(c.config, d.config)
<1> DEFINE cfg == loaded.config
<1>1. PICK p \in matrix_points(loaded) :
          c = [point |-> p, name |-> matrix_name(loaded, p), config |-> matrix_config(cfg, p)]
  BY DEF expand_matrix_sweep
<1>2. PICK q \in matrix_points(loaded) :
          d = [point |-> q, name |-> matrix_name(loaded, q), config |-> matrix_config(cfg, q)]
  BY DEF expand_matrix_sweep
<1>3. matrix_name(loaded, p) = matrix_name(loaded, q)
  BY <1>1, <1>2
<1>4. /\ p.workload = q.workload /\ p.router = q.router /\ p.cache = q.cache
      /\ p.seed = q.seed
      /\ condition_label(loaded, p.condition) = condition_label(loaded, q.condition)
  BY <1>3, SMT DEF matrix_name
<1>5. /\ p.condition \in matrix_values(loaded, "cache_conditions", cfg.condition)
      /\ q.condition \in matrix_values(loaded, "cache_conditions", cfg.condition)
  BY DEF matrix_points
<1>6. p.condition = q.condition
  BY <1>4, <1>5 DEF condition_label, matrix_values
<1>7. matrix_config(cfg, p) = matrix_config(cfg, q)
  BY <1>4, <1>6 DEF matrix_config
<1> DEFINE x == matrix_config(cfg, p)
<1>8. x = [k \in DOMAIN x |-> x[k]]
  BY DEF matrix_config
<1>9. SameButModel(x, x)
  BY <1>8, SameUpToModel
<1> QED  BY <1>1, <1>2, <1>7, <1>9

\* So does a name of the concurrency sweep, and the strategy it holds decides
\* the rest of the configuration.
LEMMA ConcurrencyNames ==
    ASSUME NEW loaded, NEW c \in expand_concurrency_sweep_children(loaded),
           NEW d \in expand_concurrency_sweep_children(loaded), c.name = d.name
    PROVE  SameButModel(c.config, d.config)
<1> DEFINE cfg == loaded.config
<1>1. PICK p \in concurrency_points(loaded) :
          c = [point |-> p, name |-> concurrency_name(loaded, p),
               config |-> concurrency_config(cfg, p)]
  BY DEF expand_concurrency_sweep_children
<1>2. PICK q \in concurrency_points(loaded) :
          d = [point |-> q, name |-> concurrency_name(loaded, q),
               config |-> concurrency_config(cfg, q)]
  BY DEF expand_concurrency_sweep_children
<1>3. concurrency_name(loaded, p) = concurrency_name(loaded, q)
  BY <1>1, <1>2
<1>4. /\ p.strategy = q.strategy /\ p.concurrency = q.concurrency /\ p.seed = q.seed
      /\ condition_label(loaded, p.condition) = condition_label(loaded, q.condition)
  BY <1>3, SMT DEF concurrency_name
<1>5. /\ p.condition \in matrix_values(loaded, "cache_conditions", cfg.condition)
      /\ q.condition \in matrix_values(loaded, "cache_conditions", cfg.condition)
  BY DEF concurrency_points
<1>6. p.condition = q.condition
  BY <1>4, <1>5 DEF condition_label, matrix_values
<1>7. concurrency_config(cfg, p) = concurrency_config(cfg, q)
  BY <1>4, <1>6 DEF concurrency_config
<1> DEFINE x == concurrency_config(cfg, p)
<1>8. x = [k \in DOMAIN x |-> x[k]]
  BY DEF concurrency_config
<1>9. SameButModel(x, x)
  BY <1>8, SameUpToModel
<1> QED  BY <1>1, <1>2, <1>7, <1>9

\* No two counts of adapters give lists of the same length.
LEMMA CountOfIds ==
    ASSUME NEW n \in 1 .. 5
    PROVE  Cardinality(ADAPTER_IDS_BY_COUNT[n]) = n
<1> DEFINE one == {"qa"}
           two == {"qa", "json"}
           three == {"qa", "json", "summary"}
           five == SPECIALISTS \union {"multitask"}
<1>0. IsFiniteSet({}) /\ Cardinality({}) = 0
  BY FS_EmptySet
<1>1. IsFiniteSet(one) /\ Cardinality(one) = 1
  <2>1. one = {} \union {"qa"}
    OBVIOUS
  <2>2. "qa" \notin {}
    OBVIOUS
  <2> HIDE DEF one
  <2> QED  BY <2>1, <2>2, <1>0, FS_AddElement
<1>2. IsFiniteSet(two) /\ Cardinality(two) = 2
  <2>1. two = one \union {"json"} /\ "json" \notin one
    OBVIOUS
  <2> HIDE DEF one, two
  <2> QED  BY <2>1, <1>1, FS_AddElement
<1>3. IsFiniteSet(three) /\ Cardinality(three) = 3
  <2>1. three = two \union {"summary"} /\ "summary" \notin two
    OBVIOUS
  <2> HIDE DEF three, two
  <2> QED  BY <2>1, <1>2, FS_AddElement
<1>4. IsFiniteSet(SPECIALISTS) /\ Cardinality(SPECIALISTS) = 4
  <2>1. SPECIALISTS = three \union {"code"} /\ "code" \notin three
    BY DEF SPECIALISTS
  <2> HIDE DEF three
  <2> QED  BY <2>1, <1>3, FS_AddElement
<1>5. IsFiniteSet(five) /\ Cardinality(five) = 5
  <2>1. "multitask" \notin SPECIALISTS
    BY DEF SPECIALISTS
  <2> QED  BY <2>1, <1>4, FS_AddElement
<1>6. /\ ADAPTER_IDS_BY_COUNT[1] = one /\ ADAPTER_IDS_BY_COUNT[2] = two
      /\ ADAPTER_IDS_BY_COUNT[3] = three /\ ADAPTER_IDS_BY_COUNT[4] = SPECIALISTS
      /\ ADAPTER_IDS_BY_COUNT[5] = five
  BY DEF ADAPTER_IDS_BY_COUNT
<1>7. n = 1 \/ n = 2 \/ n = 3 \/ n = 4 \/ n = 5
  OBVIOUS
<1> HIDE DEF one, two, three, five
<1> QED  BY <1>1, <1>2, <1>3, <1>4, <1>5, <1>6, <1>7

\* The configuration of a point before its adapters are chosen.
placed(cfg, p) ==
    [apply_strategy(cfg, p.strategy)
        EXCEPT !.model = p.model.name, !.concurrency = p.concurrency,
               !.workload = p.workload, !.cache = p.cache, !.condition = p.condition,
               !.seed = p.seed, !.overlap = p.overlap, !.tenants = p.tenants,
               !.scope = p.scope]

\* load_config: every default is there.
LEMMA LoadedConfig ==
    ASSUME NEW paths \in CommandLines
    PROVE  /\ DOMAIN Defaults \subseteq DOMAIN load_config(paths).config
           /\ load_config(paths).config =
                 [k \in DOMAIN load_config(paths).config |-> load_config(paths).config[k]]
<1> DEFINE merged == IF Len(paths) = 1 THEN paths[1] ELSE deep_merge(paths[1], paths[2])
<1>1. load_config(paths).config = updated(Defaults, merged.fields)
  BY DEF load_config
<1> HIDE DEF merged
<1>2. ASSUME NEW f, NEW g
      PROVE  /\ DOMAIN f \subseteq DOMAIN updated(f, g)
             /\ updated(f, g) = [k \in DOMAIN updated(f, g) |-> updated(f, g)[k]]
  BY DEF updated
<1> QED  BY <1>1, <1>2

\* load_config: every list of the merged matrix is the list of some file.
LEMMA LoadedMatrix ==
    ASSUME NEW paths \in CommandLines, NEW key \in DOMAIN load_config(paths).matrix
    PROVE  \E f \in Files \union Overlays :
              key \in DOMAIN f.matrix /\ load_config(paths).matrix[key] = f.matrix[key]
<1>1. CASE \E f \in Files : paths = <<f>>
  <2>1. PICK f \in Files : paths = <<f>>
    BY <1>1
  <2>2. load_config(paths).matrix = f.matrix
    BY <2>1 DEF load_config
  <2> QED  BY <2>2
<1>2. CASE \E f \in Files, o \in Overlays : paths = <<f, o>>
  <2>1. PICK f \in Files, o \in Overlays : paths = <<f, o>>
    BY <1>2
  <2>2. load_config(paths).matrix = updated(f.matrix, o.matrix)
    BY <2>1 DEF load_config, deep_merge
  <2> QED  BY <2>2 DEF updated
<1> QED  BY <1>1, <1>2 DEF CommandLines

\* The assumptions about the files hold of the merged matrix.
LEMMA LoadedLists ==
    ASSUME NEW paths \in CommandLines
    PROVE  LET matrix == load_config(paths).matrix
           IN  /\ \A key \in DOMAIN matrix : matrix[key] # {}
               /\ "strategies" \in DOMAIN matrix => matrix["strategies"] \subseteq STRATEGIES
               /\ "adapter_counts" \in DOMAIN matrix =>
                      matrix["adapter_counts"] \subseteq 1 .. 5
<1>1. \A key \in DOMAIN load_config(paths).matrix :
          \E f \in Files \union Overlays :
              key \in DOMAIN f.matrix /\ load_config(paths).matrix[key] = f.matrix[key]
  BY LoadedMatrix
<1> DEFINE matrix == load_config(paths).matrix
<1> HIDE DEF matrix
<1>2. \A key \in DOMAIN matrix :
          \E f \in Files \union Overlays :
              key \in DOMAIN f.matrix /\ matrix[key] = f.matrix[key]
  BY <1>1 DEF matrix
<1>3. \A key \in DOMAIN matrix : matrix[key] # {}
  BY <1>2, ListsAssumption
<1>4. "strategies" \in DOMAIN matrix => matrix["strategies"] \subseteq STRATEGIES
  BY <1>2, StrategiesAssumption
<1>5. "adapter_counts" \in DOMAIN matrix => matrix["adapter_counts"] \subseteq 1 .. 5
  BY <1>2, AdapterCountsAssumption
<1> QED  BY <1>3, <1>4, <1>5 DEF matrix

\* No point makes apply_strategy or apply_adapter_count raise.
LEMMA PointsAreAllowed ==
    ASSUME NEW paths \in CommandLines
    PROVE  /\ \A p \in exhaustive_points(load_config(paths)) :
                  p.strategy \in STRATEGIES /\ p.adapter_count \in 1 .. 5
           /\ \A p \in concurrency_points(load_config(paths)) : p.strategy \in STRATEGIES
<1> DEFINE loaded == load_config(paths)
<1>1. /\ "strategies" \in DOMAIN loaded.matrix => loaded.matrix["strategies"] \subseteq STRATEGIES
      /\ "adapter_counts" \in DOMAIN loaded.matrix =>
             loaded.matrix["adapter_counts"] \subseteq 1 .. 5
  BY LoadedLists
<1> HIDE DEF loaded
<1>2. {"specialists", "base"} \subseteq STRATEGIES /\ 4 \in 1 .. 5
  BY DEF STRATEGIES
<1>3. \A p \in exhaustive_points(loaded) :
          p.strategy \in STRATEGIES /\ p.adapter_count \in 1 .. 5
  <2> TAKE p \in exhaustive_points(loaded)
  <2>1. /\ p.strategy \in matrix_values(loaded, "strategies", "specialists")
        /\ p.adapter_count \in matrix_values(loaded, "adapter_counts", 4)
    BY DEF exhaustive_points
  <2> QED  BY <2>1, <1>1, <1>2 DEF matrix_values
<1>4. \A p \in concurrency_points(loaded) : p.strategy \in STRATEGIES
  BY <1>1, <1>2 DEF concurrency_points
<1> QED  BY <1>3, <1>4 DEF loaded

\* A strategy changes values of a configuration, never which fields it has.
LEMMA StrategyFields ==
    ASSUME NEW cfg, NEW strategy \in STRATEGIES
    PROVE  DOMAIN apply_strategy(cfg, strategy) = DOMAIN cfg
BY DEF apply_strategy, STRATEGIES

\* The name of an exhaustive child holds the length of the list of adapters,
\* or for specialists the count.  Base and multitask children of two counts
\* share a name, and the count makes no difference to them; two models share
\* an alias, and nothing but the model and its family follows from it.
LEMMA ExhaustiveNames ==
    ASSUME NEW loaded, NEW c \in expand_exhaustive_sweep(loaded),
           NEW d \in expand_exhaustive_sweep(loaded), c.name = d.name,
           "adapters" \in DOMAIN loaded.config,
           \A r \in exhaustive_points(loaded) :
               r.strategy \in STRATEGIES /\ r.adapter_count \in 1 .. 5
    PROVE  SameButModel(c.config, d.config)
<1> DEFINE cfg == loaded.config
<1>1. PICK p \in exhaustive_points(loaded) :
          c = [point |-> p, name |-> exhaustive_name(loaded, p),
               config |-> exhaustive_config(cfg, p)]
  BY DEF expand_exhaustive_sweep
<1>2. PICK q \in exhaustive_points(loaded) :
          d = [point |-> q, name |-> exhaustive_name(loaded, q),
               config |-> exhaustive_config(cfg, q)]
  BY DEF expand_exhaustive_sweep
<1>3. exhaustive_name(loaded, p) = exhaustive_name(loaded, q)
  BY <1>1, <1>2
<1> DEFINE Count(r) == IF r.strategy = "specialists" THEN r.adapter_count
                       ELSE Cardinality(exhaustive_config(cfg, r).adapters)
<1>4. /\ p.strategy = q.strategy /\ p.concurrency = q.concurrency
      /\ p.workload = q.workload /\ p.cache = q.cache /\ p.overlap = q.overlap
      /\ p.tenants = q.tenants /\ p.scope = q.scope /\ p.seed = q.seed
      /\ condition_label(loaded, p.condition) = condition_label(loaded, q.condition)
      /\ Count(p) = Count(q)
  BY <1>3, SMT DEF exhaustive_name
<1>5. /\ p.condition \in matrix_values(loaded, "cache_conditions", cfg.condition)
      /\ q.condition \in matrix_values(loaded, "cache_conditions", cfg.condition)
  BY DEF exhaustive_points
<1>6. p.condition = q.condition
  BY <1>4, <1>5 DEF condition_label, matrix_values
<1> DEFINE start == apply_strategy(cfg, p.strategy)
           D == DOMAIN start
           x == placed(cfg, p)
           y == placed(cfg, q)
<1>7. /\ x = [k \in D |-> x[k]] /\ y = [k \in D |-> y[k]]
      /\ \A k \in D \ {"model"} : x[k] = y[k]
  <2> HIDE DEF cfg
  <2>1. apply_strategy(cfg, q.strategy) = start
    BY <1>4
  <2> HIDE DEF start
  <2> QED  BY <2>1, <1>4, <1>6 DEF placed
<1>8. /\ exhaustive_config(cfg, p) = apply_adapter_count(x, p.strategy, p.adapter_count, p.model.name)
      /\ exhaustive_config(cfg, q) = apply_adapter_count(y, q.strategy, q.adapter_count, q.model.name)
  BY DEF exhaustive_config, placed
<1>9. CASE p.strategy = "base"
  <2>1. exhaustive_config(cfg, p) = x /\ exhaustive_config(cfg, q) = y
    BY <1>8, <1>9, <1>4 DEF apply_adapter_count
  <2> QED
    <3> HIDE DEF x, y, D, cfg
    <3> QED BY <2>1, <1>1, <1>2, <1>7, SameUpToModel
<1>10. CASE p.strategy = "multitask"
  <2> DEFINE u == [x EXCEPT !.adapters = {"multitask"}, !.served = {"multitask"},
                            !.family = p.model.name]
             v == [y EXCEPT !.adapters = {"multitask"}, !.served = {"multitask"},
                            !.family = q.model.name]
  <2>1. exhaustive_config(cfg, p) = u /\ exhaustive_config(cfg, q) = v
    BY <1>8, <1>10, <1>4, SMT DEF apply_adapter_count
  <2>2. /\ u = [k \in D |-> u[k]] /\ v = [k \in D |-> v[k]]
        /\ \A k \in D \ {"model", "family"} : u[k] = v[k]
    <3> HIDE DEF x, y, D
    <3> QED  BY <1>7
  <2> QED
    <3> HIDE DEF u, v, x, y, D, cfg
    <3> QED  BY <2>1, <1>1, <1>2, <2>2, SameUpToModel
<1>11. CASE p.strategy \notin {"base", "multitask"}
  <2> DEFINE ids == ADAPTER_IDS_BY_COUNT[p.adapter_count]
             ids2 == ADAPTER_IDS_BY_COUNT[q.adapter_count]
             u == [x EXCEPT !.adapters = ids, !.served = ids, !.family = p.model.name]
             v == [y EXCEPT !.adapters = ids2, !.served = ids2, !.family = q.model.name]
  <2>1. exhaustive_config(cfg, p) = u /\ exhaustive_config(cfg, q) = v
    BY <1>8, <1>11, <1>4, SMT DEF apply_adapter_count
  <2>2. "adapters" \in D
    BY StrategyFields
  <2>3. u.adapters = ids /\ v.adapters = ids2
    <3> HIDE DEF x, y, D, ids, ids2
    <3> QED BY <1>7, <2>2
  <2>4. p.adapter_count = q.adapter_count
    <3>1. CASE p.strategy = "specialists"
      BY <1>4, <3>1
    <3>2. CASE p.strategy # "specialists"
      <4>1. Cardinality(ids) = Cardinality(ids2)
        <5> HIDE DEF ids, ids2, x, y, u, v, cfg
        <5> QED  BY <1>4, <3>2, <2>1, <2>3
      <4>2. p.adapter_count \in 1 .. 5 /\ q.adapter_count \in 1 .. 5
        OBVIOUS
      <4>3. Cardinality(ids) = p.adapter_count /\ Cardinality(ids2) = q.adapter_count
        BY <4>2, CountOfIds
      <4> QED  BY <4>1, <4>3
    <3> QED  BY <3>1, <3>2
  <2>5. ids = ids2
    BY <2>4
  <2>6. /\ u = [k \in D |-> u[k]] /\ v = [k \in D |-> v[k]]
        /\ \A k \in D \ {"model", "family"} : u[k] = v[k]
    <3> HIDE DEF x, y, D, ids, ids2
    <3> QED  BY <1>7, <2>5
  <2> QED
    <3> HIDE DEF u, v, x, y, D, cfg
    <3> QED  BY <2>1, <1>1, <1>2, <2>6, SameUpToModel
<1> QED  BY <1>9, <1>10, <1>11

\* The fields that strategies and expansions set.
ConfigFields == {"policy", "cache", "condition", "workload", "seed", "concurrency",
                 "overlap", "tenants", "scope", "model", "adapters", "served", "family",
                 "beta"}

\* BenchmarkConfig has a default for each of them.
LEMMA FieldsHaveDefaults ==
    ConfigFields \subseteq DOMAIN Defaults
  BY DEF ConfigFields, Defaults

\* A dimension has a value, listed or by default.
LEMMA SomeValue ==
    ASSUME NEW loaded, NEW key, NEW default,
           key \in DOMAIN loaded.matrix => loaded.matrix[key] # {}
    PROVE  matrix_values(loaded, key, default) # {}
BY DEF matrix_values

\* Each listed value of a matrix is that of some point, whatever the other
\* dimensions hold, and of the child of that point.
LEMMA MatrixRunsAll ==
    ASSUME NEW loaded, ConfigFields \subseteq DOMAIN loaded.config,
           \A k \in DOMAIN loaded.matrix : loaded.matrix[k] # {},
           NEW key \in DOMAIN loaded.matrix \intersect MATRIX_KEYS,
           NEW v \in loaded.matrix[key]
    PROVE  \E c \in expand_matrix_sweep(loaded) : ran_with(c, key, v)
<1> DEFINE cfg == loaded.config
           R == matrix_values(loaded, "routers", cfg.policy)
           C == matrix_values(loaded, "caches", cfg.cache)
           D == matrix_values(loaded, "cache_conditions", cfg.condition)
           W == matrix_values(loaded, "workloads", cfg.workload)
           S == matrix_values(loaded, "seeds", cfg.seed)
<1>1. R # {} /\ C # {} /\ D # {} /\ W # {} /\ S # {}
  BY SomeValue
<1>2. matrix_points(loaded) = [router : R, cache : C, condition : D, workload : W, seed : S]
  BY DEF matrix_points
<1>3. /\ key = "routers" => v \in R
      /\ key = "caches" => v \in C
      /\ key = "cache_conditions" => v \in D
      /\ key = "workloads" => v \in W
      /\ key = "seeds" => v \in S
  BY DEF matrix_values
<1>4. \E p \in matrix_points(loaded) :
          /\ key = "routers" => p.router = v
          /\ key = "caches" => p.cache = v
          /\ key = "cache_conditions" => p.condition = v
          /\ key = "workloads" => p.workload = v
          /\ key = "seeds" => p.seed = v
  <2> HIDE DEF R, C, D, W, S
  <2>1. PICK r \in R, c \in C, d \in D, w \in W, s \in S : TRUE
    BY <1>1
  <2> DEFINE p == [router    |-> IF key = "routers" THEN v ELSE r,
                   cache     |-> IF key = "caches" THEN v ELSE c,
                   condition |-> IF key = "cache_conditions" THEN v ELSE d,
                   workload  |-> IF key = "workloads" THEN v ELSE w,
                   seed      |-> IF key = "seeds" THEN v ELSE s]
  <2>2. p \in matrix_points(loaded)
    BY <1>2, <1>3
  <2>3. /\ key = "routers" => p.router = v
        /\ key = "caches" => p.cache = v
        /\ key = "cache_conditions" => p.condition = v
        /\ key = "workloads" => p.workload = v
        /\ key = "seeds" => p.seed = v
    OBVIOUS
  <2> HIDE DEF p
  <2> QED  BY <2>2, <2>3
<1>5. PICK p \in matrix_points(loaded) :
          /\ key = "routers" => p.router = v
          /\ key = "caches" => p.cache = v
          /\ key = "cache_conditions" => p.condition = v
          /\ key = "workloads" => p.workload = v
          /\ key = "seeds" => p.seed = v
  BY <1>4
<1> DEFINE c == [point |-> p, name |-> matrix_name(loaded, p), config |-> matrix_config(cfg, p)]
<1>6. c \in expand_matrix_sweep(loaded)
  BY DEF expand_matrix_sweep
<1>7. /\ c.config.policy = p.router /\ c.config.cache = p.cache
      /\ c.config.condition = p.condition /\ c.config.workload = p.workload
      /\ c.config.seed = p.seed
  BY DEF matrix_config, ConfigFields
<1>8. ran_with(c, key, v)
  <2> HIDE DEF c
  <2> QED  BY <1>5, <1>7 DEF ran_with, MATRIX_KEYS
<1> QED  BY <1>6, <1>8

\* The same of a concurrency sweep.
LEMMA ConcurrencyRunsAll ==
    ASSUME NEW loaded, ConfigFields \subseteq DOMAIN loaded.config,
           \A k \in DOMAIN loaded.matrix : loaded.matrix[k] # {},
           \A p \in concurrency_points(loaded) : p.strategy \in STRATEGIES,
           NEW key \in DOMAIN loaded.matrix \intersect CONCURRENCY_SWEEP_KEYS,
           NEW v \in loaded.matrix[key]
    PROVE  \E c \in expand_concurrency_sweep_children(loaded) : ran_with(c, key, v)
<1> DEFINE cfg == loaded.config
           T == IF "strategies" \in DOMAIN loaded.matrix
                THEN loaded.matrix["strategies"] ELSE {"base", "specialists"}
           C == matrix_values(loaded, "concurrencies", cfg.concurrency)
           D == matrix_values(loaded, "cache_conditions", cfg.condition)
           S == matrix_values(loaded, "seeds", cfg.seed)
<1>1. T # {} /\ C # {} /\ D # {} /\ S # {}
  BY SomeValue
<1>2. concurrency_points(loaded) = [strategy : T, concurrency : C, condition : D, seed : S]
  BY DEF concurrency_points
<1>3. /\ key = "strategies" => v \in T
      /\ key = "concurrencies" => v \in C
      /\ key = "cache_conditions" => v \in D
      /\ key = "seeds" => v \in S
  BY DEF matrix_values
<1>4. \E p \in concurrency_points(loaded) :
          /\ key = "strategies" => p.strategy = v
          /\ key = "concurrencies" => p.concurrency = v
          /\ key = "cache_conditions" => p.condition = v
          /\ key = "seeds" => p.seed = v
  <2> HIDE DEF T, C, D, S
  <2>1. PICK t \in T, c \in C, d \in D, s \in S : TRUE
    BY <1>1
  <2> DEFINE p == [strategy    |-> IF key = "strategies" THEN v ELSE t,
                   concurrency |-> IF key = "concurrencies" THEN v ELSE c,
                   condition   |-> IF key = "cache_conditions" THEN v ELSE d,
                   seed        |-> IF key = "seeds" THEN v ELSE s]
  <2>2. p \in concurrency_points(loaded)
    BY <1>2, <1>3
  <2>3. /\ key = "strategies" => p.strategy = v
        /\ key = "concurrencies" => p.concurrency = v
        /\ key = "cache_conditions" => p.condition = v
        /\ key = "seeds" => p.seed = v
    OBVIOUS
  <2> HIDE DEF p
  <2> QED  BY <2>2, <2>3
<1>5. PICK p \in concurrency_points(loaded) :
          /\ key = "strategies" => p.strategy = v
          /\ key = "concurrencies" => p.concurrency = v
          /\ key = "cache_conditions" => p.condition = v
          /\ key = "seeds" => p.seed = v
  BY <1>4
<1> DEFINE c == [point |-> p, name |-> concurrency_name(loaded, p),
                 config |-> concurrency_config(cfg, p)]
           start == apply_strategy(cfg, p.strategy)
<1>6. c \in expand_concurrency_sweep_children(loaded)
  BY DEF expand_concurrency_sweep_children
<1>7. DOMAIN start = DOMAIN cfg
  BY StrategyFields
<1>8. /\ c.config.concurrency = p.concurrency
      /\ c.config.condition = p.condition
      /\ c.config.seed = p.seed
  <2>1. c.config = [start EXCEPT !.concurrency = p.concurrency, !.condition = p.condition,
                                 !.seed = p.seed]
    BY DEF concurrency_config
  <2>2. {"concurrency", "condition", "seed"} \subseteq DOMAIN start
    BY <1>7 DEF ConfigFields
  <2> HIDE DEF c, start
  <2> QED  BY <2>1, <2>2
<1>9. c.point = p /\ "strategy" \in DOMAIN p
  BY <1>2
<1>10. ran_with(c, key, v)
  <2> HIDE DEF c
  <2> QED  BY <1>5, <1>8, <1>9 DEF ran_with, CONCURRENCY_SWEEP_KEYS
<1> QED  BY <1>6, <1>10

\* Neither the strategy nor the choice of adapters touches the other
\* dimensions of an exhaustive sweep.
LEMMA ExhaustiveFields ==
    ASSUME NEW cfg, ConfigFields \subseteq DOMAIN cfg, NEW p, p.strategy \in STRATEGIES
    PROVE  LET config == exhaustive_config(cfg, p)
           IN  /\ config.concurrency = p.concurrency /\ config.workload = p.workload
               /\ config.cache = p.cache /\ config.condition = p.condition
               /\ config.seed = p.seed /\ config.overlap = p.overlap
               /\ config.tenants = p.tenants /\ config.scope = p.scope
<1> DEFINE x == placed(cfg, p)
           start == apply_strategy(cfg, p.strategy)
<1>1. DOMAIN start = DOMAIN cfg
  BY StrategyFields
<1>2. x = [start EXCEPT !.model = p.model.name, !.concurrency = p.concurrency,
               !.workload = p.workload, !.cache = p.cache, !.condition = p.condition,
               !.seed = p.seed, !.overlap = p.overlap, !.tenants = p.tenants,
               !.scope = p.scope]
  BY DEF placed
<1>3. /\ x.concurrency = p.concurrency /\ x.workload = p.workload
      /\ x.cache = p.cache /\ x.condition = p.condition
      /\ x.seed = p.seed /\ x.overlap = p.overlap
      /\ x.tenants = p.tenants /\ x.scope = p.scope
      /\ DOMAIN x = DOMAIN cfg
  <2>1. {"concurrency", "workload", "cache", "condition", "seed", "overlap", "tenants",
         "scope"} \subseteq DOMAIN start
    BY <1>1 DEF ConfigFields
  <2> HIDE DEF x, start
  <2> QED  BY <1>1, <1>2, <2>1
<1>4. exhaustive_config(cfg, p) =
          apply_adapter_count(x, p.strategy, p.adapter_count, p.model.name)
  BY DEF exhaustive_config, placed
<1> HIDE DEF x, start
<1>5. \A k \in DOMAIN x \ {"adapters", "served", "family"} :
          exhaustive_config(cfg, p)[k] = x[k]
  BY <1>4 DEF apply_adapter_count
<1>6. {"concurrency", "workload", "cache", "condition", "seed", "overlap", "tenants",
       "scope"} \subseteq DOMAIN x
  BY <1>3 DEF ConfigFields
<1> QED  BY <1>3, <1>5, <1>6

\* The same of an exhaustive sweep.
LEMMA ExhaustiveRunsAll ==
    ASSUME NEW loaded, ConfigFields \subseteq DOMAIN loaded.config,
           \A k \in DOMAIN loaded.matrix : loaded.matrix[k] # {},
           \A p \in exhaustive_points(loaded) : p.strategy \in STRATEGIES,
           NEW key \in (DOMAIN loaded.matrix \intersect EXHAUSTIVE_SWEEP_KEYS) \ {"models"},
           NEW v \in loaded.matrix[key]
    PROVE  \E c \in expand_exhaustive_sweep(loaded) : ran_with(c, key, v)
<1> DEFINE cfg == loaded.config
           T == matrix_values(loaded, "strategies", "specialists")
           C == matrix_values(loaded, "concurrencies", cfg.concurrency)
           W == matrix_values(loaded, "workloads", cfg.workload)
           K == matrix_values(loaded, "caches", cfg.cache)
           D == matrix_values(loaded, "cache_conditions", cfg.condition)
           S == matrix_values(loaded, "seeds", cfg.seed)
           O == matrix_values(loaded, "overlap_fractions", cfg.overlap)
           A == matrix_values(loaded, "adapter_counts", 4)
           N == matrix_values(loaded, "tenants", cfg.tenants)
           I == matrix_values(loaded, "isolation_scopes", cfg.scope)
           M == model_specs(loaded)
           RunsValue(p) == /\ key = "strategies" => p.strategy = v
                           /\ key = "concurrencies" => p.concurrency = v
                           /\ key = "workloads" => p.workload = v
                           /\ key = "caches" => p.cache = v
                           /\ key = "cache_conditions" => p.condition = v
                           /\ key = "seeds" => p.seed = v
                           /\ key = "overlap_fractions" => p.overlap = v
                           /\ key = "adapter_counts" => p.adapter_count = v
                           /\ key = "tenants" => p.tenants = v
                           /\ key = "isolation_scopes" => p.scope = v
<1>1. /\ T # {} /\ C # {} /\ W # {} /\ K # {} /\ D # {} /\ S # {} /\ O # {} /\ A # {}
      /\ N # {} /\ I # {}
  BY SomeValue
<1>2. M # {}
  <2> DEFINE own == [name |-> loaded.config.model, alias |-> "", last_part |-> loaded.config.model]
  <2> HIDE DEF own
  <2>1. matrix_values(loaded, "models", own) # {}
    BY SomeValue
  <2> QED  BY <2>1 DEF model_specs, own
<1>3. exhaustive_points(loaded) =
         [strategy : T, concurrency : C, workload : W, cache : K, condition : D, seed : S,
          overlap : O, adapter_count : A, tenants : N, scope : I, model : M]
  BY DEF exhaustive_points
<1>4. /\ key = "strategies" => v \in T
      /\ key = "concurrencies" => v \in C
      /\ key = "workloads" => v \in W
      /\ key = "caches" => v \in K
      /\ key = "cache_conditions" => v \in D
      /\ key = "seeds" => v \in S
      /\ key = "overlap_fractions" => v \in O
      /\ key = "adapter_counts" => v \in A
      /\ key = "tenants" => v \in N
      /\ key = "isolation_scopes" => v \in I
  BY DEF matrix_values
<1>5. \E p \in exhaustive_points(loaded) : RunsValue(p)
  <2> HIDE DEF T, C, W, K, D, S, O, A, N, I, M
  <2>1. PICK t \in T, c \in C, w \in W, k \in K, d \in D, s \in S, o \in O, a \in A,
             n \in N, i \in I, m \in M : TRUE
    BY <1>1, <1>2
  <2> DEFINE p == [strategy      |-> IF key = "strategies" THEN v ELSE t,
                   concurrency   |-> IF key = "concurrencies" THEN v ELSE c,
                   workload      |-> IF key = "workloads" THEN v ELSE w,
                   cache         |-> IF key = "caches" THEN v ELSE k,
                   condition     |-> IF key = "cache_conditions" THEN v ELSE d,
                   seed          |-> IF key = "seeds" THEN v ELSE s,
                   overlap       |-> IF key = "overlap_fractions" THEN v ELSE o,
                   adapter_count |-> IF key = "adapter_counts" THEN v ELSE a,
                   tenants       |-> IF key = "tenants" THEN v ELSE n,
                   scope         |-> IF key = "isolation_scopes" THEN v ELSE i,
                   model         |-> m]
  <2>2. p \in exhaustive_points(loaded)
    BY <1>3, <1>4
  <2>3. RunsValue(p)
    OBVIOUS
  <2> HIDE DEF p, RunsValue
  <2> QED  BY <2>2, <2>3
<1> HIDE DEF RunsValue
<1>6. PICK p \in exhaustive_points(loaded) : RunsValue(p)
  BY <1>5
<1> DEFINE c == [point |-> p, name |-> exhaustive_name(loaded, p),
                 config |-> exhaustive_config(cfg, p)]
<1>7. c \in expand_exhaustive_sweep(loaded)
  BY DEF expand_exhaustive_sweep
<1>8. LET config == exhaustive_config(cfg, p)
      IN  /\ config.concurrency = p.concurrency /\ config.workload = p.workload
          /\ config.cache = p.cache /\ config.condition = p.condition
          /\ config.seed = p.seed /\ config.overlap = p.overlap
          /\ config.tenants = p.tenants /\ config.scope = p.scope
  BY ExhaustiveFields
<1>9. c.config = exhaustive_config(cfg, p) /\ c.point = p
  OBVIOUS
<1>10. "strategy" \in DOMAIN p /\ "adapter_count" \in DOMAIN p
  BY <1>3
<1>11. key \in EXHAUSTIVE_SWEEP_KEYS \ {"models"}
  OBVIOUS
<1>12. ran_with(c, key, v)
  <2> HIDE DEF c, cfg
  <2> QED  BY <1>6, <1>8, <1>9, <1>10, <1>11 DEF ran_with, EXHAUSTIVE_SWEEP_KEYS, RunsValue
<1> QED  BY <1>7, <1>12

\* A runner is inferred only for keys that it knows; the exhaustive sweep is
\* also given `routers`, which it does not.
LEMMA RunnerTakesKeys ==
    ASSUME NEW loaded, DOMAIN loaded.matrix # {}, infer_runner(loaded) # "error"
    PROVE  LET runner == infer_runner(loaded)
               keys   == DOMAIN loaded.matrix
           IN  \/ runner = "matrix" /\ keys \subseteq MATRIX_KEYS
               \/ runner = "concurrency-sweep" /\ keys \subseteq CONCURRENCY_SWEEP_KEYS
               \/ runner = "exhaustive-sweep" /\ keys \subseteq KNOWN_MATRIX_KEYS
<1> DEFINE keys == DOMAIN loaded.matrix
<1>1. keys \subseteq KNOWN_MATRIX_KEYS
  BY DEF infer_runner
<1>2. infer_runner(loaded) =
         IF keys \intersect EXHAUSTIVE_ONLY_KEYS # {} THEN "exhaustive-sweep"
         ELSE IF keys \intersect {"strategies", "concurrencies"} # {}
              THEN IF keys \subseteq CONCURRENCY_SWEEP_KEYS
                   THEN "concurrency-sweep" ELSE "exhaustive-sweep"
         ELSE IF keys \subseteq MATRIX_KEYS THEN "matrix" ELSE "error"
  BY <1>1 DEF infer_runner
<1> QED  BY <1>1, <1>2

\* Whatever runner is inferred, it runs every value of the merged matrix.
LEMMA SweepRunsAll ==
    ASSUME NEW paths \in CommandLines, NEW n,
           infer_runner(load_config(paths)) # "error",
           NEW key \in DOMAIN load_config(paths).matrix \ {"models"},
           ~(infer_runner(load_config(paths)) = "exhaustive-sweep" /\ key = "routers"),
           NEW v \in load_config(paths).matrix[key]
    PROVE  \E c \in runner_children(load_config(paths), infer_runner(load_config(paths)), n) :
              ran_with(c, key, v)
<1> DEFINE loaded == load_config(paths)
           runner == infer_runner(loaded)
<1>1. ConfigFields \subseteq DOMAIN loaded.config
  BY LoadedConfig, FieldsHaveDefaults
<1>2. \A k \in DOMAIN loaded.matrix : loaded.matrix[k] # {}
  BY LoadedLists
<1>3. /\ \A p \in exhaustive_points(loaded) : p.strategy \in STRATEGIES
      /\ \A p \in concurrency_points(loaded) : p.strategy \in STRATEGIES
  BY PointsAreAllowed
<1>4. \/ runner = "matrix" /\ DOMAIN loaded.matrix \subseteq MATRIX_KEYS
      \/ runner = "concurrency-sweep" /\ DOMAIN loaded.matrix \subseteq CONCURRENCY_SWEEP_KEYS
      \/ runner = "exhaustive-sweep" /\ DOMAIN loaded.matrix \subseteq KNOWN_MATRIX_KEYS
  BY RunnerTakesKeys
<1> HIDE DEF loaded
<1>5. CASE runner = "matrix" /\ DOMAIN loaded.matrix \subseteq MATRIX_KEYS
  <2>1. \E c \in expand_matrix_sweep(loaded) : ran_with(c, key, v)
    BY <1>1, <1>2, <1>5, MatrixRunsAll DEF loaded
  <2> QED  BY <2>1, <1>5 DEF runner_children, loaded
<1>6. CASE runner = "concurrency-sweep" /\ DOMAIN loaded.matrix \subseteq CONCURRENCY_SWEEP_KEYS
  <2>1. \E c \in expand_concurrency_sweep_children(loaded) : ran_with(c, key, v)
    BY <1>1, <1>2, <1>3, <1>6, ConcurrencyRunsAll DEF loaded
  <2> QED  BY <2>1, <1>6 DEF runner_children, loaded
<1>7. CASE runner = "exhaustive-sweep" /\ DOMAIN loaded.matrix \subseteq KNOWN_MATRIX_KEYS
  <2>0. key # "routers"
    BY <1>7 DEF loaded
  <2>1. key \in (DOMAIN loaded.matrix \intersect EXHAUSTIVE_SWEEP_KEYS) \ {"models"}
    BY <1>7, <2>0 DEF loaded, KNOWN_MATRIX_KEYS, EXHAUSTIVE_SWEEP_KEYS, MATRIX_KEYS,
                      CONCURRENCY_SWEEP_KEYS
  <2>2. v \in loaded.matrix[key]
    BY DEF loaded
  <2>3. \E c \in expand_exhaustive_sweep(loaded) : ran_with(c, key, v)
    BY <1>1, <1>2, <1>3, <2>1, <2>2, ExhaustiveRunsAll
  <2> QED  BY <2>3, <1>7 DEF runner_children, loaded
<1> QED  BY <1>4, <1>5, <1>6, <1>7

\* The runner of a command line, and the runs it plans at time n.
RunnerOf(paths) == infer_runner(load_config(paths))

Planned(paths, n) == runner_children(load_config(paths), RunnerOf(paths), n)

Times == 0 .. MaxCommands

\* A report is about the runs planned when the doctor was asked.
ReportInv ==
    report # NoReport =>
        /\ report.runner = RunnerOf(report.of)
        /\ report.runner = "error" => report.errors = {"runner"}
        /\ report.runner # "error" =>
              \E n \in Times, flags \in CloudFlags, env \in Environments :
                  /\ report.planned = Cardinality(Planned(report.of, n))
                  /\ report.errors =
                        doctor_errors(Planned(report.of, n), report.options, flags, env)

\* So is the outcome of a run, or it says why nothing was planned.
OutcomeInv ==
    outcome # NoOutcome =>
        /\ outcome.of \in CommandLines
        /\ outcome.options \in Budgets
        /\ outcome.runner = RunnerOf(outcome.of)
        /\ \/ /\ outcome.runner # "error"
              /\ \E n \in Times : outcome.children = Planned(outcome.of, n)
              /\ outcome.refused = {}
           \/ /\ outcome.children = {}
              /\ outcome.runner = "error" => outcome.refused = {"runner"}
              /\ outcome.runner \notin SWEEP_RUNNERS \union {"error"} =>
                     outcome.refused = {"options"}
              /\ outcome.runner \in SWEEP_RUNNERS =>
                  \E n \in Times :
                     /\ outcome.refused = budget_error(Planned(outcome.of, n), outcome.options)
                     /\ outcome.refused # {}

\* What a sweep ran is what was planned for some command line.
SweepsInv ==
    \A s \in sweeps : \E paths \in CommandLines, n \in Times :
        RunnerOf(paths) # "error" /\ s = Planned(paths, n)

PlanInv ==
    /\ commands \in Times
    /\ ReportInv
    /\ OutcomeInv
    /\ SweepsInv

LEMMA PlanInit_PlanInv == PlanInit => PlanInv
BY CommandsAssumption
     DEF PlanInit, PlanInv, ReportInv, OutcomeInv, SweepsInv, Times, NoReport, NoOutcome

\* A report tells of the command line it was asked about.
LEMMA Doctor_PlanInv ==
    ASSUME PlanInv, NEW paths \in CommandLines, NEW o \in Budgets, NEW flags \in CloudFlags,
           NEW env \in Environments, Doctor(paths, o, flags, env)
    PROVE  PlanInv'
<1> DEFINE runner == RunnerOf(paths)
           children == Planned(paths, commands)
<1>1. /\ commands \in Times /\ commands < MaxCommands /\ commands' = commands + 1
      /\ UNCHANGED <<outcome, sweeps>>
  BY DEF Doctor, PlanInv
<1>2. report' = IF runner = "error"
                THEN [of |-> paths, options |-> o, runner |-> runner,
                      planned |-> 0, errors |-> {"runner"}]
                ELSE [of |-> paths, options |-> o, runner |-> runner,
                      planned |-> Cardinality(children),
                      errors |-> doctor_errors(children, o, flags, env)]
  BY DEF Doctor, RunnerOf, Planned
<1>3. commands' \in Times
  BY <1>1, CommandsAssumption DEF Times
<1>4. ReportInv'
  <2>1. PICK n \in Times : n = commands
    BY <1>1
  <2> DEFINE R == Planned(paths, n)
             total == Cardinality(R)
             found == doctor_errors(R, o, flags, env)
  <2>2. children = R
    BY <2>1
  <2>3. CASE runner = "error"
    <3>1. report'.of = paths /\ report'.runner = runner /\ report'.errors = {"runner"}
      BY <1>2, <2>3
    <3> QED  BY <3>1, <2>3 DEF ReportInv
  <2>4. CASE runner # "error"
    <3>1. report' = [of |-> paths, options |-> o, runner |-> runner,
                     planned |-> total, errors |-> found]
      BY <1>2, <2>2, <2>4
    <3> HIDE DEF total, found, runner
    <3>2. /\ report'.of = paths /\ report'.options = o /\ report'.runner = runner
          /\ report'.planned = total /\ report'.errors = found
      BY <3>1
    <3>3. report'.runner = RunnerOf(report'.of) /\ report'.runner # "error"
      BY <3>2, <2>4 DEF runner
    <3>4. /\ report'.planned = Cardinality(Planned(report'.of, n))
          /\ report'.errors = doctor_errors(Planned(report'.of, n), report'.options, flags, env)
      BY <3>2 DEF total, found
    <3> QED  BY <3>3, <3>4 DEF ReportInv
  <2> QED  BY <2>3, <2>4
<1>5. OutcomeInv' /\ SweepsInv'
  BY <1>1 DEF PlanInv, OutcomeInv, SweepsInv
<1> QED  BY <1>3, <1>4, <1>5 DEF PlanInv

\* A run that is not refused runs what is planned.
LEMMA Run_PlanInv ==
    ASSUME PlanInv, NEW paths \in CommandLines, NEW o \in Budgets, Run(paths, o)
    PROVE  PlanInv'
<1> DEFINE runner == RunnerOf(paths)
           children == Planned(paths, commands)
<1>1. /\ commands \in Times /\ commands < MaxCommands /\ commands' = commands + 1
      /\ UNCHANGED report
  BY DEF Run, PlanInv
<1>2. PICK n \in Times : n = commands
  BY <1>1
<1>3. commands' \in Times
  BY <1>1, CommandsAssumption DEF Times
<1>4. ReportInv'
  BY <1>1 DEF PlanInv, ReportInv
<1>5. \/ runner = "error" /\ Refuse(paths, o, runner, {"runner"})
      \/ runner \notin SWEEP_RUNNERS \union {"error"} /\ Refuse(paths, o, runner, {"options"})
      \/ /\ runner \in SWEEP_RUNNERS
         /\ budget_error(children, o) # {}
         /\ Refuse(paths, o, runner, budget_error(children, o))
      \/ runner # "error" /\ Execute(paths, o, runner, children)
  <2>1. "error" \notin SWEEP_RUNNERS
    BY DEF SWEEP_RUNNERS
  <2> QED  BY <2>1 DEF Run, RunnerOf, Planned
<1>6. ASSUME NEW why, Refuse(paths, o, runner, why),
             runner = "error" => why = {"runner"},
             runner \notin SWEEP_RUNNERS \union {"error"} => why = {"options"},
             runner \in SWEEP_RUNNERS =>
                \E m \in Times : why = budget_error(Planned(paths, m), o) /\ why # {}
      PROVE  OutcomeInv' /\ SweepsInv'
  <2>1. /\ outcome'.of = paths /\ outcome'.options = o /\ outcome'.runner = runner
        /\ outcome'.children = {} /\ outcome'.refused = why /\ sweeps' = sweeps
    BY <1>6 DEF Refuse
  <2>2. SweepsInv'
    BY <2>1 DEF PlanInv, SweepsInv
  <2>3. OutcomeInv'
    BY <1>6, <2>1 DEF OutcomeInv
  <2> QED  BY <2>2, <2>3
<1>7. CASE runner = "error" /\ Refuse(paths, o, runner, {"runner"})
  BY <1>7, <1>6, <1>3, <1>4 DEF PlanInv, SWEEP_RUNNERS
<1>8. CASE runner \notin SWEEP_RUNNERS \union {"error"} /\ Refuse(paths, o, runner, {"options"})
  BY <1>8, <1>6, <1>3, <1>4 DEF PlanInv
<1>9. CASE /\ runner \in SWEEP_RUNNERS
           /\ budget_error(children, o) # {}
           /\ Refuse(paths, o, runner, budget_error(children, o))
  <2>1. PICK why : why = budget_error(children, o)
    OBVIOUS
  <2>2. why = budget_error(Planned(paths, n), o) /\ why # {}
    BY <1>2, <1>9, <2>1
  <2>3. Refuse(paths, o, runner, why)
    BY <1>9, <2>1
  <2>4. runner \notin {"error"}
    BY <1>9 DEF SWEEP_RUNNERS
  <2>5. OutcomeInv' /\ SweepsInv'
    <3> HIDE DEF runner, children
    <3> QED  BY <2>2, <2>3, <2>4, <1>6, <1>9
  <2> QED  BY <2>5, <1>3, <1>4 DEF PlanInv
<1>10. CASE runner # "error" /\ Execute(paths, o, runner, children)
  <2> DEFINE R == Planned(paths, n)
  <2>1. /\ outcome' = [of |-> paths, options |-> o, runner |-> runner,
                       children |-> R, refused |-> {}]
        /\ sweeps' = sweeps \union {R}
    BY <1>10, <1>2 DEF Execute
  <2> HIDE DEF R, runner
  <2>2. /\ outcome'.of = paths /\ outcome'.options = o /\ outcome'.runner = runner
        /\ outcome'.children = R /\ outcome'.refused = {}
    BY <2>1
  <2>3. OutcomeInv'
    BY <2>2, <1>10 DEF OutcomeInv, R, runner
  <2>4. SweepsInv'
    BY <2>1, <1>10 DEF PlanInv, SweepsInv, R, runner
  <2> QED  BY <2>3, <2>4, <1>3, <1>4 DEF PlanInv
<1> QED  BY <1>5, <1>7, <1>8, <1>9, <1>10

LEMMA PlanNext_PlanInv == PlanInv /\ [PlanNext]_planVars => PlanInv'
<1> SUFFICES ASSUME PlanInv, [PlanNext]_planVars PROVE PlanInv'
  OBVIOUS
<1>1. CASE UNCHANGED planVars
  BY <1>1 DEF planVars, PlanInv, ReportInv, OutcomeInv, SweepsInv
<1>2. ASSUME NEW paths \in CommandLines, NEW o \in Budgets, Run(paths, o) PROVE PlanInv'
  BY <1>2, Run_PlanInv
<1>3. ASSUME NEW paths \in CommandLines, NEW o \in Budgets, NEW flags \in CloudFlags,
             NEW env \in Environments, Doctor(paths, o, flags, env)
      PROVE  PlanInv'
BY <1>3, Doctor_PlanInv
<1> QED  BY <1>1, <1>2, <1>3 DEF PlanNext

LEMMA PlanInvariant == PlanSpec => []PlanInv
BY PlanInit_PlanInv, PlanNext_PlanInv, PTL DEF PlanSpec

\* Planned runs with one name agree up to the model, whatever the runner.
LEMMA PlannedNames ==
    ASSUME NEW paths \in CommandLines, NEW n,
           NEW c \in Planned(paths, n), NEW d \in Planned(paths, n), c.name = d.name
    PROVE  SameButModel(c.config, d.config)
<1> DEFINE loaded == load_config(paths)
           runner == RunnerOf(paths)
<1>1. CASE runner = "matrix"
  <2>1. c \in expand_matrix_sweep(loaded) /\ d \in expand_matrix_sweep(loaded)
    BY <1>1 DEF Planned, runner_children
  <2> QED  BY <2>1, MatrixNames
<1>2. CASE runner = "concurrency-sweep"
  <2>1. /\ c \in expand_concurrency_sweep_children(loaded)
        /\ d \in expand_concurrency_sweep_children(loaded)
    BY <1>2 DEF Planned, runner_children
  <2> QED  BY <2>1, ConcurrencyNames
<1>3. CASE runner = "exhaustive-sweep"
  <2>1. c \in expand_exhaustive_sweep(loaded) /\ d \in expand_exhaustive_sweep(loaded)
    BY <1>3 DEF Planned, runner_children
  <2>2. \A r \in exhaustive_points(loaded) :
            r.strategy \in STRATEGIES /\ r.adapter_count \in 1 .. 5
    BY PointsAreAllowed
  <2>3. "adapters" \in DOMAIN loaded.config
    BY LoadedConfig, FieldsHaveDefaults DEF ConfigFields
  <2> QED  BY <2>1, <2>2, <2>3, ExhaustiveNames
<1>4. CASE runner \notin SWEEP_RUNNERS
  <2>1. c.config = loaded.config /\ d.config = loaded.config
    BY <1>4 DEF Planned, runner_children, SWEEP_RUNNERS
  <2> DEFINE x == loaded.config
  <2>2. x = [k \in DOMAIN x |-> x[k]]
    BY LoadedConfig
  <2>3. SameButModel(x, x)
    <3> HIDE DEF x
    <3> QED  BY <2>2, SameUpToModel
  <2> QED  BY <2>1, <2>3
<1> QED  BY <1>1, <1>2, <1>3, <1>4 DEF SWEEP_RUNNERS

\* For every set of files and budgets and every number of commands: two
\* children of a sweep that share a run directory are the same run up to the
\* model, so that neither overwrites the results of another run.
THEOREM NamesAreSound == PlanSpec => []NamesIdentifyRuns
<1>1. PlanInv => NamesIdentifyRuns
  <2> SUFFICES ASSUME PlanInv, NEW s \in sweeps, NEW c \in s, NEW d \in s, c.name = d.name
               PROVE  SameButModel(c.config, d.config)
    BY DEF NamesIdentifyRuns, SameButModel
  <2>1. PICK paths \in CommandLines, n \in Times : s = Planned(paths, n)
    BY DEF PlanInv, SweepsInv
  <2> QED  BY <2>1, PlannedNames
<1> QED  BY <1>1, PlanInvariant, PTL

\* A condition can be told from what a name says of it, across sweeps too: one
\* that is left out is "warm".
LEMMA LabelTellsCondition ==
    ASSUME NEW loaded, NEW other, NEW x, NEW y,
           x \in matrix_values(loaded, "cache_conditions", loaded.config.condition),
           y \in matrix_values(other, "cache_conditions", other.config.condition),
           condition_label(loaded, x) = condition_label(other, y)
    PROVE  x = y
BY DEF condition_label, matrix_values

\* What a strategy makes of the router and of the served adapters depends on
\* the strategy alone; in an exhaustive sweep the count decides the latter.
LEMMA StrategyDecides ==
    ASSUME NEW cfg, ConfigFields \subseteq DOMAIN cfg, NEW p, p.strategy \in STRATEGIES,
           NEW q, q.strategy = p.strategy,
           NEW old, ConfigFields \subseteq DOMAIN old
    PROVE  LET x == apply_strategy(cfg, p.strategy)
               y == apply_strategy(old, q.strategy)
           IN  /\ x.policy = y.policy /\ x.served = y.served
               /\ p.strategy = "base" => x.served = {}
               /\ DOMAIN x = DOMAIN cfg
BY DEF apply_strategy, STRATEGIES, ConfigFields

\* Equal names of two matrix sweeps stand for the same point.
LEMMA MatrixFields ==
    ASSUME NEW loaded, ConfigFields \subseteq DOMAIN loaded.config,
           NEW other, ConfigFields \subseteq DOMAIN other.config,
           NEW c \in expand_matrix_sweep(loaded), NEW d \in expand_matrix_sweep(other),
           c.name = d.name
    PROVE  \A k \in named_fields("matrix") : c.config[k] = d.config[k]
<1>1. PICK p \in matrix_points(loaded) :
          c = [point |-> p, name |-> matrix_name(loaded, p),
               config |-> matrix_config(loaded.config, p)]
  BY DEF expand_matrix_sweep
<1>2. PICK q \in matrix_points(other) :
          d = [point |-> q, name |-> matrix_name(other, q),
               config |-> matrix_config(other.config, q)]
  BY DEF expand_matrix_sweep
<1>3. matrix_name(loaded, p) = matrix_name(other, q)
  BY <1>1, <1>2
<1>4. /\ p.workload = q.workload /\ p.router = q.router /\ p.cache = q.cache
      /\ p.seed = q.seed
      /\ condition_label(loaded, p.condition) = condition_label(other, q.condition)
  BY <1>3, SMT DEF matrix_name
<1>5. p.condition = q.condition
  <2>1. /\ p.condition \in matrix_values(loaded, "cache_conditions", loaded.config.condition)
        /\ q.condition \in matrix_values(other, "cache_conditions", other.config.condition)
    BY DEF matrix_points
  <2> QED  BY <1>4, <2>1, LabelTellsCondition
<1>6. /\ c.config = matrix_config(loaded.config, p)
      /\ d.config = matrix_config(other.config, q)
  BY <1>1, <1>2
<1>7. /\ c.config.policy = p.router /\ c.config.cache = p.cache
      /\ c.config.condition = p.condition /\ c.config.workload = p.workload
      /\ c.config.seed = p.seed
  BY <1>6 DEF matrix_config, ConfigFields
<1>8. /\ d.config.policy = q.router /\ d.config.cache = q.cache
      /\ d.config.condition = q.condition /\ d.config.workload = q.workload
      /\ d.config.seed = q.seed
  BY <1>6 DEF matrix_config, ConfigFields
<1> QED  BY <1>4, <1>5, <1>7, <1>8 DEF named_fields

\* The same of two concurrency sweeps.
LEMMA ConcurrencyFields ==
    ASSUME NEW loaded, ConfigFields \subseteq DOMAIN loaded.config,
           NEW other, ConfigFields \subseteq DOMAIN other.config,
           \A r \in concurrency_points(loaded) : r.strategy \in STRATEGIES,
           NEW c \in expand_concurrency_sweep_children(loaded),
           NEW d \in expand_concurrency_sweep_children(other),
           c.name = d.name
    PROVE  \A k \in named_fields("concurrency-sweep") : c.config[k] = d.config[k]
<1>1. PICK p \in concurrency_points(loaded) :
          c = [point |-> p, name |-> concurrency_name(loaded, p),
               config |-> concurrency_config(loaded.config, p)]
  BY DEF expand_concurrency_sweep_children
<1>2. PICK q \in concurrency_points(other) :
          d = [point |-> q, name |-> concurrency_name(other, q),
               config |-> concurrency_config(other.config, q)]
  BY DEF expand_concurrency_sweep_children
<1>3. concurrency_name(loaded, p) = concurrency_name(other, q)
  BY <1>1, <1>2
<1>4. /\ p.strategy = q.strategy /\ p.concurrency = q.concurrency /\ p.seed = q.seed
      /\ condition_label(loaded, p.condition) = condition_label(other, q.condition)
  BY <1>3, SMT DEF concurrency_name
<1>5. p.condition = q.condition
  <2>1. /\ p.condition \in matrix_values(loaded, "cache_conditions", loaded.config.condition)
        /\ q.condition \in matrix_values(other, "cache_conditions", other.config.condition)
    BY DEF concurrency_points
  <2> QED  BY <1>4, <2>1, LabelTellsCondition
<1> DEFINE x == apply_strategy(loaded.config, p.strategy)
           y == apply_strategy(other.config, q.strategy)
<1>6. /\ x.policy = y.policy /\ x.served = y.served
      /\ ConfigFields \subseteq DOMAIN x /\ ConfigFields \subseteq DOMAIN y
  BY <1>4, StrategyDecides
<1>7. /\ c.config = [x EXCEPT !.concurrency = p.concurrency, !.condition = p.condition,
                              !.seed = p.seed]
      /\ d.config = [y EXCEPT !.concurrency = q.concurrency, !.condition = q.condition,
                              !.seed = q.seed]
  BY <1>1, <1>2 DEF concurrency_config
<1> HIDE DEF x, y
<1>8. /\ c.config.concurrency = p.concurrency /\ d.config.concurrency = q.concurrency
      /\ c.config.condition = p.condition /\ d.config.condition = q.condition
      /\ c.config.seed = p.seed /\ d.config.seed = q.seed
      /\ c.config.policy = x.policy /\ d.config.policy = y.policy
      /\ c.config.served = x.served /\ d.config.served = y.served
  BY <1>6, <1>7 DEF ConfigFields
<1> QED  BY <1>4, <1>5, <1>6, <1>8 DEF named_fields

\* What the adapters of an exhaustive child are.
LEMMA ExhaustiveServed ==
    ASSUME NEW cfg, ConfigFields \subseteq DOMAIN cfg, NEW p, p.strategy \in STRATEGIES
    PROVE  LET config == exhaustive_config(cfg, p)
               ids    == ADAPTER_IDS_BY_COUNT[p.adapter_count]
           IN  /\ config.policy = apply_strategy(cfg, p.strategy).policy
               /\ p.strategy = "base" => config.served = {}
               /\ p.strategy = "multitask" => config.served = {"multitask"}
               /\ p.strategy \notin {"base", "multitask"} =>
                      config.served = ids /\ config.adapters = ids
<1> DEFINE x == placed(cfg, p)
           start == apply_strategy(cfg, p.strategy)
           ids == ADAPTER_IDS_BY_COUNT[p.adapter_count]
<1>1. DOMAIN start = DOMAIN cfg /\ (p.strategy = "base" => start.served = {})
  BY StrategyFields, StrategyDecides
<1>2. x = [start EXCEPT !.model = p.model.name, !.concurrency = p.concurrency,
               !.workload = p.workload, !.cache = p.cache, !.condition = p.condition,
               !.seed = p.seed, !.overlap = p.overlap, !.tenants = p.tenants,
               !.scope = p.scope]
  BY DEF placed
<1>3. /\ x.policy = start.policy /\ x.served = start.served /\ DOMAIN x = DOMAIN start
  <2>1. {"policy", "served"} \subseteq DOMAIN start
    BY <1>1 DEF ConfigFields
  <2> HIDE DEF x, start
  <2> QED  BY <1>2, <2>1
<1>4. exhaustive_config(cfg, p) =
          apply_adapter_count(x, p.strategy, p.adapter_count, p.model.name)
  BY DEF exhaustive_config, placed
<1>5. {"policy", "served", "adapters"} \subseteq DOMAIN x
  BY <1>1, <1>3 DEF ConfigFields
<1> HIDE DEF x, start, ids
<1>6. CASE p.strategy = "base"
  BY <1>1, <1>3, <1>4, <1>6 DEF apply_adapter_count, start
<1>7. CASE p.strategy = "multitask"
  BY <1>3, <1>4, <1>5, <1>7 DEF apply_adapter_count, start
<1>8. CASE p.strategy \notin {"base", "multitask"}
  BY <1>3, <1>4, <1>5, <1>8 DEF apply_adapter_count, start, ids
<1> QED  BY <1>6, <1>7, <1>8 DEF ids

\* The same of two exhaustive sweeps, though names are made from the number of
\* adapters only.
LEMMA ExhaustiveNamedFields ==
    ASSUME NEW loaded, ConfigFields \subseteq DOMAIN loaded.config,
           NEW other, ConfigFields \subseteq DOMAIN other.config,
           \A r \in exhaustive_points(loaded) \union exhaustive_points(other) :
               r.strategy \in STRATEGIES /\ r.adapter_count \in 1 .. 5,
           NEW c \in expand_exhaustive_sweep(loaded), NEW d \in expand_exhaustive_sweep(other),
           c.name = d.name
    PROVE  \A k \in named_fields("exhaustive-sweep") : c.config[k] = d.config[k]
<1>1. PICK p \in exhaustive_points(loaded) :
          c = [point |-> p, name |-> exhaustive_name(loaded, p),
               config |-> exhaustive_config(loaded.config, p)]
  BY DEF expand_exhaustive_sweep
<1>2. PICK q \in exhaustive_points(other) :
          d = [point |-> q, name |-> exhaustive_name(other, q),
               config |-> exhaustive_config(other.config, q)]
  BY DEF expand_exhaustive_sweep
<1>3. exhaustive_name(loaded, p) = exhaustive_name(other, q)
  BY <1>1, <1>2
<1> DEFINE Count(cfg, r) == IF r.strategy = "specialists" THEN r.adapter_count
                            ELSE Cardinality(exhaustive_config(cfg, r).adapters)
<1>4. /\ p.strategy = q.strategy /\ p.concurrency = q.concurrency
      /\ p.workload = q.workload /\ p.cache = q.cache /\ p.overlap = q.overlap
      /\ p.tenants = q.tenants /\ p.scope = q.scope /\ p.seed = q.seed
      /\ condition_label(loaded, p.condition) = condition_label(other, q.condition)
      /\ Count(loaded.config, p) = Count(other.config, q)
  BY <1>3, SMT DEF exhaustive_name
<1>5. p.condition = q.condition
  <2>1. /\ p.condition \in matrix_values(loaded, "cache_conditions", loaded.config.condition)
        /\ q.condition \in matrix_values(other, "cache_conditions", other.config.condition)
    BY DEF exhaustive_points
  <2> QED  BY <1>4, <2>1, LabelTellsCondition
<1>6. /\ c.config = exhaustive_config(loaded.config, p)
      /\ d.config = exhaustive_config(other.config, q)
  BY <1>1, <1>2
<1>7. /\ p.strategy \in STRATEGIES /\ p.adapter_count \in 1 .. 5
      /\ q.strategy \in STRATEGIES /\ q.adapter_count \in 1 .. 5
  OBVIOUS
<1>8. \A k \in named_fields("exhaustive-sweep") \ {"policy", "served"} :
          c.config[k] = d.config[k]
  <2>1. /\ c.config.concurrency = p.concurrency /\ c.config.workload = p.workload
        /\ c.config.cache = p.cache /\ c.config.condition = p.condition
        /\ c.config.seed = p.seed /\ c.config.overlap = p.overlap
        /\ c.config.tenants = p.tenants /\ c.config.scope = p.scope
    BY <1>6, <1>7, ExhaustiveFields
  <2>2. /\ d.config.concurrency = q.concurrency /\ d.config.workload = q.workload
        /\ d.config.cache = q.cache /\ d.config.condition = q.condition
        /\ d.config.seed = q.seed /\ d.config.overlap = q.overlap
        /\ d.config.tenants = q.tenants /\ d.config.scope = q.scope
    BY <1>6, <1>7, ExhaustiveFields
  <2> QED  BY <1>4, <1>5, <2>1, <2>2 DEF named_fields
<1>9. c.config.policy = d.config.policy
  <2>1. c.config.policy = apply_strategy(loaded.config, p.strategy).policy
    BY <1>6, <1>7, ExhaustiveServed
  <2>2. d.config.policy = apply_strategy(other.config, q.strategy).policy
    BY <1>6, <1>7, ExhaustiveServed
  <2>3. p.strategy \in STRATEGIES /\ q.strategy = p.strategy
    BY <1>4, <1>7
  <2>4. apply_strategy(loaded.config, p.strategy).policy
          = apply_strategy(other.config, q.strategy).policy
    BY <2>3, StrategyDecides
  <2> QED  BY <2>1, <2>2, <2>4
<1>10. c.config.served = d.config.served
  <2>1. CASE p.strategy \in {"base", "multitask"}
    <3>1. /\ p.strategy = "base" => c.config.served = {}
          /\ p.strategy = "multitask" => c.config.served = {"multitask"}
      BY <1>6, <1>7, ExhaustiveServed
    <3>2. /\ q.strategy = "base" => d.config.served = {}
          /\ q.strategy = "multitask" => d.config.served = {"multitask"}
      BY <1>6, <1>7, ExhaustiveServed
    <3> QED  BY <1>4, <2>1, <3>1, <3>2
  <2>2. CASE p.strategy \notin {"base", "multitask"}
    <3>1. /\ c.config.served = ADAPTER_IDS_BY_COUNT[p.adapter_count]
          /\ c.config.adapters = ADAPTER_IDS_BY_COUNT[p.adapter_count]
      BY <1>6, <1>7, <2>2, ExhaustiveServed
    <3>2. /\ d.config.served = ADAPTER_IDS_BY_COUNT[q.adapter_count]
          /\ d.config.adapters = ADAPTER_IDS_BY_COUNT[q.adapter_count]
      BY <1>4, <1>6, <1>7, <2>2, ExhaustiveServed
    <3>3. /\ Cardinality(c.config.adapters) = p.adapter_count
          /\ Cardinality(d.config.adapters) = q.adapter_count
      BY <1>7, <3>1, <3>2, CountOfIds
    <3>4. p.adapter_count = q.adapter_count
      BY <1>4, <1>6, <3>3
    <3> QED  BY <3>1, <3>2, <3>4
  <2> QED  BY <2>1, <2>2
<1> QED  BY <1>8, <1>9, <1>10 DEF named_fields

\* Runs that were planned under one name, at any time and for any command
\* lines, agree on what the name tells.
LEMMA PlannedFields ==
    ASSUME NEW paths \in CommandLines, NEW n, NEW c \in Planned(paths, n),
           NEW others \in CommandLines, NEW m, NEW d \in Planned(others, m),
           c.name = d.name
    PROVE  \A k \in named_fields(c.name.by) : c.config[k] = d.config[k]
<1> DEFINE loaded == load_config(paths)
           other == load_config(others)
<1>1. /\ ConfigFields \subseteq DOMAIN loaded.config
      /\ ConfigFields \subseteq DOMAIN other.config
  BY LoadedConfig, FieldsHaveDefaults
<1>2. c.name.by = RunnerOf(paths)
  BY DEF Planned, runner_children, expand_matrix_sweep, matrix_name,
         expand_concurrency_sweep_children, concurrency_name,
         expand_exhaustive_sweep, exhaustive_name
<1>3. d.name.by = RunnerOf(others)
  BY DEF Planned, runner_children, expand_matrix_sweep, matrix_name,
         expand_concurrency_sweep_children, concurrency_name,
         expand_exhaustive_sweep, exhaustive_name
<1>4. RunnerOf(others) = RunnerOf(paths)
  BY <1>2, <1>3
<1>5. CASE RunnerOf(paths) = "matrix"
  <2>1. c \in expand_matrix_sweep(loaded) /\ d \in expand_matrix_sweep(other)
    BY <1>4, <1>5 DEF Planned, runner_children
  <2> QED  BY <1>1, <1>2, <1>5, <2>1, MatrixFields
<1>6. CASE RunnerOf(paths) = "concurrency-sweep"
  <2>1. /\ c \in expand_concurrency_sweep_children(loaded)
        /\ d \in expand_concurrency_sweep_children(other)
    BY <1>4, <1>6 DEF Planned, runner_children
  <2>2. \A r \in concurrency_points(loaded) : r.strategy \in STRATEGIES
    BY PointsAreAllowed
  <2> QED  BY <1>1, <1>2, <1>6, <2>1, <2>2, ConcurrencyFields
<1>7. CASE RunnerOf(paths) = "exhaustive-sweep"
  <2>1. c \in expand_exhaustive_sweep(loaded) /\ d \in expand_exhaustive_sweep(other)
    BY <1>4, <1>7 DEF Planned, runner_children
  <2>2. \A r \in exhaustive_points(loaded) \union exhaustive_points(other) :
            r.strategy \in STRATEGIES /\ r.adapter_count \in 1 .. 5
    BY PointsAreAllowed
  <2> QED  BY <1>1, <1>2, <1>7, <2>1, <2>2, ExhaustiveNamedFields
<1>8. CASE RunnerOf(paths) \notin SWEEP_RUNNERS
  BY <1>2, <1>8 DEF named_fields, SWEEP_RUNNERS
<1> QED  BY <1>5, <1>6, <1>7, <1>8 DEF SWEEP_RUNNERS

\* Every directory holds what was planned under its name, by some command.
StoreInv ==
    /\ \A s \in sweeps : \A c \in s : c.name \in DOMAIN store
    /\ \A name \in DOMAIN store :
           \E paths \in CommandLines, n \in Times : \E c \in Planned(paths, n) :
               c.name = name /\ store[name] = c.config

LEMMA Execute_StoreInv ==
    ASSUME StoreInv, NEW paths \in CommandLines, NEW o, NEW n \in Times, NEW runner,
           Execute(paths, o, runner, Planned(paths, n))
    PROVE  StoreInv'
<1> DEFINE children == Planned(paths, n)
           fresh == {c \in children : ~(o.resume /\ c.name \in DOMAIN store)}
           names == {c.name : c \in fresh}
           run(name) == CHOOSE c \in fresh : c.name = name
           new == [name \in names |-> run(name).config]
<1>1. store' = updated(store, new) /\ sweeps' = sweeps \union {children}
  BY DEF Execute
<1>2. ASSUME NEW name \in names
      PROVE  run(name) \in children /\ run(name).name = name
  <2>1. \E c \in fresh : c.name = name
    BY <1>2
  <2>2. run(name) \in fresh /\ run(name).name = name
    <3> HIDE DEF fresh
    <3> QED  BY <2>1
  <2> QED  BY <2>2
<1> HIDE DEF run
<1>3. /\ DOMAIN store' = DOMAIN store \union names
      /\ \A name \in names : store'[name] = run(name).config
      /\ \A name \in DOMAIN store \ names : store'[name] = store[name]
  <2>1. DOMAIN new = names /\ \A name \in names : new[name] = run(name).config
    OBVIOUS
  <2> HIDE DEF new, names
  <2> QED  BY <1>1, <2>1 DEF updated
<1>4. \A c \in children : c.name \in DOMAIN store'
  BY <1>3
<1>5. \A s \in sweeps' : \A c \in s : c.name \in DOMAIN store'
  BY <1>1, <1>3, <1>4 DEF StoreInv
<1>6. ASSUME NEW name \in DOMAIN store'
      PROVE  \E p \in CommandLines, m \in Times : \E c \in Planned(p, m) :
                 c.name = name /\ store'[name] = c.config
  <2>1. CASE name \in names
    BY <1>2, <1>3, <2>1
  <2>2. CASE name \notin names
    <3>1. name \in DOMAIN store /\ store'[name] = store[name]
      BY <1>3, <1>6, <2>2
    <3> HIDE DEF names
    <3> QED  BY <3>1 DEF StoreInv
  <2> QED  BY <2>1, <2>2
<1> QED  BY <1>5, <1>6 DEF StoreInv

LEMMA PlanNext_StoreInv ==
    ASSUME PlanInv, StoreInv, [PlanNext]_planVars
    PROVE  StoreInv'
<1>1. ASSUME UNCHANGED <<store, sweeps>> PROVE StoreInv'
  BY <1>1 DEF StoreInv
<1>2. ASSUME NEW paths \in CommandLines, NEW o \in Budgets, Run(paths, o) PROVE StoreInv'
  <2>1. PICK n \in Times : n = commands
    BY DEF PlanInv
  <2>2. \/ Execute(paths, o, RunnerOf(paths), Planned(paths, n))
        \/ UNCHANGED <<store, sweeps>>
    <3>1. Planned(paths, commands) = Planned(paths, n)
      BY <2>1
    <3> QED  BY <1>2, <3>1 DEF Run, Refuse, RunnerOf, Planned
  <2> QED  BY <1>1, <2>2, Execute_StoreInv
<1>3. ASSUME NEW paths \in CommandLines, NEW o \in Budgets, NEW flags \in CloudFlags,
             NEW env \in Environments, Doctor(paths, o, flags, env)
      PROVE  StoreInv'
  BY <1>1, <1>3 DEF Doctor
<1>4. CASE UNCHANGED planVars
  BY <1>1, <1>4 DEF planVars
<1> QED  BY <1>2, <1>3, <1>4 DEF PlanNext

\* For every set of files and every sequence of commands, resumed or not: the
\* directory of a child that a sweep reports holds a run with the fields that
\* its name tells, whoever ran there last.
THEOREM NamesTellWhatRan == PlanSpec => []DirectoryHoldsName
<1>1. PlanInit => StoreInv
  BY DEF PlanInit, StoreInv
<1>2. PlanInv /\ StoreInv => DirectoryHoldsName
  <2> SUFFICES ASSUME PlanInv, StoreInv, NEW s \in sweeps, NEW c \in s
               PROVE  /\ c.name \in DOMAIN store
                      /\ \A k \in named_fields(c.name.by) : store[c.name][k] = c.config[k]
    BY DEF DirectoryHoldsName
  <2>1. PICK paths \in CommandLines, n \in Times : s = Planned(paths, n)
    BY DEF PlanInv, SweepsInv
  <2>2. c.name \in DOMAIN store
    BY DEF StoreInv
  <2>3. PICK others \in CommandLines, m \in Times : \E d \in Planned(others, m) :
            d.name = c.name /\ store[c.name] = d.config
    BY <2>2 DEF StoreInv
  <2>4. PICK d \in Planned(others, m) : d.name = c.name /\ store[c.name] = d.config
    BY <2>3
  <2>5. \A k \in named_fields(c.name.by) : c.config[k] = d.config[k]
    BY <2>1, <2>4, PlannedFields
  <2> QED  BY <2>2, <2>4, <2>5
<1>3. PlanInv /\ StoreInv /\ [PlanNext]_planVars => StoreInv'
  BY PlanNext_StoreInv
<1> QED  BY <1>1, <1>2, <1>3, PlanInvariant, PTL DEF PlanSpec

\* The runs of a sweep do not depend on the time of the command.
LEMMA SweepsArePlanned ==
    ASSUME NEW paths, RunnerOf(paths) \in SWEEP_RUNNERS, NEW n, NEW m
    PROVE  Planned(paths, n) = Planned(paths, m)
BY DEF Planned, runner_children, SWEEP_RUNNERS

\* A single run is one run of the merged configuration, whenever it starts.
LEMMA SingleRun ==
    ASSUME NEW paths, RunnerOf(paths) \notin SWEEP_RUNNERS, NEW n
    PROVE  /\ Cardinality(Planned(paths, n)) = 1
           /\ Planned(paths, n) # {}
           /\ \A c \in Planned(paths, n) : c.config = load_config(paths).config
<1> DEFINE c == [point |-> [run |-> RunnerOf(paths)], config |-> load_config(paths).config,
                 name |-> [by |-> RunnerOf(paths),
                           parts |-> <<load_config(paths).config.run_name, n>>]]
<1>1. Planned(paths, n) = {c}
  BY DEF Planned, runner_children, SWEEP_RUNNERS
<1>2. c.config = load_config(paths).config
  OBVIOUS
<1>3. Cardinality({c}) = 1
  <2> HIDE DEF c
  <2> QED  BY FS_Singleton
<1> HIDE DEF c
<1> QED  BY <1>1, <1>2, <1>3

\* What a report without errors has checked.
LEMMA CleanReport ==
    ASSUME NEW children, NEW o, NEW flags, NEW env,
           doctor_errors(children, o, flags, env) = {}
    PROVE  /\ budget_error(children, o) = {}
           /\ \A c \in children : c.config.kind = "vllm" =>
                  c.config.served = {} \/ c.config.adapters \subseteq c.config.served
<1>1. budget_error(children, o) = {}
  BY DEF doctor_errors
<1>2. ASSUME NEW c \in children, c.config.kind = "vllm"
      PROVE  c.config.served = {} \/ c.config.adapters \subseteq c.config.served
  <2> DEFINE remote == {d \in children : d.config.kind \in REMOTE_BACKENDS}
  <2>1. c \in remote
    BY <1>2 DEF REMOTE_BACKENDS
  <2>2. UNION {backend_errors(d.config) : d \in remote} = {}
    BY <2>1 DEF doctor_errors
  <2>3. "adapter_names" \notin backend_errors(c.config)
    <3> HIDE DEF remote
    <3> QED  BY <2>1, <2>2
  <2> QED  BY <2>3, <1>2 DEF backend_errors
<1> QED  BY <1>1, <1>2

\* --resume has no part in the budget.
LEMMA ResumeIsNoBudget ==
    ASSUME NEW children, NEW o \in Budgets, NEW r, r = [o EXCEPT !.resume = FALSE]
    PROVE  budget_error(children, r) = budget_error(children, o)
<1>1. /\ r.max_runs = o.max_runs /\ r.max_requests = o.max_requests
      /\ r.max_gpu_hours = o.max_gpu_hours /\ r.seconds_per_run = o.seconds_per_run
  <2>1. {"max_runs", "max_requests", "max_gpu_hours", "seconds_per_run"} \subseteq DOMAIN o
    BY BudgetsAssumption
  <2> QED  BY <2>1
<1> QED  BY <1>1 DEF budget_error

\* What a report of `acb doctor` without errors says of a command line is what
\* `acb run` does with it, however many commands come between the two and
\* whatever the cloud answered.
THEOREM DoctorIsSound == PlanSpec => []DoctorForeseesRun
<1>1. PlanInv => DoctorForeseesRun
  <2> SUFFICES ASSUME PlanInv, report # NoReport, outcome # NoOutcome,
                      report.of = outcome.of,
                      report.options = [outcome.options EXCEPT !.resume = FALSE],
                      report.errors = {}
               PROVE  /\ outcome.refused \subseteq {"options"}
                      /\ outcome.refused = {} =>
                             Cardinality(outcome.children) = report.planned
                      /\ \A c \in outcome.children :
                             c.config.kind = "vllm" =>
                                c.config.served = {} \/ c.config.adapters \subseteq c.config.served
    BY DEF DoctorForeseesRun
  <2>0. PICK of, o : of = outcome.of /\ o = report.options
    OBVIOUS
  <2>1. RunnerOf(of) # "error"
    <3>1. {"runner"} # {}
      OBVIOUS
    <3>2. ReportInv
      BY DEF PlanInv
    <3> QED  BY <2>0, <3>1, <3>2 DEF ReportInv
  <2>2. PICK n \in Times, flags \in CloudFlags, env \in Environments :
            /\ report.planned = Cardinality(Planned(of, n))
            /\ doctor_errors(Planned(of, n), o, flags, env) = {}
    <3>1. ReportInv /\ report.runner # "error"
      BY <2>0, <2>1 DEF PlanInv, ReportInv
    <3>2. \E n \in Times, flags \in CloudFlags, env \in Environments :
              /\ report.planned = Cardinality(Planned(report.of, n))
              /\ report.errors = doctor_errors(Planned(report.of, n), report.options, flags, env)
      BY <3>1 DEF ReportInv
    <3>3. PICK n \in Times, flags \in CloudFlags, env \in Environments :
              /\ report.planned = Cardinality(Planned(report.of, n))
              /\ report.errors = doctor_errors(Planned(report.of, n), report.options, flags, env)
      BY <3>2
    <3>4. report.planned = Cardinality(Planned(of, n))
      BY <2>0, <3>3
    <3>5. doctor_errors(Planned(of, n), o, flags, env) = {}
      BY <2>0, <3>3
    <3> QED  BY <3>4, <3>5
  <2>3. /\ budget_error(Planned(of, n), o) = {}
        /\ \A c \in Planned(of, n) : c.config.kind = "vllm" =>
               c.config.served = {} \/ c.config.adapters \subseteq c.config.served
    BY <2>2, CleanReport
  <2>4. outcome.options \in Budgets /\ outcome.runner = RunnerOf(of)
    BY <2>0 DEF PlanInv, OutcomeInv
  <2>5. budget_error(Planned(of, n), outcome.options) = {}
    BY <2>0, <2>3, <2>4, ResumeIsNoBudget
  <2>6. CASE outcome.refused = {} /\ \E m \in Times : outcome.children = Planned(of, m)
    <3>1. PICK m \in Times : outcome.children = Planned(of, m)
      BY <2>6
    <3>2. CASE RunnerOf(of) \in SWEEP_RUNNERS
      <4>1. Planned(of, m) = Planned(of, n)
        BY <3>2, SweepsArePlanned
      <4> QED  BY <2>2, <2>3, <2>6, <3>1, <4>1
    <3>3. CASE RunnerOf(of) \notin SWEEP_RUNNERS
      <4>1. Cardinality(Planned(of, m)) = Cardinality(Planned(of, n))
        BY <3>3, SingleRun
      <4>2. PICK d \in Planned(of, n) : TRUE
        BY <3>3, SingleRun
      <4>3. \A c \in Planned(of, m) : c.config = d.config
        BY <3>3, SingleRun
      <4> QED  BY <2>2, <2>3, <2>6, <3>1, <4>1, <4>2, <4>3
    <3> QED  BY <3>2, <3>3
  <2>7. CASE /\ outcome.children = {}
             /\ outcome.runner \notin SWEEP_RUNNERS \union {"error"} =>
                    outcome.refused = {"options"}
             /\ outcome.runner \in SWEEP_RUNNERS =>
                  \E m \in Times : /\ outcome.refused = budget_error(Planned(of, m), outcome.options)
                                   /\ outcome.refused # {}
    <3>1. RunnerOf(of) \notin SWEEP_RUNNERS
      <4> SUFFICES ASSUME RunnerOf(of) \in SWEEP_RUNNERS PROVE FALSE
        OBVIOUS
      <4>1. PICK m \in Times : /\ outcome.refused = budget_error(Planned(of, m), outcome.options)
                               /\ outcome.refused # {}
        BY <2>4, <2>7
      <4>2. Planned(of, m) = Planned(of, n)
        BY SweepsArePlanned
      <4> QED  BY <2>5, <4>1, <4>2
    <3> QED  BY <2>1, <2>4, <2>7, <3>1
  <2> QED  BY <2>0, <2>6, <2>7 DEF PlanInv, OutcomeInv
<1> QED  BY <1>1, PlanInvariant, PTL

\* A list that no later file overrides is the list of the merged matrix.
LEMMA LaterFileWins ==
    ASSUME NEW paths \in CommandLines, NEW i \in DOMAIN paths,
           NEW key \in DOMAIN paths[i].matrix,
           ~ \E j \in DOMAIN paths : j > i /\ key \in DOMAIN paths[j].matrix
    PROVE  /\ key \in DOMAIN load_config(paths).matrix
           /\ load_config(paths).matrix[key] = paths[i].matrix[key]
<1>1. CASE \E f \in Files : paths = <<f>>
  <2>1. PICK f \in Files : paths = <<f>>
    BY <1>1
  <2>2. load_config(paths).matrix = f.matrix
    BY <2>1 DEF load_config
  <2>3. i = 1 /\ paths[i] = f
    BY <2>1
  <2> QED  BY <2>2, <2>3
<1>2. CASE \E f \in Files, o \in Overlays : paths = <<f, o>>
  <2>1. PICK f \in Files, o \in Overlays : paths = <<f, o>>
    BY <1>2
  <2>2. load_config(paths).matrix = updated(f.matrix, o.matrix)
    BY <2>1 DEF load_config, deep_merge
  <2>3. \/ i = 1 /\ paths[i] = f /\ key \notin DOMAIN o.matrix
        \/ i = 2 /\ paths[i] = o
    <3>1. DOMAIN paths = {1, 2} /\ paths[1] = f /\ paths[2] = o
      BY <2>1
    <3> QED  BY <3>1
  <2> QED  BY <2>2, <2>3 DEF updated
<1> QED  BY <1>1, <1>2 DEF CommandLines

\* Every value that a file lists and no later one overrides is run by the
\* runner that infer_runner chooses, except `routers` in an exhaustive sweep.
THEOREM EveryValueHasRun == PlanSpec => []EveryValueIsRun
<1>1. PlanInv => EveryValueIsRun
  <2> SUFFICES ASSUME PlanInv, outcome # NoOutcome, outcome.refused = {},
                      NEW i \in DOMAIN outcome.of,
                      NEW key \in DOMAIN outcome.of[i].matrix \ {"models"},
                      ~ \E j \in DOMAIN outcome.of : j > i /\ key \in DOMAIN outcome.of[j].matrix,
                      ~ (outcome.runner = "exhaustive-sweep" /\ key = "routers"),
                      NEW v \in outcome.of[i].matrix[key]
               PROVE  \E c \in outcome.children : ran_with(c, key, v)
    BY DEF EveryValueIsRun
  <2>1. PICK of : of = outcome.of
    OBVIOUS
  <2>2. of \in CommandLines /\ outcome.runner = RunnerOf(of)
    BY <2>1 DEF PlanInv, OutcomeInv
  <2>3. RunnerOf(of) # "error" /\ \E n \in Times : outcome.children = Planned(of, n)
    BY <2>1, <2>2 DEF PlanInv, OutcomeInv
  <2>4. PICK n \in Times : outcome.children = Planned(of, n)
    BY <2>3
  <2>5. key \in DOMAIN load_config(of).matrix /\ load_config(of).matrix[key] = of[i].matrix[key]
    BY <2>1, <2>2, LaterFileWins
  <2>6. \E c \in Planned(of, n) : ran_with(c, key, v)
    BY <2>1, <2>2, <2>3, <2>5, SweepRunsAll DEF Planned, RunnerOf
  <2> QED  BY <2>4, <2>6
<1> QED  BY <1>1, PlanInvariant, PTL

------------------------------------------------------------------------------
(***************************************************************************)
(* SweepState.                                                             *)
(*                                                                         *)
(* SkippedIsFinished is not inductive: it needs that "complete" in a       *)
(* status.json is only written over the files of a finished attempt, that  *)
(* the old verdict is gone before the old rows are, and that a resumed     *)
(* sweep never starts a child in a directory it would skip.                *)
(***************************************************************************)

Working == ChildSteps \ {"starting"}

Intact(d) == Finished(d) \/ dirs[d].cut

(***************************************************************************)
(* The files: what a verdict stands for, and what each step of an attempt  *)
(* has established.                                                        *)
(***************************************************************************)
FilesInv ==
    /\ \A d \in RunDirs : dirs[d].status = "complete" => Intact(d)
    /\ pc \in Working => dirs[Dir].status = "running"
    /\ pc = "verdict" => dirs[Dir].summary = "fresh"
    /\ pc = "recording" => Finished(Dir)
    /\ pc = "starting" /\ options.resume => ~artifact_complete(Dir)

(***************************************************************************)
(* The records: those before the loop's child are settled, those after it  *)
(* pending; what is skipped is still what it was when it was skipped.      *)
(***************************************************************************)
RecordsInv ==
    /\ pc # "over" =>
          \A i \in Children :
              /\ i < index => records[i].status \in {"complete", "skipped", "failed"}
              /\ i = index => records[i].status = IF pc = "deciding" THEN "pending" ELSE "running"
              /\ i > index => records[i].status = "pending"
              /\ records[i].status = "failed" /\ ~options.continue_on_error =>
                     pc = "deciding" /\ i = index - 1
    /\ \A i \in Children :
          records[i].status = "skipped" => options.resume /\ artifact_complete(RunDirOf[i])

(***************************************************************************)
(* The loop: while nothing has failed, every directory the loop has passed *)
(* is finished, unless the present child has it open again.                *)
(***************************************************************************)
LoopInv ==
    pc # "over" /\ (\A i \in Children : records[i].status # "failed") =>
        \A i \in Children :
            i < index => \/ Intact(RunDirOf[i])
                         \/ pc \notin {"deciding", "recording"} /\ RunDirOf[i] = Dir

(***************************************************************************)
(* The status file: what it says of the child that runs, and that a        *)
(* verdict is only there when the sweep is over.                           *)
(***************************************************************************)
StatusInv ==
    /\ pc \in ChildSteps =>
          status_file = [state |-> "running", records |-> records] /\ records[index].attempts > 0
    /\ status_file.state \in {"complete", "complete_with_failures", "failed"} => pc = "over"
    /\ SweepVerdictSound

SweepInv == TypeOK /\ FilesInv /\ RecordsInv /\ LoopInv /\ StatusInv
------------------------------------------------------------------------------
USE ChildCountAssumption, RunDirAssumption, InvocationsAssumption

(***************************************************************************)
(* The steps of the specification, one by one.                             *)
(***************************************************************************)
LEMMA StepCases ==
    ASSUME Next
    PROVE  \/ \E o \in Options : Invoke(o)
           \/ RejectBudget \/ Skip \/ StartChild
           \/ Initialize \/ OpenRows \/ FinishRows \/ WriteChildSummary \/ Judge
           \/ RecordComplete \/ RecordFailure \/ WriteFinal
           \/ ChildFails \/ RecordingFails \/ ChildInterrupted \/ Killed
BY DEF Next, Progress

(***************************************************************************)
(* The files a step of an attempt leaves are files of a run directory.     *)
(***************************************************************************)
LEMMA ChildType ==
    ASSUME TypeOK, NEW step, NEW next \in ChildSteps \cup SweepSteps \cup {"over"}, step \in ChildSteps,
           NEW files \in Directories, Child(step, next, files)
    PROVE  TypeOK'
BY DEF TypeOK, Child, ChildSteps, SweepSteps, Dir, Children

LEMMA CutType ==
    ASSUME NEW files \in Directories, NEW cut \in CutSummary(files)
    PROVE  cut \in Directories
BY DEF CutSummary, Directories

(***************************************************************************)
(* A child's attempt count in a status file is a number.                   *)
(***************************************************************************)
LEMMA PreviousAttemptsType ==
    ASSUME TypeOK, NEW i \in Children
    PROVE  previous_attempts(i) \in Nat
<1>. DEFINE last(j) == /\ IdOf[j] = IdOf[i]
                       /\ \A k \in j + 1 .. Len(status_file.records) : IdOf[k] # IdOf[i]
<1>1. CASE \E j \in 1 .. Len(status_file.records) : last(j)
  <2>. DEFINE n == CHOOSE j \in 1 .. Len(status_file.records) : last(j)
  <2>1. n \in 1 .. Len(status_file.records)
    BY <1>1
  <2>2. status_file.records[n] \in Records
    <3>. HIDE DEF n, last
    <3>. QED  BY <2>1 DEF TypeOK
  <2>3. status_file.records[n].attempts \in Nat
    BY <2>2 DEF Records
  <2>. QED  BY <1>1, <2>3 DEF previous_attempts
<1>2. CASE ~ \E j \in 1 .. Len(status_file.records) : last(j)
  BY <1>2 DEF previous_attempts
<1>. QED  BY <1>1, <1>2

LEMMA RecordsAreASequence ==
    ASSUME NEW recs \in [Children -> Records]
    PROVE  recs \in Seq(Records)
BY DEF Children

LEMMA TypeStep == TypeOK /\ [Next]_vars => TypeOK'
<1>. SUFFICES ASSUME TypeOK, [Next]_vars PROVE TypeOK'
  OBVIOUS
<1>1. ASSUME NEW o \in Options, Invoke(o) PROVE TypeOK'
  <2>1. records' \in [Children -> Records]
    BY <1>1, PreviousAttemptsType DEF Invoke, Records
  <2>2. records' \in Seq(Records)
    BY <2>1, RecordsAreASequence
  <2>. QED
    BY <1>1, <2>1, <2>2 DEF TypeOK, Invoke, write_status, SweepSteps
<1>2. CASE RejectBudget
  BY <1>2 DEF TypeOK, RejectBudget, Children
<1>3. CASE Skip
  <2>1. index \in Children /\ records' \in [Children -> Records]
    <3>1. index \in Children
      BY <1>3 DEF Skip, TypeOK, LoopOver, Children
    <3>2. [records[index] EXCEPT !.status = "skipped"] \in Records
      BY <3>1 DEF TypeOK, Records
    <3>. QED  BY <1>3, <3>1, <3>2 DEF Skip, TypeOK
  <2>2. records' \in Seq(Records)
    BY <2>1, RecordsAreASequence
  <2>. QED
    BY <1>3, <2>1, <2>2 DEF TypeOK, Skip, write_status, Children, ChildSteps, SweepSteps
<1>4. CASE StartChild
  <2>1. index \in Children /\ records' \in [Children -> Records]
    BY <1>4 DEF StartChild, TypeOK, Records, LoopOver, Children
  <2>2. records' \in Seq(Records)
    BY <2>1, RecordsAreASequence
  <2>. QED
    BY <1>4, <2>1, <2>2 DEF TypeOK, StartChild, write_status, Children, ChildSteps, SweepSteps
<1>. DEFINE here == dirs[Dir]
<1>0. ASSUME pc \in ChildSteps PROVE here \in Directories
  BY <1>0 DEF TypeOK, Dir, Children, ChildSteps
<1>5. CASE Initialize
  <2>1. [here EXCEPT !.status = "running", !.cut = FALSE] \in Directories
    BY <1>0, <1>5 DEF Initialize, Child, ChildSteps, Directories
  <2>. QED  BY <1>5, <2>1, ChildType DEF Initialize, ChildSteps
<1>6. CASE OpenRows
  <2>1. [here EXCEPT !.rows = "partial",
                     !.summary = IF @ = "absent" THEN "absent" ELSE "stale"] \in Directories
    BY <1>0, <1>6 DEF OpenRows, Child, ChildSteps, Directories
  <2>. QED  BY <1>6, <2>1, ChildType DEF OpenRows, ChildSteps
<1>7. CASE FinishRows
  <2>1. PICK rows \in {"full", "errors"} :
            Child("serving", "summarising", [here EXCEPT !.rows = rows])
    BY <1>7 DEF FinishRows
  <2>2. [here EXCEPT !.rows = rows] \in Directories
    BY <1>0, <2>1 DEF Child, ChildSteps, Directories
  <2>. QED  BY <2>1, <2>2, ChildType DEF ChildSteps
<1>8. CASE WriteChildSummary
  <2>1. [here EXCEPT !.summary = "fresh"] \in Directories
    BY <1>0, <1>8 DEF WriteChildSummary, Child, ChildSteps, Directories
  <2>. QED  BY <1>8, <2>1, ChildType DEF WriteChildSummary, ChildSteps, SweepSteps
<1>9. CASE Judge
  <2>1. /\ [here EXCEPT !.status = "complete"] \in Directories
        /\ [here EXCEPT !.status = "failed"] \in Directories
    BY <1>0, <1>9 DEF Judge, ChildSteps, Directories
  <2>. QED  BY <1>9, <2>1, ChildType DEF Judge, ChildSteps, SweepSteps
<1>10. CASE RecordComplete
  BY <1>10 DEF TypeOK, RecordComplete, Records, Children, ChildSteps, SweepSteps
<1>11. CASE RecordFailure
  <2>1. records' \in [Children -> Records]
    BY <1>11 DEF RecordFailure, TypeOK, Records, Children
  <2>2. records' \in Seq(Records)
    BY <2>1, RecordsAreASequence
  <2>. QED
    BY <1>11, <2>1, <2>2 DEF TypeOK, RecordFailure, write_status, Children, SweepSteps
<1>12. CASE WriteFinal
  <2>1. records \in Seq(Records)
    BY RecordsAreASequence DEF TypeOK
  <2>. QED
    BY <1>12, <2>1 DEF TypeOK, WriteFinal, write_status
<1>13. CASE ChildFails
  <2>1. PICK files \in CutSummary(IF pc = "starting" THEN here
                                  ELSE [here EXCEPT !.status = "failed"]) :
            Child(pc, "failing", files)
    BY <1>13 DEF ChildFails
  <2>2. (IF pc = "starting" THEN here ELSE [here EXCEPT !.status = "failed"]) \in Directories
    BY <1>0, <1>13 DEF ChildFails, Directories
  <2>3. files \in Directories
    BY <2>1, <2>2, CutType
  <2>. QED  BY <1>13, <2>1, <2>3, ChildType DEF ChildFails, SweepSteps
<1>14. CASE RecordingFails
  BY <1>14 DEF TypeOK, RecordingFails, SweepSteps, Children
<1>15. CASE ChildInterrupted
  <2>1. PICK files \in CutSummary([here EXCEPT !.status = "complete", !.cut = TRUE]) :
            Child(pc, "over", files)
    BY <1>15 DEF ChildInterrupted
  <2>2. [here EXCEPT !.status = "complete", !.cut = TRUE] \in Directories
    BY <1>0, <1>15 DEF ChildInterrupted, Directories
  <2>3. files \in Directories
    BY <2>1, <2>2, CutType
  <2>. QED  BY <1>15, <2>1, <2>3, ChildType DEF ChildInterrupted
<1>16. CASE Killed
  <2>1. CASE UNCHANGED <<status_file, dirs>>
    BY <1>16, <2>1 DEF TypeOK, Killed, Children
  <2>2. CASE status_file' = [state |-> "torn", records |-> <<>>] /\ UNCHANGED dirs
    BY <1>16, <2>2 DEF TypeOK, Killed, Children
  <2>3. ASSUME pc \in ChildSteps, UNCHANGED status_file,
               NEW files \in CutSummary(here) \cup {[here EXCEPT !.status = "torn"]},
               dirs' = [dirs EXCEPT ![Dir] = files]
        PROVE  TypeOK'
    <3>1. files \in Directories
      <4>1. [here EXCEPT !.status = "torn"] \in Directories
        BY <1>0, <2>3 DEF Directories
      <4>. QED  BY <1>0, <2>3, <4>1, CutType
    <3>. QED  BY <1>16, <2>3, <3>1 DEF TypeOK, Killed, Dir, Children
  <2>. QED  BY <1>16, <2>1, <2>2, <2>3 DEF Killed
<1>17. CASE UNCHANGED vars
  BY <1>17 DEF TypeOK, vars, Children
<1>. QED
  BY <1>1, <1>2, <1>3, <1>4, <1>5, <1>6, <1>7, <1>8, <1>9, <1>10, <1>11, <1>12, <1>13, <1>14,
     <1>15, <1>16, <1>17, StepCases
------------------------------------------------------------------------------
(***************************************************************************)
(* A step of an attempt leaves new files in the child's directory only.    *)
(***************************************************************************)
LEMMA ChildFiles ==
    ASSUME TypeOK, NEW step \in ChildSteps, NEW next, NEW files, Child(step, next, files)
    PROVE  /\ index \in Children /\ Dir \in RunDirs /\ Dir' = Dir
           /\ pc = step /\ pc' = next
           /\ dirs[Dir] \in Directories
           /\ dirs'[Dir] = files
           /\ \A d \in RunDirs : d # Dir => dirs'[d] = dirs[d]
BY DEF TypeOK, Child, ChildSteps, Dir, Children

(***************************************************************************)
(* The files a cut leaves differ in the summary at most.                   *)
(***************************************************************************)
LEMMA CutFiles ==
    ASSUME NEW files \in Directories, NEW cut \in CutSummary(files)
    PROVE  /\ cut.status = files.status /\ cut.rows = files.rows /\ cut.cut = files.cut
           /\ pc # "summarising" => cut = files
BY DEF CutSummary, Directories

LEMMA FilesStep == SweepInv /\ [Next]_vars => FilesInv'
<1>. SUFFICES ASSUME TypeOK, FilesInv, RecordsInv, [Next]_vars PROVE FilesInv'
  BY DEF SweepInv
<1>. USE DEF FilesInv, Intact, Finished
<1>. DEFINE here == dirs[Dir]
<1>1. ASSUME NEW o \in Options, Invoke(o) PROVE FilesInv'
  BY <1>1 DEF Invoke, Working, ChildSteps
<1>2. CASE RejectBudget
  BY <1>2 DEF RejectBudget, Working, ChildSteps
<1>3. CASE Skip
  BY <1>3 DEF Skip, Working, ChildSteps
<1>4. CASE StartChild
  BY <1>4 DEF StartChild, Working, ChildSteps, artifact_complete, Dir
<1>5. CASE Initialize
  <2>1. Child("starting", "prepared", [here EXCEPT !.status = "running", !.cut = FALSE])
    BY <1>5 DEF Initialize
  <2>2. here \in Directories /\ dirs'[Dir] = [here EXCEPT !.status = "running", !.cut = FALSE]
        /\ Dir' = Dir /\ pc' = "prepared" /\ \A d \in RunDirs : d # Dir => dirs'[d] = dirs[d]
    BY <2>1, ChildFiles DEF ChildSteps
  <2>. QED  BY <2>2 DEF Directories, Working, ChildSteps
<1>6. CASE OpenRows
  <2>. DEFINE files == [here EXCEPT !.rows = "partial",
                                    !.summary = IF @ = "absent" THEN "absent" ELSE "stale"]
  <2>1. Child("prepared", "serving", files)
    BY <1>6 DEF OpenRows
  <2>2. here \in Directories /\ dirs'[Dir] = files /\ pc = "prepared"
        /\ Dir' = Dir /\ pc' = "serving" /\ \A d \in RunDirs : d # Dir => dirs'[d] = dirs[d]
    BY <2>1, ChildFiles DEF ChildSteps
  <2>3. files.status = here.status
    BY <2>2 DEF Directories
  <2>. QED  BY <2>2, <2>3 DEF Working, ChildSteps
<1>7. CASE FinishRows
  <2>1. PICK rows \in {"full", "errors"} :
            Child("serving", "summarising", [here EXCEPT !.rows = rows])
    BY <1>7 DEF FinishRows
  <2>2. here \in Directories /\ dirs'[Dir] = [here EXCEPT !.rows = rows] /\ pc = "serving"
        /\ Dir' = Dir /\ pc' = "summarising" /\ \A d \in RunDirs : d # Dir => dirs'[d] = dirs[d]
    BY <2>1, ChildFiles DEF ChildSteps
  <2>. QED  BY <2>2 DEF Directories, Working, ChildSteps
<1>8. CASE WriteChildSummary
  <2>1. Child("summarising", "verdict", [here EXCEPT !.summary = "fresh"])
    BY <1>8 DEF WriteChildSummary
  <2>2. here \in Directories /\ dirs'[Dir] = [here EXCEPT !.summary = "fresh"]
        /\ pc = "summarising"
        /\ Dir' = Dir /\ pc' = "verdict" /\ \A d \in RunDirs : d # Dir => dirs'[d] = dirs[d]
    BY <2>1, ChildFiles DEF ChildSteps
  <2>. QED  BY <2>2 DEF Directories, Working, ChildSteps
<1>9. CASE Judge
  <2>1. CASE /\ here.rows = "full"
             /\ Child("verdict", "recording", [here EXCEPT !.status = "complete"])
    <3>1. here \in Directories /\ dirs'[Dir] = [here EXCEPT !.status = "complete"]
          /\ pc = "verdict"
          /\ Dir' = Dir /\ pc' = "recording" /\ \A d \in RunDirs : d # Dir => dirs'[d] = dirs[d]
      BY <2>1, ChildFiles DEF ChildSteps
    <3>2. Finished(Dir)' /\ dirs'[Dir].status = "complete"
      BY <2>1, <3>1 DEF Directories
    <3>. QED  BY <3>1, <3>2 DEF Working, ChildSteps
  <2>2. CASE Child("verdict", "failing", [here EXCEPT !.status = "failed"])
    <3>1. here \in Directories /\ dirs'[Dir] = [here EXCEPT !.status = "failed"]
          /\ Dir' = Dir /\ pc' = "failing" /\ \A d \in RunDirs : d # Dir => dirs'[d] = dirs[d]
      BY <2>2, ChildFiles DEF ChildSteps
    <3>. QED  BY <3>1 DEF Directories, Working, ChildSteps
  <2>. QED  BY <1>9, <2>1, <2>2 DEF Judge
<1>10. CASE RecordComplete
  BY <1>10 DEF RecordComplete, Working, ChildSteps
<1>11. CASE RecordFailure
  BY <1>11 DEF RecordFailure, Working, ChildSteps
<1>12. CASE WriteFinal
  BY <1>12 DEF WriteFinal, Working, ChildSteps
<1>13. CASE ChildFails
  <2>. DEFINE files == IF pc = "starting" THEN here ELSE [here EXCEPT !.status = "failed"]
  <2>1. PICK cut \in CutSummary(files) : Child(pc, "failing", cut)
    BY <1>13 DEF ChildFails
  <2>2. pc \in ChildSteps /\ here \in Directories /\ dirs'[Dir] = cut
        /\ pc' = "failing" /\ \A d \in RunDirs : d # Dir => dirs'[d] = dirs[d]
    BY <1>13, <2>1, ChildFiles DEF ChildFails
  <2>3. files \in Directories
    BY <2>2 DEF Directories
  <2>4. cut.status = files.status /\ (pc # "summarising" => cut = files)
    BY <2>1, <2>3, CutFiles
  <2>5. CASE pc = "starting"
    BY <2>2, <2>4, <2>5 DEF Working, ChildSteps
  <2>6. CASE pc # "starting"
    <3>1. cut.status = "failed"
      BY <2>2, <2>4, <2>6 DEF Directories
    <3>. QED  BY <2>2, <3>1 DEF Working, ChildSteps
  <2>. QED  BY <2>5, <2>6
<1>14. CASE RecordingFails
  BY <1>14 DEF RecordingFails, Working, ChildSteps
<1>15. CASE ChildInterrupted
  <2>. DEFINE files == [here EXCEPT !.status = "complete", !.cut = TRUE]
  <2>1. PICK cut \in CutSummary(files) : Child(pc, "over", cut)
    BY <1>15 DEF ChildInterrupted
  <2>2. here \in Directories /\ dirs'[Dir] = cut
        /\ pc' = "over" /\ \A d \in RunDirs : d # Dir => dirs'[d] = dirs[d]
    BY <1>15, <2>1, ChildFiles DEF ChildInterrupted
  <2>3. files \in Directories /\ files.cut
    BY <2>2 DEF Directories
  <2>4. cut.cut
    BY <2>1, <2>3, CutFiles
  <2>. QED  BY <2>2, <2>4 DEF Working, ChildSteps
<1>16. CASE Killed
  <2>1. ASSUME pc \in ChildSteps,
               NEW files \in CutSummary(here) \cup {[here EXCEPT !.status = "torn"]},
               dirs' = [dirs EXCEPT ![Dir] = files]
        PROVE  FilesInv'
    <3>1. here \in Directories /\ dirs'[Dir] = files
          /\ \A d \in RunDirs : d # Dir => dirs'[d] = dirs[d]
      BY <2>1 DEF TypeOK, Dir, Children, ChildSteps
    <3>2. pc' = "over"
      BY <1>16 DEF Killed
    <3>3. CASE files = [here EXCEPT !.status = "torn"]
      BY <3>1, <3>2, <3>3 DEF Directories, Working, ChildSteps
    <3>4. CASE files \in CutSummary(here)
      <4>1. /\ files.status = here.status
            /\ pc # "summarising" => files = here
        BY <3>1, <3>4, CutFiles
      <4>2. pc = "summarising" => here.status = "running"
        BY DEF Working, ChildSteps
      <4>. QED  BY <3>1, <3>2, <4>1, <4>2 DEF Working, ChildSteps
    <3>. QED  BY <2>1, <3>3, <3>4
  <2>2. CASE UNCHANGED dirs
    BY <1>16, <2>2 DEF Killed, Working, ChildSteps
  <2>. QED  BY <1>16, <2>1, <2>2 DEF Killed
<1>17. CASE UNCHANGED vars
  BY <1>17 DEF vars, Dir, artifact_complete
<1>. QED
  BY <1>1, <1>2, <1>3, <1>4, <1>5, <1>6, <1>7, <1>8, <1>9, <1>10, <1>11, <1>12, <1>13, <1>14,
     <1>15, <1>16, <1>17, StepCases
------------------------------------------------------------------------------
AfterAttempt == ChildSteps \cup {"recording", "failing", "over"}

(***************************************************************************)
(* What an attempt does, and what a kill in the middle of it leaves, is a  *)
(* step of Child.                                                          *)
(***************************************************************************)
LEMMA AttemptSteps ==
    ASSUME \/ Initialize \/ OpenRows \/ FinishRows \/ WriteChildSummary \/ Judge
           \/ ChildFails \/ ChildInterrupted
    PROVE  \E step \in ChildSteps, next \in AfterAttempt : \E files : Child(step, next, files)
<1>. USE DEF ChildSteps, AfterAttempt
<1>1. CASE Initialize
  BY <1>1 DEF Initialize
<1>2. CASE OpenRows
  BY <1>2 DEF OpenRows
<1>3. CASE FinishRows
  BY <1>3 DEF FinishRows
<1>4. CASE WriteChildSummary
  BY <1>4 DEF WriteChildSummary
<1>5. CASE Judge
  BY <1>5 DEF Judge
<1>6. CASE ChildFails
  BY <1>6 DEF ChildFails
<1>7. CASE ChildInterrupted
  BY <1>7 DEF ChildInterrupted
<1>. QED  BY <1>1, <1>2, <1>3, <1>4, <1>5, <1>6, <1>7

LEMMA KillSteps ==
    ASSUME Killed
    PROVE  \/ UNCHANGED <<options, index, records, dirs, invocations>> /\ pc' = "over" /\ pc # "over"
              /\ status_file'.state \in {status_file.state, "torn"}
           \/ \E step \in ChildSteps : \E files : Child(step, "over", files)
<1>1. CASE UNCHANGED <<status_file, dirs>>
  BY <1>1 DEF Killed
<1>2. CASE status_file' = [state |-> "torn", records |-> <<>>] /\ UNCHANGED dirs
  BY <1>2 DEF Killed
<1>3. CASE /\ pc \in ChildSteps
           /\ \E files : dirs' = [dirs EXCEPT ![Dir] = files]
           /\ UNCHANGED status_file
  BY <1>3 DEF Killed, Child
<1>. QED  BY <1>1, <1>2, <1>3 DEF Killed

(***************************************************************************)
(* A resumed sweep has no directory open that it would skip.               *)
(***************************************************************************)
LEMMA OpenIsIncomplete ==
    ASSUME FilesInv, pc \in ChildSteps, options.resume
    PROVE  ~artifact_complete(Dir)
BY DEF FilesInv, Working, ChildSteps, artifact_complete

LEMMA AttemptRecords ==
    ASSUME TypeOK, FilesInv, RecordsInv,
           NEW step \in ChildSteps, NEW next \in AfterAttempt, NEW files, Child(step, next, files)
    PROVE  RecordsInv'
<1>1. /\ pc = step /\ pc' = next /\ UNCHANGED <<options, index, records>>
      /\ \A d \in RunDirs : d # Dir => dirs'[d] = dirs[d]
  BY ChildFiles DEF Child
<1>2. ASSUME NEW i \in Children, records[i].status = "skipped"
      PROVE  options.resume /\ artifact_complete(RunDirOf[i])'
  <2>1. options.resume /\ artifact_complete(RunDirOf[i])
    BY <1>2 DEF RecordsInv
  <2>2. RunDirOf[i] # Dir /\ RunDirOf[i] \in RunDirs
    BY <1>1, <2>1, OpenIsIncomplete
  <2>. QED  BY <1>1, <2>1, <2>2 DEF artifact_complete
<1>. QED  BY <1>1, <1>2 DEF RecordsInv, ChildSteps, AfterAttempt

LEMMA RecordsStep == SweepInv /\ [Next]_vars => RecordsInv'
<1>. SUFFICES ASSUME TypeOK, FilesInv, RecordsInv, [Next]_vars PROVE RecordsInv'
  BY DEF SweepInv
<1>. USE DEF Children
<1>1. ASSUME NEW o \in Options, Invoke(o) PROVE RecordsInv'
  BY <1>1 DEF Invoke, RecordsInv
<1>2. CASE RejectBudget
  BY <1>2 DEF RejectBudget, RecordsInv, artifact_complete
<1>3. CASE Skip
  <2>1. /\ index \in Children /\ index' = index + 1 /\ pc = "deciding" /\ pc' = "deciding"
        /\ ~Broken
    BY <1>3 DEF Skip, TypeOK, LoopOver
  <2>2. /\ records'[index].status = "skipped"
        /\ \A i \in Children : i # index => records'[i] = records[i]
    BY <1>3, <2>1 DEF Skip, TypeOK, Records
  <2>3. UNCHANGED <<options, dirs>> /\ options.resume /\ artifact_complete(RunDirOf[index])
    BY <1>3 DEF Skip, Dir
  <2>4. ASSUME NEW i \in Children, records'[i].status = "skipped"
        PROVE  options'.resume /\ artifact_complete(RunDirOf[i])'
    BY <2>2, <2>3, <2>4 DEF RecordsInv, artifact_complete
  <2>5. ASSUME NEW i \in Children
        PROVE  /\ i < index + 1 => records'[i].status \in {"complete", "skipped", "failed"}
               /\ i = index + 1 => records'[i].status = "pending"
               /\ i > index + 1 => records'[i].status = "pending"
               /\ records'[i].status # "failed" \/ options'.continue_on_error
    <3>1. CASE i = index
      BY <2>1, <2>2, <3>1
    <3>2. CASE i # index
      BY <2>1, <2>2, <2>3, <3>2 DEF RecordsInv, Broken, TypeOK
    <3>. QED  BY <3>1, <3>2
  <2>. QED  BY <2>1, <2>4, <2>5 DEF RecordsInv
<1>4. CASE StartChild
  <2>1. /\ index \in Children /\ index' = index /\ pc = "deciding" /\ pc' = "starting"
        /\ ~Broken
    BY <1>4 DEF StartChild, TypeOK, LoopOver
  <2>2. /\ records'[index].status = "running"
        /\ \A i \in Children : i # index => records'[i] = records[i]
    BY <1>4, <2>1 DEF StartChild, TypeOK, Records
  <2>3. UNCHANGED <<options, dirs>>
    BY <1>4 DEF StartChild
  <2>. QED  BY <2>1, <2>2, <2>3 DEF RecordsInv, Broken, artifact_complete, TypeOK
<1>5. CASE \/ Initialize \/ OpenRows \/ FinishRows \/ WriteChildSummary \/ Judge
           \/ ChildFails \/ ChildInterrupted
  BY <1>5, AttemptSteps, AttemptRecords
<1>6. CASE RecordComplete
  <2>1. index \in Children /\ index' = index + 1 /\ pc = "recording" /\ pc' = "deciding"
    BY <1>6 DEF RecordComplete, TypeOK
  <2>2. /\ records'[index].status = "complete"
        /\ \A i \in Children : i # index => records'[i] = records[i]
    BY <1>6, <2>1 DEF RecordComplete, TypeOK, Records
  <2>3. UNCHANGED <<options, dirs>>
    BY <1>6 DEF RecordComplete
  <2>. QED  BY <2>1, <2>2, <2>3 DEF RecordsInv, artifact_complete, TypeOK
<1>7. CASE RecordFailure
  <2>1. index \in Children /\ index' = index + 1 /\ pc = "failing" /\ pc' = "deciding"
    BY <1>7 DEF RecordFailure, TypeOK
  <2>2. /\ records'[index].status = "failed"
        /\ \A i \in Children : i # index => records'[i] = records[i]
    BY <1>7, <2>1 DEF RecordFailure, TypeOK, Records
  <2>3. UNCHANGED <<options, dirs>>
    BY <1>7 DEF RecordFailure
  <2>. QED  BY <2>1, <2>2, <2>3 DEF RecordsInv, artifact_complete, TypeOK
<1>8. CASE WriteFinal
  BY <1>8 DEF WriteFinal, RecordsInv, artifact_complete
<1>9. CASE RecordingFails
  BY <1>9 DEF RecordingFails, RecordsInv, artifact_complete
<1>10. CASE Killed
  <2>1. CASE \E step \in ChildSteps : \E files : Child(step, "over", files)
    BY <2>1, AttemptRecords DEF AfterAttempt
  <2>2. CASE UNCHANGED <<options, index, records, dirs, invocations>> /\ pc' = "over"
    BY <2>2 DEF RecordsInv, artifact_complete
  <2>. QED  BY <1>10, <2>1, <2>2, KillSteps
<1>11. CASE UNCHANGED vars
  BY <1>11 DEF vars, RecordsInv, artifact_complete
<1>. QED
  BY <1>1, <1>2, <1>3, <1>4, <1>5, <1>6, <1>7, <1>8, <1>9, <1>10, <1>11, StepCases
------------------------------------------------------------------------------
LEMMA AttemptLoop ==
    ASSUME TypeOK, FilesInv', LoopInv,
           NEW step \in ChildSteps, NEW next \in AfterAttempt, NEW files, Child(step, next, files)
    PROVE  LoopInv'
<1>1. /\ pc = step /\ pc' = next /\ UNCHANGED <<options, index, records>> /\ Dir' = Dir
      /\ \A d \in RunDirs : d # Dir => dirs'[d] = dirs[d]
  BY ChildFiles DEF Child
<1>2. SUFFICES ASSUME pc' # "over", \A i \in Children : records[i].status # "failed",
                      NEW i \in Children, i < index
               PROVE  \/ Intact(RunDirOf[i])'
                      \/ pc' \notin {"deciding", "recording"} /\ RunDirOf[i] = Dir'
  BY <1>1 DEF LoopInv
<1>3. CASE RunDirOf[i] = Dir
  BY <1>1, <1>3 DEF FilesInv, Intact, AfterAttempt, ChildSteps
<1>4. CASE RunDirOf[i] # Dir
  <2>1. Intact(RunDirOf[i]) /\ RunDirOf[i] \in RunDirs
    BY <1>1, <1>2, <1>4 DEF LoopInv, ChildSteps
  <2>. QED  BY <1>1, <1>4, <2>1 DEF Intact, Finished
<1>. QED  BY <1>3, <1>4

LEMMA LoopStep == SweepInv /\ [Next]_vars => LoopInv'
<1>. SUFFICES ASSUME SweepInv, [Next]_vars PROVE LoopInv'
  OBVIOUS
<1>. USE DEF SweepInv, Children
<1>0. FilesInv'
  BY FilesStep
<1>1. ASSUME NEW o \in Options, Invoke(o) PROVE LoopInv'
  BY <1>1 DEF Invoke, LoopInv
<1>2. CASE RejectBudget
  BY <1>2 DEF RejectBudget, LoopInv, Intact, Finished, Dir
<1>3. CASE Skip
  <2>1. /\ index \in Children /\ index' = index + 1 /\ pc = "deciding" /\ UNCHANGED dirs
        /\ artifact_complete(Dir) /\ RunDirOf[index] \in RunDirs
    BY <1>3 DEF Skip, TypeOK, LoopOver
  <2>2. \A i \in Children : i # index => records'[i] = records[i]
    BY <1>3, <2>1 DEF Skip, TypeOK, Records
  <2>3. records[index].status = "pending"
    BY <2>1 DEF RecordsInv
  <2>4. Intact(RunDirOf[index])
    BY <2>1 DEF FilesInv, artifact_complete, Dir
  <2>5. ASSUME \A i \in Children : records'[i].status # "failed",
               NEW i \in Children, i < index + 1
        PROVE  Intact(RunDirOf[i])
    <3>1. \A j \in Children : records[j].status # "failed"
      BY <2>2, <2>3, <2>5
    <3>2. CASE i = index
      BY <2>4, <3>2
    <3>3. CASE i < index
      BY <2>1, <3>1, <3>3 DEF LoopInv
    <3>. QED  BY <2>1, <2>5, <3>2, <3>3
  <2>. QED  BY <2>1, <2>5 DEF LoopInv, Intact, Finished
<1>4. CASE StartChild
  <2>1. /\ index \in Children /\ index' = index /\ pc = "deciding" /\ UNCHANGED dirs
    BY <1>4 DEF StartChild, TypeOK, LoopOver
  <2>2. \A i \in Children : i # index => records'[i] = records[i]
    BY <1>4, <2>1 DEF StartChild, TypeOK, Records
  <2>3. records[index].status = "pending"
    BY <2>1 DEF RecordsInv
  <2>. QED  BY <2>1, <2>2, <2>3 DEF LoopInv, Intact, Finished
<1>5. CASE \/ Initialize \/ OpenRows \/ FinishRows \/ WriteChildSummary \/ Judge
           \/ ChildFails \/ ChildInterrupted
  BY <1>0, <1>5, AttemptSteps, AttemptLoop
<1>6. CASE RecordComplete
  <2>1. index \in Children /\ index' = index + 1 /\ pc = "recording" /\ UNCHANGED dirs
    BY <1>6 DEF RecordComplete, TypeOK
  <2>2. \A i \in Children : i # index => records'[i] = records[i]
    BY <1>6, <2>1 DEF RecordComplete, TypeOK, Records
  <2>3. records[index].status = "running" /\ Intact(RunDirOf[index])
    BY <2>1 DEF RecordsInv, FilesInv, Intact, Dir
  <2>4. ASSUME \A i \in Children : records'[i].status # "failed",
               NEW i \in Children, i < index + 1
        PROVE  Intact(RunDirOf[i])
    <3>1. \A j \in Children : records[j].status # "failed"
      BY <2>2, <2>3, <2>4
    <3>2. CASE i = index
      BY <2>3, <3>2
    <3>3. CASE i < index
      BY <2>1, <3>1, <3>3 DEF LoopInv
    <3>. QED  BY <2>1, <2>4, <3>2, <3>3
  <2>. QED  BY <2>1, <2>4 DEF LoopInv, Intact, Finished
<1>7. CASE RecordFailure
  <2>1. index \in Children
    BY <1>7 DEF RecordFailure, TypeOK
  <2>2. records'[index].status = "failed"
    BY <1>7, <2>1 DEF RecordFailure, TypeOK, Records
  <2>. QED  BY <2>1, <2>2 DEF LoopInv
<1>8. CASE WriteFinal
  BY <1>8 DEF WriteFinal, LoopInv
<1>9. CASE RecordingFails
  BY <1>9 DEF RecordingFails, LoopInv, Intact, Finished
<1>10. CASE Killed
  BY <1>10 DEF Killed, LoopInv
<1>11. CASE UNCHANGED vars
  BY <1>11 DEF vars, LoopInv, Intact, Finished, Dir
<1>. QED
  BY <1>1, <1>2, <1>3, <1>4, <1>5, <1>6, <1>7, <1>8, <1>9, <1>10, <1>11, StepCases
------------------------------------------------------------------------------
Verdicts == {"complete", "complete_with_failures", "failed"}

LEMMA StatusStep == SweepInv /\ [Next]_vars => StatusInv'
<1>. SUFFICES ASSUME SweepInv, [Next]_vars PROVE StatusInv'
  OBVIOUS
<1>. USE DEF SweepInv, Children
<1>0. ASSUME pc' \notin ChildSteps, status_file'.state \notin Verdicts
      PROVE  StatusInv'
  BY <1>0 DEF StatusInv, SweepVerdictSound, Verdicts
<1>1. ASSUME NEW o \in Options, Invoke(o) PROVE StatusInv'
  BY <1>0, <1>1 DEF Invoke, write_status, Verdicts, ChildSteps
<1>2. CASE RejectBudget
  BY <1>2 DEF RejectBudget, StatusInv, SweepVerdictSound, Finished, ChildSteps
<1>3. CASE Skip
  BY <1>0, <1>3 DEF Skip, write_status, Verdicts, ChildSteps
<1>4. CASE StartChild
  <2>1. index \in Children /\ pc' = "starting" /\ index' = index
        /\ status_file' = [state |-> "running", records |-> records']
    BY <1>4 DEF StartChild, TypeOK, LoopOver, write_status
  <2>2. records'[index].attempts > 0
    <3>1. records'[index].attempts = records[index].attempts + 1
      BY <1>4, <2>1 DEF StartChild, TypeOK
    <3>2. records[index].attempts \in Nat
      BY <2>1 DEF TypeOK, Records
    <3>. QED  BY <3>1, <3>2
  <2>. QED  BY <2>1, <2>2 DEF StatusInv, SweepVerdictSound
<1>5. CASE \/ Initialize \/ OpenRows \/ FinishRows \/ WriteChildSummary \/ Judge
           \/ ChildFails \/ ChildInterrupted
  <2>1. PICK step \in ChildSteps, next \in AfterAttempt : \E files : Child(step, next, files)
    BY <1>5, AttemptSteps
  <2>2. pc \in ChildSteps /\ UNCHANGED <<index, records, status_file>>
    BY <2>1 DEF Child
  <2>. QED  BY <2>2 DEF StatusInv, SweepVerdictSound
<1>6. CASE RecordComplete
  BY <1>0, <1>6 DEF RecordComplete, StatusInv, Verdicts, ChildSteps
<1>7. CASE RecordFailure
  BY <1>0, <1>7 DEF RecordFailure, write_status, Verdicts, ChildSteps
<1>8. CASE WriteFinal
  <2>1. /\ pc = "deciding" /\ pc' = "over" /\ LoopOver /\ UNCHANGED <<options, index, records, dirs>>
        /\ status_file'.records = records
    BY <1>8 DEF WriteFinal, write_status
  <2>2. CASE Broken
    <3>1. status_file'.state = "failed"
      BY <1>8, <2>2 DEF WriteFinal, write_status
    <3>2. PICK i \in Children : records[i].status = "failed"
      BY <2>2 DEF Broken
    <3>3. i = index - 1 /\ \A j \in Children : records[j].status = "failed" => j = i
      BY <2>1, <2>2, <3>2 DEF Broken, RecordsInv, TypeOK
    <3>4. \A j \in Children : j < i => records[j].status \in {"complete", "skipped"}
      BY <2>1, <3>3 DEF RecordsInv, TypeOK
    <3>5. \A j \in Children : j > i => records[j].status = "pending"
      BY <2>1, <3>3 DEF RecordsInv, TypeOK
    <3>. QED
      BY <2>1, <3>1, <3>2, <3>4, <3>5 DEF StatusInv, SweepVerdictSound, ChildSteps
  <2>3. CASE ~Broken /\ \E i \in Children : records[i].status = "failed"
    <3>1. status_file'.state = "complete_with_failures"
      BY <1>8, <2>3 DEF WriteFinal, write_status
    <3>2. \A i \in Children : records[i].status \in {"complete", "skipped", "failed"}
      BY <2>1, <2>3 DEF LoopOver, RecordsInv, TypeOK
    <3>. QED  BY <2>1, <2>3, <3>1, <3>2 DEF StatusInv, SweepVerdictSound, ChildSteps
  <2>4. CASE \A i \in Children : records[i].status # "failed"
    <3>1. ~Broken /\ index > ChildCount
      BY <2>1, <2>4 DEF Broken, LoopOver
    <3>2. status_file'.state = "complete"
      BY <1>8, <2>4, <3>1 DEF WriteFinal, write_status
    <3>3. \A i \in Children : Intact(RunDirOf[i])
      BY <2>1, <2>4, <3>1 DEF LoopInv, TypeOK
    <3>. QED  BY <2>1, <3>2, <3>3 DEF StatusInv, SweepVerdictSound, Intact, Finished, ChildSteps
  <2>. QED  BY <2>2, <2>3, <2>4 DEF Broken
<1>9. CASE RecordingFails
  BY <1>0, <1>9 DEF RecordingFails, StatusInv, Verdicts, ChildSteps
<1>10. CASE Killed
  <2>1. CASE \E step \in ChildSteps : \E files : Child(step, "over", files)
    BY <1>0, <2>1 DEF Child, StatusInv, Verdicts, ChildSteps
  <2>2. CASE pc' = "over" /\ pc # "over" /\ status_file'.state \in {status_file.state, "torn"}
    BY <1>0, <2>2 DEF StatusInv, Verdicts, ChildSteps
  <2>. QED  BY <1>10, <2>1, <2>2, KillSteps
<1>11. CASE UNCHANGED vars
  BY <1>11 DEF vars, StatusInv, SweepVerdictSound, Finished
<1>. QED
  BY <1>1, <1>2, <1>3, <1>4, <1>5, <1>6, <1>7, <1>8, <1>9, <1>10, <1>11, StepCases
------------------------------------------------------------------------------
LEMMA SweepInvInit == Init => SweepInv
<1>. SUFFICES ASSUME Init PROVE SweepInv
  OBVIOUS
<1>1. TypeOK
  BY DEF Init, TypeOK, Options, Records, Directories, Children, ChildSteps, SweepSteps
<1>2. FilesInv /\ RecordsInv /\ LoopInv
  BY DEF Init, FilesInv, RecordsInv, LoopInv, Working, ChildSteps
<1>3. StatusInv
  BY DEF Init, StatusInv, SweepVerdictSound, ChildSteps
<1>. QED  BY <1>1, <1>2, <1>3 DEF SweepInv

LEMMA SweepInvStep == SweepInv /\ [Next]_vars => SweepInv'
BY TypeStep, FilesStep, RecordsStep, LoopStep, StatusStep DEF SweepInv

LEMMA SweepInvAlways == Spec => []SweepInv
<1>1. Init => SweepInv
  BY SweepInvInit
<1>2. SweepInv /\ [Next]_vars => SweepInv'
  BY SweepInvStep
<1>. QED  BY <1>1, <1>2, PTL DEF Spec

(***************************************************************************)
(* The sweep's state keeps its type: the loop never runs past its plan and *)
(* no attempt count is lost to a bad status file.                          *)
(***************************************************************************)
THEOREM TypeCorrect == Spec => []TypeOK
<1>1. SweepInv => TypeOK
  BY DEF SweepInv
<1>. QED  BY <1>1, SweepInvAlways, PTL

(***************************************************************************)
(* A child that --resume skipped has finished, or its last attempt was     *)
(* interrupted.                                                            *)
(***************************************************************************)
THEOREM SkippedHasFinished == Spec => []SkippedIsFinished
<1>1. SweepInv => SkippedIsFinished
  BY DEF SweepInv, RecordsInv, FilesInv, Intact, artifact_complete, SkippedIsFinished
<1>. QED  BY <1>1, SweepInvAlways, PTL

(***************************************************************************)
(* The final status says what became of the children.                      *)
(***************************************************************************)
THEOREM SweepVerdictIsSound == Spec => []SweepVerdictSound
<1>1. SweepInv => SweepVerdictSound
  BY DEF SweepInv, StatusInv
<1>. QED  BY <1>1, SweepInvAlways, PTL

(***************************************************************************)
(* The attempt that runs is on disk, and it is the only one there.         *)
(***************************************************************************)
THEOREM RunningAttemptIsOnRecord == Spec => []AttemptIsOnRecord
<1>1. SweepInv => AttemptIsOnRecord
  <2>. SUFFICES ASSUME SweepInv, pc \in ChildSteps
                PROVE  /\ status_file = [state |-> "running", records |-> records]
                       /\ records[index].attempts > 0
                       /\ \A i \in Children : records[i].status = "running" <=> i = index
    BY DEF AttemptIsOnRecord
  <2>1. status_file = [state |-> "running", records |-> records] /\ records[index].attempts > 0
    BY DEF SweepInv, StatusInv
  <2>2. ASSUME NEW i \in Children PROVE records[i].status = "running" <=> i = index
    BY DEF SweepInv, TypeOK, RecordsInv, ChildSteps, Children
  <2>. QED  BY <2>1, <2>2
<1>. QED  BY <1>1, SweepInvAlways, PTL

(***************************************************************************)
(* A resumed sweep leaves a finished run alone.                            *)
(***************************************************************************)
THEOREM FinishedRunIsKept == Spec => FinishedIsKept
<1>. DEFINE Kept == \A d \in RunDirs :
        options.resume /\ Finished(d) /\ dirs[d].status = "complete" => dirs'[d] = dirs[d]
<1>1. SweepInv /\ [Next]_vars => [Kept]_vars
  <2>. SUFFICES ASSUME SweepInv, [Next]_vars,
                       NEW d \in RunDirs, options.resume, Finished(d), dirs[d].status = "complete"
                PROVE  dirs'[d] = dirs[d]
    OBVIOUS
  <2>0. artifact_complete(d) /\ TypeOK /\ FilesInv
    BY DEF artifact_complete, Finished, SweepInv
  <2>1. CASE \E step \in ChildSteps : \E next, files : Child(step, next, files)
    BY <2>0, <2>1, ChildFiles, OpenIsIncomplete
  <2>2. CASE UNCHANGED dirs
    BY <2>2
  <2>3. (\E o \in Options : Invoke(o)) \/ RejectBudget \/ Skip \/ StartChild
        \/ RecordComplete \/ RecordFailure \/ WriteFinal \/ RecordingFails \/ UNCHANGED vars
        => UNCHANGED dirs
    BY DEF Invoke, RejectBudget, Skip, StartChild, RecordComplete, RecordFailure, WriteFinal,
           RecordingFails, vars
  <2>. QED  BY <2>1, <2>2, <2>3, StepCases, AttemptSteps, KillSteps
<1>. QED  BY <1>1, SweepInvAlways, PTL DEF Spec, FinishedIsKept
------------------------------------------------------------------------------
(***************************************************************************)
(* What the status file on disk says of attempts: a record for every child *)
(* if it can be read, and while a sweep runs the count in memory.          *)
(***************************************************************************)
CountInv ==
    /\ status_file.records # <<>> => status_file.records \in [Children -> Records]
    /\ pc # "over" =>
          /\ status_file.records \in [Children -> Records]
          /\ \A i \in Children : status_file.records[i].attempts = records[i].attempts

Counted(i) == \A j \in Children : j > i => IdOf[j] # IdOf[i]

CountsOn ==
    options'.resume /\ status_file.records # <<>> /\ status_file'.records # <<>> =>
        \A i \in Children :
            Counted(i) =>
                /\ status_file'.records[i].attempts >= status_file.records[i].attempts
                /\ pc # "starting" /\ pc' = "starting" /\ i = index =>
                      status_file'.records[i].attempts > status_file.records[i].attempts

(***************************************************************************)
(* Of the last child with an id, the attempts carried over are its own.    *)
(***************************************************************************)
LEMMA OwnAttempts ==
    ASSUME status_file.records \in [Children -> Records], NEW i \in Children, Counted(i)
    PROVE  previous_attempts(i) = status_file.records[i].attempts
<1>. DEFINE old == status_file.records
            last(j) == IdOf[j] = IdOf[i] /\ \A k \in j + 1 .. Len(old) : IdOf[k] # IdOf[i]
<1>1. Len(old) = ChildCount
  BY DEF Children
<1>2. i \in 1 .. Len(old) /\ last(i)
  BY <1>1 DEF Counted, Children
<1>3. ASSUME NEW j \in 1 .. Len(old), last(j) PROVE j = i
  BY <1>1, <1>2, <1>3 DEF Counted, Children
<1>4. (CHOOSE j \in 1 .. Len(old) : last(j)) = i
  <2>. HIDE DEF last, old
  <2>. QED  BY <1>2, <1>3
<1>. QED  BY <1>2, <1>4 DEF previous_attempts

LEMMA CountStep ==
    ASSUME SweepInv, CountInv, [Next]_vars
    PROVE  CountInv' /\ (CountsOn \/ UNCHANGED vars)
<1>. USE DEF SweepInv, CountInv, CountsOn
<1>0. TypeOK /\ TypeOK'
  BY TypeStep
<1>. DEFINE attempts(i) == status_file.records[i].attempts
<1>1. ASSUME NEW o \in Options, Invoke(o) PROVE CountInv' /\ CountsOn
  <2>1. /\ options' = o /\ pc = "over" /\ pc' # "starting"
        /\ records' \in [Children -> Records] /\ status_file'.records = records'
        /\ o.resume => \A i \in Children : records'[i].attempts = previous_attempts(i)
    BY <1>0, <1>1 DEF Invoke, write_status, TypeOK
  <2>2. ASSUME o.resume, status_file.records # <<>>, NEW i \in Children, Counted(i)
        PROVE  status_file'.records[i].attempts = attempts(i) /\ attempts(i) \in Nat
    BY <2>1, <2>2, OwnAttempts DEF Records
  <2>. QED  BY <2>1, <2>2
<1>2. ASSUME UNCHANGED <<records, status_file>>,
             pc = "over" => pc' = "over", pc' # "starting" \/ pc = "starting"
      PROVE  CountInv' /\ CountsOn
  BY <1>0, <1>2 DEF TypeOK, Records
<1>3. ASSUME status_file'.records = records', pc # "over", index \in Children,
             \A i \in Children : i # index => records'[i] = records[i],
             records'[index].attempts >= records[index].attempts,
             pc' = "starting" => records'[index].attempts > records[index].attempts
      PROVE  CountInv' /\ CountsOn
  BY <1>0, <1>3 DEF TypeOK, Records
<1>4. CASE RejectBudget
  BY <1>2, <1>4 DEF RejectBudget
<1>5. CASE Skip
  <2>1. index \in Children
    BY <1>0, <1>5 DEF Skip, TypeOK, LoopOver, Children
  <2>2. records'[index].attempts = records[index].attempts
    BY <1>0, <1>5, <2>1 DEF Skip, TypeOK, Records
  <2>3. records[index].attempts \in Nat
    BY <1>0, <2>1 DEF TypeOK, Records
  <2>. QED  BY <1>0, <1>3, <1>5, <2>1, <2>2, <2>3 DEF Skip, write_status, TypeOK
<1>6. CASE StartChild
  <2>1. index \in Children
    BY <1>0, <1>6 DEF StartChild, TypeOK, LoopOver, Children
  <2>2. records'[index].attempts = records[index].attempts + 1
    BY <1>0, <1>6, <2>1 DEF StartChild, TypeOK
  <2>3. records[index].attempts \in Nat
    BY <1>0, <2>1 DEF TypeOK, Records
  <2>. QED  BY <1>0, <1>3, <1>6, <2>1, <2>2, <2>3 DEF StartChild, write_status, TypeOK
<1>7. CASE \/ Initialize \/ OpenRows \/ FinishRows \/ WriteChildSummary \/ Judge
           \/ ChildFails \/ ChildInterrupted
  <2>1. PICK step \in ChildSteps, next \in AfterAttempt : \E files : Child(step, next, files)
    BY <1>7, AttemptSteps
  <2>2. pc \in ChildSteps /\ UNCHANGED <<records, status_file>>
    BY <2>1 DEF Child
  <2>3. pc' # "starting" \/ pc = "starting"
    BY <1>7 DEF Initialize, OpenRows, FinishRows, WriteChildSummary, Judge, ChildFails,
                ChildInterrupted, Child
  <2>. QED  BY <1>2, <2>2, <2>3 DEF ChildSteps
<1>8. CASE RecordComplete
  <2>1. index \in Children
    BY <1>0, <1>8 DEF RecordComplete, TypeOK
  <2>2. \A i \in Children : records'[i].attempts = records[i].attempts
    BY <1>0, <1>8, <2>1 DEF RecordComplete, TypeOK, Records
  <2>. QED  BY <1>0, <1>8, <2>2 DEF RecordComplete, TypeOK, Records
<1>9. CASE RecordFailure
  <2>1. index \in Children
    BY <1>0, <1>9 DEF RecordFailure, TypeOK
  <2>2. records'[index].attempts = records[index].attempts
    BY <1>0, <1>9, <2>1 DEF RecordFailure, TypeOK, Records
  <2>3. records[index].attempts \in Nat
    BY <1>0, <2>1 DEF TypeOK, Records
  <2>. QED  BY <1>0, <1>3, <1>9, <2>1, <2>2, <2>3 DEF RecordFailure, write_status, TypeOK
<1>10. CASE WriteFinal
  <2>1. /\ pc = "deciding" /\ pc' = "over" /\ UNCHANGED records /\ status_file'.records = records
    BY <1>10 DEF WriteFinal, write_status
  <2>. QED  BY <1>0, <2>1 DEF TypeOK, Records
<1>11. CASE RecordingFails
  BY <1>2, <1>11 DEF RecordingFails
<1>12. CASE Killed
  <2>1. /\ pc' = "over" /\ UNCHANGED records
        /\ UNCHANGED status_file \/ status_file'.records = <<>>
    BY <1>12 DEF Killed
  <2>. QED  BY <1>2, <2>1
<1>13. CASE UNCHANGED vars
  BY <1>13 DEF vars
<1>. QED
  BY <1>1, <1>4, <1>5, <1>6, <1>7, <1>8, <1>9, <1>10, <1>11, <1>12, <1>13, StepCases

(***************************************************************************)
(* A resumed sweep counts the attempts of a child on.                      *)
(***************************************************************************)
THEOREM AttemptsAreCountedOn == Spec => AttemptsCountOn
<1>1. Init => CountInv
  BY DEF Init, CountInv
<1>2. SweepInv /\ CountInv /\ [Next]_vars => CountInv'
  BY CountStep
<1>3. SweepInv /\ CountInv /\ [Next]_vars => [CountsOn]_vars
  BY CountStep
<1>4. Spec => [][CountsOn]_vars
  BY <1>1, <1>2, <1>3, SweepInvAlways, PTL DEF Spec
<1>5. [CountsOn]_vars =>
        [options'.resume /\ status_file.records # <<>> /\ status_file'.records # <<>> =>
          \A i \in Children :
              (\A j \in Children : j > i => IdOf[j] # IdOf[i]) =>
                  /\ status_file'.records[i].attempts >= status_file.records[i].attempts
                  /\ pc # "starting" /\ pc' = "starting" /\ i = index =>
                        status_file'.records[i].attempts > status_file.records[i].attempts]_vars
  BY DEF CountsOn, Counted
<1>. QED  BY <1>4, <1>5, PTL DEF AttemptsCountOn
=============================================================================
