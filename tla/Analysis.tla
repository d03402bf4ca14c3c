-------------------------------- MODULE Analysis --------------------------------
(***************************************************************************)
(* What the analysis makes of a directory of runs while attempts come and  *)
(* go.  The runners write config_resolved.yaml, manifest.json, status.json *)
(* and summary.json into a run's directory, a sweep adds the dimensions of *)
(* a child to its manifest afterwards (modules ConcurrentRun,              *)
(* SequentialRun and SweepState model those steps one by one); the         *)
(* analysis reads whatever is there: load_summaries every summary.json,    *)
(* the bundle the files themselves.                                        *)
(*                                                                         *)
(* An operator named X_Fault is X with a fault a programmer could make; no *)
(* specification uses it.                                                  *)
(***************************************************************************)
EXTENDS AnalysisTables

CONSTANTS
    Suites,         \* each a function from run names to what the run is
    Metrics,        \* [qag, quality, ttft] records a summary may hold
    None            \* no file, no run, no bundle yet

CONSTANT Torn       \* a summary.json whose writer was killed

CONSTANT MaxBundledRuns     \* bound: larger suites are not bundled

ASSUME MaxBundledAssumption == MaxBundledRuns \in Nat

ASSUME SuitesAssumption ==
    /\ \A suite \in Suites : IsFiniteSet(DOMAIN suite) /\ None \notin DOMAIN suite
    /\ Metrics \intersect {None, Torn} = {} /\ None # Torn
    /\ None \notin {"running", "complete", "failed"}

\* A dimension named cache_condition is the condition the run was configured with.
ASSUME ConditionAssumption ==
    \A suite \in Suites : \A n \in DOMAIN suite :
        "cache_condition" \in DOMAIN suite[n].sweep =>
            suite[n].sweep.cache_condition = suite[n].condition

ASSUME MetricsAssumption ==
    \A m \in Metrics : m.qag \in Nat /\ m.quality \in Nat /\ m.ttft \in Nat

VARIABLES
    runs,           \* the suite: what each run directory is for
    dirs,           \* the files of each run directory
    active,         \* the run an invocation works on, and how far it got
    bundle          \* the last evidence bundle

vars == <<runs, dirs, active, bundle>>

Names == DOMAIN runs

\* responses: requests.jsonl holds the row of a request that was answered.
Absent == [config |-> FALSE, manifest |-> None, status |-> None, responses |-> FALSE,
           summary |-> None]

\* A directory from before manifests were written: only its summary is there.
Legacy(m) == [Absent EXCEPT !.summary = m]

NoDimensions == <<>>

Idle == [run |-> None, step |-> "idle"]

Init ==
    /\ runs \in Suites
    /\ dirs \in [DOMAIN runs -> {Absent} \cup {Legacy(m) : m \in Metrics}]
    /\ \A n \in DOMAIN runs : ~runs[n].legacy => dirs[n] = Absent
    /\ active = Idle
    /\ bundle = None
------------------------------------------------------------------------------
\* Keeps the dimensions that an earlier attempt has in the manifest.
initialize_KeepsDimensions(n) ==
    dirs' = [dirs EXCEPT ![n].config = TRUE, ![n].status = "running",
                         ![n].manifest = IF @ = None THEN NoDimensions ELSE @]

\* RunState.initialize overwrites all but the summary.
initialize(n) ==
    dirs' = [dirs EXCEPT ![n].config = TRUE, ![n].status = "running",
                         ![n].manifest = NoDimensions]

Begin(n) ==
    /\ active = Idle
    /\ ~runs[n].legacy
    /\ initialize(n)
    /\ active' = [run |-> n, step |-> "initialized"]
    /\ UNCHANGED <<runs, bundle>>

Attempting(n) == active.run = n /\ dirs[n].status = "running"

\* requests.jsonl is opened with "w" and gets a row per request, answered or not.
StreamRows(n) ==
    /\ Attempting(n) /\ active.step \in {"initialized", "streaming"}
    /\ \E answered \in BOOLEAN :
          dirs' = [dirs EXCEPT ![n].responses =
                      answered \/ (@ /\ active.step = "streaming")]
    /\ active' = [active EXCEPT !.step = "streaming"]
    /\ UNCHANGED <<runs, bundle>>

\* open("w") and json.dump; the file is torn in between.
OpenSummary(n) ==
    /\ Attempting(n) /\ active.step = "streaming" /\ dirs[n].summary # Torn
    /\ dirs' = [dirs EXCEPT ![n].summary = Torn]
    /\ UNCHANGED <<runs, active, bundle>>

DumpSummary(n) ==
    /\ Attempting(n) /\ active.step = "streaming" /\ dirs[n].summary = Torn
    /\ \E m \in Metrics : dirs' = [dirs EXCEPT ![n].summary = m]
    /\ active' = [active EXCEPT !.step = "summarised"]
    /\ UNCHANGED <<runs, bundle>>

(***************************************************************************)
(* The verdict: complete when every request was answered and the summary   *)
(* is there; failed by an error anywhere, a concurrent run with failed     *)
(* requests having written its summary.                                    *)
(***************************************************************************)
EndAttempt(n) ==
    /\ Attempting(n)
    /\ \E status \in {"failed"} \cup {s \in {"complete"} : active.step = "summarised" /\ dirs[n].responses} :
          dirs' = [dirs EXCEPT ![n].status = status]
    /\ UNCHANGED <<runs, active, bundle>>

(***************************************************************************)
(* The sweep records the dimensions of a child that returned or raised; a  *)
(* single run has none.                                                    *)
(***************************************************************************)
RecordDimensions(n) ==
    /\ active.run = n /\ dirs[n].status # "running"
    /\ dirs' = [dirs EXCEPT ![n].manifest = runs[n].sweep]
    /\ active' = Idle
    /\ UNCHANGED <<runs, bundle>>

(***************************************************************************)
(* Ctrl-C ends the attempt and the sweep: no Exception, so the status says *)
(* complete and no dimensions are recorded.                                *)
(***************************************************************************)
Interrupt(n) ==
    /\ Attempting(n)
    /\ dirs' = [dirs EXCEPT ![n].status = "complete"]
    /\ active' = Idle
    /\ UNCHANGED <<runs, bundle>>

Kill ==
    /\ active # Idle
    /\ active' = Idle
    /\ UNCHANGED <<runs, dirs, bundle>>
------------------------------------------------------------------------------
\* Path.glob("*/summary.json"), whatever the status says.
Summarised == {n \in Names : dirs[n].summary # None}

Answered == {n \in Names : dirs[n].responses}

(***************************************************************************)
(* generate_report: json.load fails on half a summary, and the tables made *)
(* from request rows have no run_id to group by when no run with rows has  *)
(* a summary.                                                              *)
(***************************************************************************)
report_raises ==
    \/ \E n \in Summarised : dirs[n].summary = Torn
    \/ Answered # {} /\ Answered \cap Summarised = {}

\* load_request_rows and what groups them: a run without a summary has no name.
runs_in_request_tables == Answered \cap Summarised

(***************************************************************************)
(* load_summaries: the summary, and the dimensions in the manifest if      *)
(* there is one.  A legacy summary counts as warm.                         *)
(***************************************************************************)
summary_row(n) ==
    [run_id |-> n, workload |-> runs[n].workload, router |-> runs[n].router,
     cache |-> runs[n].cache, alias |-> runs[n].alias,
     condition |-> IF runs[n].legacy THEN "warm" ELSE runs[n].condition,
     seed |-> runs[n].seed, stamp |-> runs[n].stamp,
     sweep |-> IF dirs[n].manifest = None THEN NoDimensions ELSE dirs[n].manifest,
     qag |-> dirs[n].summary.qag, quality |-> dirs[n].summary.quality,
     ttft |-> dirs[n].summary.ttft]

load_summaries == {summary_row(n) : n \in Summarised}

(***************************************************************************)
(* The item multi_model_comparison of the readiness check: two model       *)
(* aliases among the runs of the model-family sweep, as their manifests    *)
(* have them.  Which adapter names a run was served is not looked at.      *)
(***************************************************************************)
observed_model_family_aliases ==
    {r.sweep.model_alias : r \in {s \in load_summaries : runs[s.run_id].family
                                                     /\ "model_alias" \in DOMAIN s.sweep}}

multi_model_ok == ~report_raises /\ Cardinality(observed_model_family_aliases) >= 2
------------------------------------------------------------------------------
\* Does not ask for the summary.
missing_required_NoSummary(n) ==
    {f \in {"config_resolved.yaml", "manifest.json", "status.json"} :
        \/ f = "config_resolved.yaml" /\ ~dirs[n].config
        \/ f = "manifest.json" /\ dirs[n].manifest = None
        \/ f = "status.json" /\ dirs[n].status = None}

\* The CORE_RUN_FILES that are not there.
missing_required(n) ==
    {f \in {"summary.json", "config_resolved.yaml", "manifest.json", "status.json"} :
        \/ f = "summary.json" /\ dirs[n].summary = None
        \/ f = "config_resolved.yaml" /\ ~dirs[n].config
        \/ f = "manifest.json" /\ dirs[n].manifest = None
        \/ f = "status.json" /\ dirs[n].status = None}

(***************************************************************************)
(* build_evidence_bundle over the directories selected, all that exist or  *)
(* some by name or pattern; generated says whether every report, figure    *)
(* and table named is there.  Strict or not, the manifest is written.      *)
(***************************************************************************)
BuildBundle(selected, generated, strict) ==
    LET complete == generated /\ \A n \in selected : missing_required(n) = {}
    IN  /\ selected # {} /\ \A n \in selected : dirs[n] # Absent
        /\ bundle' = [runs |-> selected, complete |-> complete,
                      raised |-> strict /\ ~complete]
        /\ UNCHANGED <<runs, dirs, active>>

Attempt(n) ==
    \/ Begin(n) \/ StreamRows(n) \/ OpenSummary(n) \/ DumpSummary(n)
    \/ EndAttempt(n) \/ RecordDimensions(n) \/ Interrupt(n)

Bundle ==
    /\ Cardinality(Names) <= MaxBundledRuns
    /\ \E n \in Names, generated, strict \in BOOLEAN :
          \/ BuildBundle({m \in Names : dirs[m] # Absent}, generated, strict)
          \/ BuildBundle({n}, generated, strict)

Next == (\E n \in Names : Attempt(n)) \/ Kill \/ Bundle

Spec == Init /\ [][Next]_vars
------------------------------------------------------------------------------
(***************************************************************************)
(* Properties.                                                             *)
(***************************************************************************)
Dominates(q, r) ==
    /\ q.ttft <= r.ttft /\ q.quality >= r.quality
    /\ q.ttft < r.ttft \/ q.quality > r.quality

Point(r) == <<r.workload, r.ttft, r.quality>>

(***************************************************************************)
(* The rows pareto.py keeps are the undominated points of each workload:   *)
(* none that another run beats in quality or latency without being worse   *)
(* in the other, and every other one.                                      *)
(***************************************************************************)
ParetoIsFrontier ==
    ~report_raises =>
        {Point(r) : r \in workload_pareto_frontiers(load_summaries)} =
        {Point(r) : r \in {s \in load_summaries : \A q \in load_summaries :
                              q.workload = s.workload => ~Dominates(q, s)}}

(***************************************************************************)
(* policy_regret.py: every run counts in one row; no row's regret is       *)
(* negative, rank 1 and regret 0 are the same, and the baseline is a       *)
(* policy of the regime.  Regimes compare like with like: runs in one      *)
(* regime share their workload, their cache condition and every dimension  *)
(* that both recorded, except what makes the policy.                       *)
(***************************************************************************)
RegretIsSound ==
    LET df    == load_summaries
        table == build_policy_regret_table(df)
        key(r) == regime_key(r, regime_columns(df))
    IN  ~report_raises =>
            /\ MapThenSumSet(LAMBDA t : t.policy.runs, table) = Cardinality(df)
            /\ \A t \in table :
                  /\ t.regret.num >= 0
                  /\ t.rank = 1 <=> t.regret.num = 0
                  /\ t.baseline.regime = t.policy.regime
                  /\ t.baseline_source = "oracle" => t.oracle_present
            /\ \A r, q \in df : key(r) = key(q) =>
                  /\ r.workload = q.workload /\ r.condition = q.condition
                  /\ \A k \in (DOMAIN r.sweep \cap DOMAIN q.sweep) \ NonRegimeKeys :
                        r.sweep[k] = q.sweep[k]

(***************************************************************************)
(* claim_tables.py: a paired delta rests on the summaries of both          *)
(* strategies with that seed and on nothing else: the rows stay the same   *)
(* without the runs that have no partner.  Each pair was run under the     *)
(* same workload and cache.  The run of a killed or interrupted attempt is *)
(* in no pair, whatever its status and old summary say, because            *)
(* initialize rewrites the manifest without the dimensions.                *)
(***************************************************************************)
DeltasArePaired ==
    LET df    == load_summaries
        partner(r) == IF infer_strategy(r) = "specialists" THEN "multitask" ELSE "specialists"
        paired == {r \in df :
                     /\ "seed" \in DOMAIN r.sweep
                     /\ infer_strategy(r) \in {"specialists", "multitask"}
                     /\ \E q \in df : /\ "seed" \in DOMAIN q.sweep
                                      /\ q.sweep.seed = r.sweep.seed
                                      /\ infer_strategy(q) = partner(r)
                                      /\ paired_key(q) = paired_key(r)}
    IN  ~report_raises =>
            /\ paired_delta_rows(df) = paired_delta_rows(paired)
            /\ \A r \in paired : /\ dirs[r.run_id].status \in {"complete", "failed"}
                                 /\ active.run # r.run_id
                                 /\ r.sweep = runs[r.run_id].sweep
            /\ \A row \in evidence_rows(df) : row.runs > 0
            /\ MapThenSumSet(LAMBDA row : row.runs, evidence_rows(df)) = Cardinality(df)

(***************************************************************************)
(* evidence_bundle.py, research_readiness.py: each run of a complete       *)
(* bundle has been attempted by the present code and has a summary that    *)
(* the tables count, unless it is torn and stops every report; a strict    *)
(* bundle that is not complete says so by its exit.  A sweep child that is *)
(* complete counts in the request tables too.  Two model families are      *)
(* observed only when two sweep children of different models have ended    *)
(* with a summary.                                                         *)
(***************************************************************************)
EvidenceIsBacked ==
    /\ bundle # None =>
          /\ bundle.raised => ~bundle.complete
          /\ bundle.complete =>
                \A n \in bundle.runs :
                    /\ ~runs[n].legacy
                    /\ dirs[n].status # None
                    /\ report_raises \/ \E r \in load_summaries : r.run_id = n
    /\ \A n \in Names : dirs[n].status = "complete" /\ dirs[n].manifest # None =>
          (dirs[n].manifest # NoDimensions => n \in runs_in_request_tables)
    /\ multi_model_ok =>
          \E n, m \in Names : /\ runs[n].sweep.model_alias # runs[m].sweep.model_alias
                              /\ \A x \in {n, m} : /\ dirs[x].summary \in Metrics
                                                   /\ dirs[x].status \in {"complete", "failed"}

(***************************************************************************)
(* docs/benchmark_quality_plan.md: benchmark_v0 is made by                 *)
(* "make benchmark-v0-mock" and then "make benchmark-v0-csv".  When the    *)
(* matrix sweep has ended with every child complete, the CSV finds every   *)
(* combination.  It finds none: the children of a matrix sweep have no     *)
(* timestamp in their run_id.                                              *)
(***************************************************************************)
FrozenSuiteIsSummarised ==
    LET suite == {n \in Names : runs[n].frozen}
    IN  active = Idle /\ ~report_raises
            /\ (\A n \in suite : dirs[n].status = "complete" /\ dirs[n].summary # None
                                   /\ dirs[n].manifest = runs[n].sweep) =>
            benchmark_v0_missing(load_summaries, {combination(runs[n]) : n \in suite}) = {}
=============================================================================
