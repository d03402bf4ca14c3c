---------------------------- MODULE AnalysisProofs ----------------------------
(***************************************************************************)
(* What a bundle, a readiness check, the paired deltas, the regret table   *)
(* and the frontier vouch for, for every suite and every number of         *)
(* attempts.                                                               *)
(*                                                                         *)
(* None of these properties is inductive: they speak of manifests, bundles *)
(* and verdicts as they lie on disk.  AttemptInv ties them to how far the  *)
(* attempt that wrote them had come: that initialize drops the dimensions  *)
(* of an earlier attempt, and that only an attempt that has ended gets     *)
(* them back, is what makes a manifest with dimensions evidence.  What the *)
(* tables make of the rows is a matter of the rows alone: groups that add  *)
(* up to the frame, means compared as fractions, a walk over sorted rows.  *)
(***************************************************************************)
EXTENDS Analysis, DataLemmas

\* What status.json may say, or that there is none.
Statuses == {None, "running", "failed", "complete"}

\* The files of a run directory.
Files == [config : BOOLEAN,
          manifest : {None, NoDimensions} \union {runs[n].sweep : n \in Names},
          status : Statuses,
          responses : BOOLEAN,
          summary : Metrics \union {None, Torn}]

\* The types of the variables.
TypeInv ==
    /\ runs \in Suites
    /\ dirs \in [Names -> Files]
    /\ active \in [run : Names \union {None},
                   step : {"idle", "initialized", "streaming", "summarised"}]

\* A run that counts as answered and summarised.
HasEvidence(n) == dirs[n].responses /\ dirs[n].summary # None

(***************************************************************************)
(* What the files say of an attempt: a status only of a run that was       *)
(* begun, dimensions only after the attempt that is theirs has ended, and  *)
(* complete with dimensions only with answers and a summary.               *)
(***************************************************************************)
AttemptInv ==
    \A n \in Names :
        /\ runs[n].legacy => dirs[n].status = None
        /\ dirs[n].status = "running" => dirs[n].manifest = NoDimensions
        /\ dirs[n].manifest \notin {None, NoDimensions} =>
              /\ dirs[n].manifest = runs[n].sweep
              /\ dirs[n].status \in {"complete", "failed"}
              /\ dirs[n].status = "complete" => HasEvidence(n)
        /\ active.run = n =>
              /\ dirs[n].status \in {"running", "complete", "failed"}
              /\ active.step = "summarised" => dirs[n].summary # None
              /\ dirs[n].status = "complete" => HasEvidence(n)
              /\ dirs[n].manifest = NoDimensions

\* What a bundle says it found is still there.
BundleInv ==
    bundle # None =>
        /\ bundle.raised => ~bundle.complete
        /\ bundle.complete =>
              \A n \in bundle.runs : /\ n \in Names
                                     /\ dirs[n].status # None
                                     /\ dirs[n].summary # None

\* The inductive invariant.
Inv == TypeInv /\ AttemptInv /\ BundleInv
-------------------------------------------------------------------------------
\* A suite is a finite set of runs, none of which is "no run".
LEMMA NamesAreFinite == TypeInv => IsFiniteSet(Names) /\ None \notin Names
BY SuitesAssumption DEF TypeInv, Names

\* Legacy directories and empty ones satisfy it.
LEMMA InitInv == Init => Inv
<1> SUFFICES ASSUME Init PROVE Inv
  OBVIOUS
<1>1. /\ runs \in Suites
      /\ dirs \in [Names -> {Absent} \union {Legacy(m) : m \in Metrics}]
      /\ \A n \in Names : ~runs[n].legacy => dirs[n] = Absent
      /\ active = Idle
      /\ bundle = None
  BY DEF Init, Names
<1>2. /\ Absent \in Files
      /\ \A m \in Metrics : Legacy(m) \in Files
      /\ Absent.status = None /\ Absent.manifest = None
      /\ \A m \in Metrics : Legacy(m).status = None /\ Legacy(m).manifest = None
  BY DEF Absent, Legacy, Files, Statuses
<1> HIDE DEF Absent, Legacy
<1>3. TypeInv
  BY <1>1, <1>2 DEF TypeInv, Idle
<1>4. \A n \in Names : dirs[n].status = None /\ dirs[n].manifest = None
  BY <1>1, <1>2
<1>5. \A n \in Names : active.run # n
  BY <1>1, <1>3, NamesAreFinite DEF Idle
<1>6. None # "running"
  BY SuitesAssumption
<1>7. QED
  BY <1>1, <1>3, <1>4, <1>5, <1>6 DEF Inv, AttemptInv, BundleInv

\* Each step of an attempt, on the directory it works on.
LEMMA AttemptKeepsInv ==
    ASSUME Inv, NEW n \in Names, Attempt(n)
    PROVE  TypeInv' /\ AttemptInv' /\ bundle' = bundle
<1>1. /\ dirs \in [Names -> Files]
      /\ active \in [run : Names \union {None},
                     step : {"idle", "initialized", "streaming", "summarised"}]
      /\ runs \in Suites
      /\ None \notin Names
  BY NamesAreFinite DEF Inv, TypeInv
<1>2. AttemptInv
  BY DEF Inv
<1>3. UNCHANGED <<runs, bundle>> /\ Names' = Names /\ Files' = Files
  BY DEF Attempt, Begin, StreamRows, OpenSummary, DumpSummary, EndAttempt,
         RecordDimensions, Interrupt, Names, Files
<1> SUFFICES TypeInv' /\ AttemptInv'
  BY <1>3
\* Only the directory of n changes, and no other is worked on.
<1> DEFINE Others == /\ \A m \in Names \ {n} : dirs'[m] = dirs[m]
                     /\ active'.run \in {n, None}
           This == /\ dirs'[n] \in Files
                   /\ runs[n].legacy => dirs'[n].status = None
                   /\ dirs'[n].status = "running" => dirs'[n].manifest = NoDimensions
                   /\ dirs'[n].manifest \notin {None, NoDimensions} =>
                         /\ dirs'[n].manifest = runs[n].sweep
                         /\ dirs'[n].status \in {"complete", "failed"}
                         /\ dirs'[n].status = "complete" => HasEvidence(n)'
                   /\ active'.run = n =>
                         /\ dirs'[n].status \in {"running", "complete", "failed"}
                         /\ active'.step = "summarised" => dirs'[n].summary # None
                         /\ dirs'[n].status = "complete" => HasEvidence(n)'
                         /\ dirs'[n].manifest = NoDimensions
           Typed == /\ dirs' \in [Names -> Files]
                    /\ active' \in [run : Names \union {None},
                            step : {"idle", "initialized", "streaming", "summarised"}]
<1>4. SUFFICES Typed /\ Others /\ This
  <2>1. ASSUME Typed, Others, This PROVE TypeInv' /\ AttemptInv'
    <3>1. TypeInv'
      BY <1>1, <1>3, <2>1 DEF TypeInv
    <3>2. ASSUME NEW m \in Names, m # n
          PROVE  active'.run # m /\ dirs'[m] = dirs[m]
      BY <1>1, <2>1, <3>2
    <3>3. AttemptInv'
      BY <1>2, <1>3, <2>1, <3>2 DEF AttemptInv, HasEvidence
    <3>4. QED
      BY <3>1, <3>3
  <2>2. QED
    BY <2>1
<1>5. dirs[n] \in Files /\ Idle.run = None /\ Idle \in [run : {None}, step : {"idle"}]
  BY <1>1 DEF Idle
<1>6. CASE Begin(n)
  BY <1>1, <1>2, <1>5, <1>6, SuitesAssumption
  DEF Begin, initialize, AttemptInv, HasEvidence, Files, Statuses
<1>7. CASE StreamRows(n)
  BY <1>1, <1>2, <1>5, <1>7, SuitesAssumption
  DEF StreamRows, Attempting, AttemptInv, HasEvidence, Files, Statuses
<1>8. CASE OpenSummary(n)
  BY <1>1, <1>2, <1>5, <1>8, SuitesAssumption
  DEF OpenSummary, Attempting, AttemptInv, HasEvidence, Files, Statuses
<1>9. CASE DumpSummary(n)
  BY <1>1, <1>2, <1>5, <1>9, SuitesAssumption
  DEF DumpSummary, Attempting, AttemptInv, HasEvidence, Files, Statuses
<1>10. CASE EndAttempt(n)
  BY <1>1, <1>2, <1>5, <1>10, SuitesAssumption
  DEF EndAttempt, Attempting, AttemptInv, HasEvidence, Files, Statuses
<1>11. CASE RecordDimensions(n)
  BY <1>1, <1>2, <1>5, <1>11, SuitesAssumption
  DEF RecordDimensions, AttemptInv, HasEvidence, Files, Statuses
<1>12. CASE Interrupt(n)
  BY <1>1, <1>2, <1>5, <1>12, SuitesAssumption
  DEF Interrupt, Attempting, AttemptInv, HasEvidence, Files, Statuses
<1>13. QED
  BY <1>6, <1>7, <1>8, <1>9, <1>10, <1>11, <1>12 DEF Attempt

\* What a bundle has found stays there.
LEMMA FilesStay ==
    ASSUME Inv, NEW n \in Names, Attempt(n), NEW m \in Names
    PROVE  /\ dirs[m].status # None => dirs'[m].status # None
           /\ dirs[m].summary # None => dirs'[m].summary # None
<1>1. /\ dirs \in [Names -> Files]
      /\ dirs[m] \in Files /\ dirs[n] \in Files
  BY DEF Inv, TypeInv
<1>2. CASE Begin(n)
  BY <1>1, <1>2, SuitesAssumption DEF Begin, initialize, Files
<1>3. CASE StreamRows(n)
  <2>1. PICK responses : dirs' = [dirs EXCEPT ![n].responses = responses]
    BY <1>3 DEF StreamRows
  <2>2. QED
    BY <1>1, <2>1 DEF Files
<1>4. CASE OpenSummary(n)
  BY <1>1, <1>4, SuitesAssumption DEF OpenSummary, Files
<1>5. CASE DumpSummary(n)
  BY <1>1, <1>5, SuitesAssumption DEF DumpSummary, Files
<1>6. CASE EndAttempt(n)
  BY <1>1, <1>6, SuitesAssumption DEF EndAttempt, Files
<1>7. CASE RecordDimensions(n)
  BY <1>1, <1>7 DEF RecordDimensions, Files
<1>8. CASE Interrupt(n)
  BY <1>1, <1>8, SuitesAssumption DEF Interrupt, Files
<1>9. QED
  BY <1>2, <1>3, <1>4, <1>5, <1>6, <1>7, <1>8 DEF Attempt

\* A bundle records what it found, and nothing else changes.
LEMMA BuildBundleKeepsInv ==
    ASSUME Inv, NEW selected \in SUBSET Names, NEW generated, NEW strict,
           BuildBundle(selected, generated, strict)
    PROVE  Inv'
<1>1. UNCHANGED <<runs, dirs, active>> /\ Names' = Names /\ Files' = Files
  BY DEF BuildBundle, Names, Files
<1>2. TypeInv' /\ AttemptInv'
  BY <1>1 DEF Inv, TypeInv, AttemptInv, HasEvidence
<1> DEFINE complete == generated /\ \A n \in selected : missing_required(n) = {}
<1>3. bundle' = [runs |-> selected, complete |-> complete, raised |-> strict /\ ~complete]
  BY DEF BuildBundle
<1>4. ASSUME NEW n \in selected, missing_required(n) = {}
      PROVE  dirs[n].status # None /\ dirs[n].summary # None
  BY <1>4 DEF missing_required
<1>5. bundle'.runs = selected /\ bundle'.complete = complete
        /\ bundle'.raised = (strict /\ ~complete)
  BY <1>3
<1>6. BundleInv'
  BY <1>1, <1>4, <1>5 DEF BundleInv
<1>7. QED
  BY <1>2, <1>6 DEF Inv

\* Every step keeps the invariant.
LEMMA NextKeepsInv == Inv /\ [Next]_vars => Inv'
<1> SUFFICES ASSUME Inv, [Next]_vars PROVE Inv'
  OBVIOUS
<1>1. ASSUME NEW n \in Names, Attempt(n) PROVE Inv'
  <2>1. TypeInv' /\ AttemptInv' /\ bundle' = bundle
    BY <1>1, AttemptKeepsInv
  <2>2. Names' = Names
    BY <1>1 DEF Attempt, Begin, StreamRows, OpenSummary, DumpSummary, EndAttempt,
                RecordDimensions, Interrupt, Names
  <2>3. BundleInv'
    BY <1>1, <2>1, <2>2, FilesStay DEF Inv, BundleInv
  <2>4. QED
    BY <2>1, <2>3 DEF Inv
<1>2. CASE Kill
  <2>1. Idle \in [run : {None}, step : {"idle"}] /\ Idle.run = None
    BY DEF Idle
  <2>2. UNCHANGED <<runs, dirs, bundle>> /\ active' = Idle /\ Names' = Names /\ Files' = Files
    BY <1>2 DEF Kill, Names, Files
  <2>3. \A n \in Names : active'.run # n
    BY <2>1, <2>2, NamesAreFinite DEF Inv
  <2>4. QED
    BY <2>1, <2>2, <2>3 DEF Inv, TypeInv, AttemptInv, BundleInv, HasEvidence
<1>3. CASE Bundle
  <2>1. PICK n \in Names, generated, strict \in BOOLEAN :
            \/ BuildBundle({m \in Names : dirs[m] # Absent}, generated, strict)
            \/ BuildBundle({n}, generated, strict)
    BY <1>3 DEF Bundle
  <2>2. {m \in Names : dirs[m] # Absent} \in SUBSET Names /\ {n} \in SUBSET Names
    OBVIOUS
  <2>3. QED
    BY <2>1, <2>2, BuildBundleKeepsInv
<1>4. CASE UNCHANGED vars
  BY <1>4 DEF vars, Inv, TypeInv, AttemptInv, BundleInv, HasEvidence, Names, Files
<1>5. QED
  BY <1>1, <1>2, <1>3, <1>4 DEF Next
-------------------------------------------------------------------------------
\* A row of load_summaries is the summary of a run with the dimensions it recorded.
LEMMA RowsAreRuns ==
    ASSUME NEW r \in load_summaries
    PROVE  /\ r.run_id \in Summarised
           /\ r.sweep = IF dirs[r.run_id].manifest = None THEN NoDimensions
                        ELSE dirs[r.run_id].manifest
BY DEF load_summaries, summary_row

\* Every run with a summary is in the table.
LEMMA SummarisedHaveRows ==
    ASSUME NEW n \in Summarised
    PROVE  \E r \in load_summaries : r.run_id = n
<1>1. summary_row(n) \in load_summaries
  BY DEF load_summaries
<1>2. summary_row(n).run_id = n
  BY DEF summary_row
<1>3. QED
  BY <1>1, <1>2

\* A row with a model alias is of a sweep child whose attempt has ended.
LEMMA AliasIsBacked ==
    ASSUME Inv, ~report_raises, NEW alias \in observed_model_family_aliases
    PROVE  \E n \in Names : /\ runs[n].sweep.model_alias = alias
                            /\ dirs[n].summary \in Metrics
                            /\ dirs[n].status \in {"complete", "failed"}
<1>1. PICK r \in load_summaries : "model_alias" \in DOMAIN r.sweep
                                    /\ r.sweep.model_alias = alias
  BY DEF observed_model_family_aliases
<1> DEFINE n == r.run_id
<1>2. n \in Names /\ dirs[n].summary # None
  BY <1>1, RowsAreRuns DEF Summarised
<1>3. dirs[n].summary \in Metrics
  <2>1. dirs[n].summary # Torn
    BY <1>1, RowsAreRuns DEF report_raises
  <2>2. QED
    BY <1>2, <2>1 DEF Inv, TypeInv, Files
<1>4. DOMAIN NoDimensions = {}
  BY DEF NoDimensions
<1>5. dirs[n].manifest \notin {None, NoDimensions} /\ r.sweep = dirs[n].manifest
  BY <1>1, <1>4, RowsAreRuns
<1>6. QED
  BY <1>1, <1>2, <1>3, <1>5 DEF Inv, AttemptInv

\* Two aliases observed are two runs that have ended.
LEMMA FamiliesAreBacked ==
    ASSUME Inv, multi_model_ok
    PROVE  \E n, m \in Names : /\ runs[n].sweep.model_alias # runs[m].sweep.model_alias
                               /\ \A x \in {n, m} : /\ dirs[x].summary \in Metrics
                                                    /\ dirs[x].status \in {"complete", "failed"}
<1> DEFINE aliases == observed_model_family_aliases
<1>1. ~report_raises /\ Cardinality(aliases) >= 2
  BY DEF multi_model_ok
<1>2. aliases # {}
  BY <1>1, FS_EmptySet
<1>3. PICK alias \in aliases : TRUE
  BY <1>2
<1>4. aliases # {alias}
  BY <1>1, FS_Singleton
<1>5. PICK other \in aliases : other # alias
  BY <1>3, <1>4
<1>6. QED
  BY <1>1, <1>3, <1>5, AliasIsBacked

\* The invariant implies the property.
LEMMA InvBacks == Inv => EvidenceIsBacked
<1> SUFFICES ASSUME Inv PROVE EvidenceIsBacked
  OBVIOUS
<1>1. ASSUME bundle # None, bundle.complete, NEW n \in bundle.runs
      PROVE  /\ ~runs[n].legacy
             /\ dirs[n].status # None
             /\ \E r \in load_summaries : r.run_id = n
  <2>1. n \in Names /\ dirs[n].status # None /\ dirs[n].summary # None
    BY <1>1 DEF Inv, BundleInv
  <2>2. n \in Summarised
    BY <2>1 DEF Summarised
  <2>3. QED
    BY <2>1, <2>2, SummarisedHaveRows DEF Inv, AttemptInv
<1>2. bundle # None /\ bundle.raised => ~bundle.complete
  BY DEF Inv, BundleInv
<1>3. ASSUME NEW n \in Names, dirs[n].status = "complete", dirs[n].manifest # None,
             dirs[n].manifest # NoDimensions
      PROVE  n \in runs_in_request_tables
  BY <1>3 DEF Inv, AttemptInv, HasEvidence, runs_in_request_tables, Answered, Summarised
<1>4. QED
  BY <1>1, <1>2, <1>3, FamiliesAreBacked DEF EvidenceIsBacked

(***************************************************************************)
(* evidence_bundle.py, research_readiness.py, aggregate.py: whatever       *)
(* attempts are killed, interrupted or fail, complete bundles and observed *)
(* model families rest on runs that have ended, with summaries.            *)
(***************************************************************************)
THEOREM EvidenceIsAlwaysBacked == Spec => []EvidenceIsBacked
<1>1. Inv /\ [Next]_vars => Inv'
  BY NextKeepsInv
<1>2. QED
  BY InitInv, <1>1, InvBacks, PTL DEF Spec
-------------------------------------------------------------------------------
\* What load_summaries reads of a run: its summary and the dimensions of its attempt.
LEMMA RowFacts ==
    ASSUME Inv, ~report_raises, NEW r \in load_summaries
    PROVE  /\ r.run_id \in Names
           /\ r.qag \in Nat /\ r.quality \in Nat /\ r.ttft \in Nat
           /\ r.workload = runs[r.run_id].workload
           /\ r.condition = IF runs[r.run_id].legacy THEN "warm" ELSE runs[r.run_id].condition
           /\ DOMAIN r.sweep # {} =>
                 /\ r.sweep = runs[r.run_id].sweep
                 /\ ~runs[r.run_id].legacy
                 /\ dirs[r.run_id].status \in {"complete", "failed"}
                 /\ active.run # r.run_id
<1>1. PICK n \in Summarised : r = summary_row(n)
  BY DEF load_summaries
<1>2. n \in Names /\ dirs[n].summary # None /\ dirs[n].summary # Torn /\ dirs[n] \in Files
  BY DEF Summarised, report_raises, Inv, TypeInv
<1>3. dirs[n].summary \in Metrics
  BY <1>2 DEF Files
<1>4. /\ r.run_id = n /\ r.workload = runs[n].workload
      /\ r.condition = IF runs[n].legacy THEN "warm" ELSE runs[n].condition
      /\ r.sweep = IF dirs[n].manifest = None THEN NoDimensions ELSE dirs[n].manifest
      /\ r.qag = dirs[n].summary.qag /\ r.quality = dirs[n].summary.quality
      /\ r.ttft = dirs[n].summary.ttft
  BY <1>1 DEF summary_row
<1>5. r.qag \in Nat /\ r.quality \in Nat /\ r.ttft \in Nat
  BY <1>3, <1>4, MetricsAssumption
<1>6. DOMAIN NoDimensions = {}
  BY DEF NoDimensions
<1>7. ASSUME DOMAIN r.sweep # {}
      PROVE  /\ r.sweep = runs[n].sweep
             /\ ~runs[n].legacy
             /\ dirs[n].status \in {"complete", "failed"}
             /\ active.run # n
  <2>1. dirs[n].manifest \notin {None, NoDimensions} /\ r.sweep = dirs[n].manifest
    BY <1>4, <1>6, <1>7
  <2>2. dirs[n].status \in {"complete", "failed"} /\ dirs[n].manifest = runs[n].sweep /\ active.run # n
    BY <1>2, <2>1 DEF Inv, AttemptInv
  <2>3. ~runs[n].legacy
    BY <1>2, <2>2, SuitesAssumption DEF Inv, AttemptInv
  <2>. QED  BY <2>1, <2>2, <2>3
<1>. QED  BY <1>2, <1>4, <1>5, <1>7

\* The table has finitely many rows.
LEMMA TableIsFinite == Inv => IsFiniteSet(load_summaries)
<1> SUFFICES ASSUME Inv PROVE IsFiniteSet(load_summaries)
  OBVIOUS
<1>1. IsFiniteSet(Summarised)
  <2>1. Summarised \subseteq Names
    BY DEF Summarised
  <2>. QED  BY <2>1, NamesAreFinite, FS_Subset DEF Inv
<1> DEFINE f == [n \in Summarised |-> summary_row(n)]
<1>2. f \in [Summarised -> load_summaries] /\ \A r \in load_summaries : \E n \in Summarised : f[n] = r
  BY DEF load_summaries
<1> HIDE DEF f
<1>. QED  BY <1>1, <1>2, FiniteImage


(***************************************************************************)
(* claim_tables.py: the evidence rows count every run once.                *)
(***************************************************************************)
LEMMA EvidenceCounts ==
    ASSUME NEW df, IsFiniteSet(df)
    PROVE  /\ \A row \in evidence_rows(df) : row.runs > 0
           /\ MapThenSumSet(LAMBDA row : row.runs, evidence_rows(df)) = Cardinality(df)
<1> DEFINE Key(r) == <<claim_group(r, NonComparableKeys \ {"adapter_count"}), model_alias(r),
                       infer_strategy(r)>>
           Group(r) == {q \in df : Key(q) = Key(r)}
           Row(G) == [key |-> Key(Sample(G)), runs |-> Cardinality(G), quality |-> Mean(G, "quality")]
           D == evidence_rows(df)
           Is(h) == h = [s \in SUBSET D |-> IF s = {} THEN 0
                             ELSE (CHOOSE x \in s : TRUE).runs + h[s \ {CHOOSE x \in s : TRUE}]]
           fold == CHOOSE h : Is(h)
<1>1. D = {Row(G) : G \in {Group(r) : r \in df}}
  <2>1. GroupBy(df, Key) = {Group(r) : r \in df}
    BY DEF GroupBy
  <2>2. D = {Row(G) : G \in GroupBy(df, Key)}
    BY Zenon DEF evidence_rows
  <2>. QED  BY <2>1, <2>2
<1>2. MapThenSumSet(LAMBDA r : r.runs, D) = fold[D]
  BY Zenon DEF MapThenSumSet, MapThenFoldSet
<1> HIDE DEF D, Key
<1>3. \A r \in df : /\ Row(Group(r)).key = Key(r)
                    /\ Row(Group(r)).runs = Cardinality(Group(r))
                    /\ Row(Group(r)) \in D
  <2>1. ASSUME NEW r \in df PROVE Key(Sample(Group(r))) = Key(r)
    <3>1. Sample(Group(r)) \in Group(r)
      BY DEF Sample
    <3>. QED  BY <3>1
  <2>. QED  BY <1>1, <2>1
<1>4. \A d \in D : \E r \in df : Row(Group(r)) = d
  BY <1>1
<1>5. \A r, q \in df : Row(Group(r)) = Row(Group(q)) <=> Key(r) = Key(q)
  <2>1. ASSUME NEW r \in df, NEW q \in df, Key(r) = Key(q) PROVE Row(Group(r)) = Row(Group(q))
    <3>1. Group(r) = Group(q)
      BY <2>1
    <3>. QED  BY <3>1
  <2>. QED  BY <1>3, <2>1
<1> DEFINE key == [r \in df |-> Key(r)]
           row == [r \in df |-> Row(Group(r))]
           w == [d \in D |-> d.runs]
<1>6. Tabulates(df, key, D, row, w)
  <2>. HIDE DEF Row
  <2>1. row \in [df -> D] /\ \A d \in D : \E r \in df : row[r] = d
    BY <1>3, <1>4
  <2>2. \A r, q \in df : row[r] = row[q] <=> key[r] = key[q]
    BY <1>5
  <2>3. ASSUME NEW r \in df PROVE w[row[r]] = Cardinality({q \in df : key[q] = key[r]})
    <3>1. {q \in df : key[q] = key[r]} = Group(r)
      OBVIOUS
    <3>2. w[row[r]] = Row(Group(r)).runs
      BY <1>3
    <3>. QED  BY <1>3, <3>1, <3>2
  <2>4. w = [d \in D |-> w[d]]
    OBVIOUS
  <2>. HIDE DEF key, row, w
  <2>. QED  BY <2>1, <2>2, <2>3, <2>4 DEF Tabulates
<1>7. \A d \in D : w[d] = d.runs
  OBVIOUS
<1> HIDE DEF key, row, w, Row, Group
<1>8. IsFiniteSet(D) /\ w \in [D -> Nat] /\ (\A d \in D : w[d] > 0) /\ HasParts(w, D, df, row)
  BY <1>6, GroupsAddUp
<1>9. PICK g \in [SUBSET D -> Nat] : IsSum(g, D, w)
  BY <1>8, SumExists
<1>10. Is(g)
  <2>1. \A s \in SUBSET D : g[s] = IF s = {} THEN 0
                ELSE (CHOOSE x \in s : TRUE).runs + g[s \ {CHOOSE x \in s : TRUE}]
    BY <1>7, <1>9 DEF IsSum
  <2>. QED  BY <2>1
<1>11. Is(fold)
  BY <1>10
<1>12. \A s \in SUBSET D : fold[s] = IF s = {} THEN 0
                ELSE (CHOOSE x \in s : TRUE).runs + fold[s \ {CHOOSE x \in s : TRUE}]
  BY <1>11
<1> HIDE DEF fold
<1>13. IsSum(fold, D, w)
  BY <1>7, <1>12 DEF IsSum
<1>14. fold[D] = g[D]
  BY <1>8, <1>9, <1>13, SumIsUnique
<1>15. g[D] = Cardinality(df)
  <2>1. row \in [df -> D]
    BY <1>6 DEF Tabulates
  <2>. QED  BY <1>8, <1>9, <2>1, PartitionSum
<1>. QED  BY <1>2, <1>7, <1>8, <1>14, <1>15 DEF D
-------------------------------------------------------------------------------
(***************************************************************************)
(* claim_tables.py: which runs have a partner, and the groups they are     *)
(* paired in.                                                              *)
(***************************************************************************)
Partner(r) == IF infer_strategy(r) = "specialists" THEN "multitask" ELSE "specialists"

\* The runs with a seed that have a run of the other strategy to compare with.
Paired(df) ==
    {r \in df :
        /\ "seed" \in DOMAIN r.sweep
        /\ infer_strategy(r) \in {"specialists", "multitask"}
        /\ \E q \in df : /\ "seed" \in DOMAIN q.sweep
                         /\ q.sweep.seed = r.sweep.seed
                         /\ infer_strategy(q) = Partner(r)
                         /\ paired_key(q) = paired_key(r)}

\* The runs with a seed in one group.
Seeded(df, k) == {r \in df : "seed" \in DOMAIN r.sweep /\ paired_key(r) = k}

\* The runs of one strategy with one seed.
WithSeed(rows, strategy, seed) == {r \in OfStrategy(rows, strategy) : r.sweep.seed = seed}

\* The differences of a group, seed by seed.
Deltas(rows) == UNION {{<<s, d>> : d \in seed_delta(rows, s)} : s \in {r.sweep.seed : r \in rows}}

\* A group that gets a row.
HasDeltas(rows) ==
    OfStrategy(rows, "specialists") # {} /\ OfStrategy(rows, "multitask") # {} /\ Deltas(rows) # {}

\* A seed with runs of both strategies keeps them all when those without a partner go.
LEMMA SeedStays ==
    ASSUME NEW df, NEW k, NEW s
    PROVE  LET g == Seeded(df, k)
               h == Seeded(Paired(df), k)
           IN  seed_delta(h, s) = seed_delta(g, s)
<1> DEFINE g == Seeded(df, k)
           h == Seeded(Paired(df), k)
<1>1. \A t : WithSeed(h, t, s) \subseteq WithSeed(g, t, s)
  BY DEF Seeded, Paired, WithSeed, OfStrategy
<1>2. ASSUME WithSeed(g, "specialists", s) # {}, WithSeed(g, "multitask", s) # {},
             NEW t \in {"specialists", "multitask"}
      PROVE  WithSeed(h, t, s) = WithSeed(g, t, s)
  <2>1. ASSUME NEW r \in WithSeed(g, t, s) PROVE r \in WithSeed(h, t, s)
    <3>1. /\ r \in df /\ "seed" \in DOMAIN r.sweep /\ paired_key(r) = k
          /\ infer_strategy(r) = t /\ r.sweep.seed = s
      BY <2>1 DEF WithSeed, OfStrategy, Seeded
    <3>2. Partner(r) \in {"specialists", "multitask"}
      BY DEF Partner
    <3>3. PICK q \in WithSeed(g, Partner(r), s) : TRUE
      BY <1>2, <3>2
    <3>4. /\ q \in df /\ "seed" \in DOMAIN q.sweep /\ paired_key(q) = k
          /\ infer_strategy(q) = Partner(r) /\ q.sweep.seed = s
      BY <3>3 DEF WithSeed, OfStrategy, Seeded
    <3>5. r \in Paired(df)
      BY <3>1, <3>4 DEF Paired
    <3>. QED  BY <3>1, <3>5 DEF WithSeed, OfStrategy, Seeded
  <2>. QED  BY <1>1, <2>1
<1>3. \A rows : seed_delta(rows, s) =
         IF WithSeed(rows, "specialists", s) = {} \/ WithSeed(rows, "multitask", s) = {} THEN {}
         ELSE {Minus(Mean(WithSeed(rows, "specialists", s), "quality"),
                     Mean(WithSeed(rows, "multitask", s), "quality"))}
  BY DEF seed_delta, WithSeed
<1> HIDE DEF g, h
<1>4. CASE WithSeed(g, "specialists", s) # {} /\ WithSeed(g, "multitask", s) # {}
  <2>1. WithSeed(h, "specialists", s) = WithSeed(g, "specialists", s)
        /\ WithSeed(h, "multitask", s) = WithSeed(g, "multitask", s)
    BY <1>2, <1>4
  <2>. QED  BY <1>3, <2>1 DEF g, h
<1>5. CASE WithSeed(g, "specialists", s) = {} \/ WithSeed(g, "multitask", s) = {}
  <2>1. WithSeed(h, "specialists", s) = {} \/ WithSeed(h, "multitask", s) = {}
    BY <1>1, <1>5
  <2>. QED  BY <1>3, <1>5, <2>1 DEF g, h
<1>. QED  BY <1>4, <1>5

\* A difference of a seed rests on runs of both strategies.
LEMMA DeltaHasBoth ==
    ASSUME NEW rows, NEW s, seed_delta(rows, s) # {}
    PROVE  /\ \E r \in rows : r.sweep.seed = s
           /\ OfStrategy(rows, "specialists") # {} /\ OfStrategy(rows, "multitask") # {}
BY DEF seed_delta, OfStrategy

\* So every group keeps its differences.
LEMMA DeltasStay ==
    ASSUME NEW df, NEW k
    PROVE  LET g == Seeded(df, k)
               h == Seeded(Paired(df), k)
           IN  /\ Deltas(h) = Deltas(g)
               /\ HasDeltas(h) <=> HasDeltas(g)
<1> DEFINE g == Seeded(df, k)
           h == Seeded(Paired(df), k)
<1>1. \A s : seed_delta(h, s) = seed_delta(g, s)
  BY SeedStays
<1>2. \A rows, x : x \in Deltas(rows) <=>
          \E s, d : x = <<s, d>> /\ d \in seed_delta(rows, s) /\ \E r \in rows : r.sweep.seed = s
  BY DEF Deltas
<1>3. \A rows, x : x \in Deltas(rows) <=> \E s, d : x = <<s, d>> /\ d \in seed_delta(rows, s)
  BY <1>2, DeltaHasBoth
<1>4. \A rows : HasDeltas(rows) <=> \E s : seed_delta(rows, s) # {}
  <2>1. ASSUME NEW rows, HasDeltas(rows) PROVE \E s : seed_delta(rows, s) # {}
    <3>1. PICK x : x \in Deltas(rows)
      BY <2>1 DEF HasDeltas
    <3>. QED  BY <1>3, <3>1
  <2>2. ASSUME NEW rows, NEW s, seed_delta(rows, s) # {} PROVE HasDeltas(rows)
    <3>1. PICK d : d \in seed_delta(rows, s)
      BY <2>2
    <3>2. <<s, d>> \in Deltas(rows)
      BY <1>3, <3>1
    <3>. QED  BY <2>2, <3>2, DeltaHasBoth DEF HasDeltas
  <2>. QED  BY <2>1, <2>2
<1> HIDE DEF g, h
<1>5. Deltas(h) = Deltas(g)
  <2>1. \A x : x \in Deltas(h) <=> x \in Deltas(g)
    BY <1>1, <1>3
  <2>2. (\A x : x \in Deltas(h) => x \in Deltas(g)) /\ (\A x : x \in Deltas(g) => x \in Deltas(h))
    BY <2>1
  <2>3. Deltas(h) \subseteq Deltas(g) /\ Deltas(g) \subseteq Deltas(h)
    BY <2>2
  <2>. QED  BY <2>3
<1>6. HasDeltas(h) <=> HasDeltas(g)
  BY <1>1, <1>4
<1>. QED  BY <1>5, <1>6 DEF g, h

\* The paired rows, one for each key with differences.
LEMMA PairedRows ==
    ASSUME NEW df, NEW x
    PROVE  x \in paired_delta_rows(df) <=>
               \E k : /\ HasDeltas(Seeded(df, k))
                      /\ x = [key |-> k, deltas |-> Deltas(Seeded(df, k))]
<1> DEFINE seeded == {r \in df : "seed" \in DOMAIN r.sweep}
           Row(g) == [key |-> paired_key(Sample(g)), deltas |-> Deltas(g)]
           Groups == {Seeded(df, k) : k \in {paired_key(r) : r \in seeded}}
<1>1. GroupBy(seeded, paired_key) = Groups
  <2>1. \A k : {r \in seeded : paired_key(r) = k} = Seeded(df, k)
    BY DEF Seeded
  <2>. QED  BY <2>1 DEF GroupBy
<1>2. paired_delta_rows(df) = {Row(g) : g \in {g \in GroupBy(seeded, paired_key) : HasDeltas(g)}}
  BY Zenon DEF paired_delta_rows, HasDeltas, Deltas
<1>3. x \in paired_delta_rows(df) <=> \E g \in Groups : HasDeltas(g) /\ x = Row(g)
  <2>. HIDE DEF Groups, Row, seeded
  <2>. QED  BY <1>1, <1>2
<1>4. ASSUME NEW k, HasDeltas(Seeded(df, k))
      PROVE  Seeded(df, k) \in Groups /\ paired_key(Sample(Seeded(df, k))) = k
  <2>1. PICK r : r \in Seeded(df, k)
    BY <1>4 DEF HasDeltas, OfStrategy
  <2>2. r \in seeded /\ paired_key(r) = k
    BY <2>1 DEF Seeded
  <2>3. Sample(Seeded(df, k)) \in Seeded(df, k)
    BY <2>1 DEF Sample
  <2>4. paired_key(Sample(Seeded(df, k))) = k
    BY <2>3 DEF Seeded
  <2>. QED  BY <2>2, <2>4
<1>5. ASSUME NEW k, HasDeltas(Seeded(df, k))
      PROVE  Row(Seeded(df, k)) = [key |-> k, deltas |-> Deltas(Seeded(df, k))]
  BY <1>4, <1>5
<1>6. \A g \in Groups : \E k : g = Seeded(df, k)
  OBVIOUS
<1> HIDE DEF Groups, Row
<1>. QED  BY <1>3, <1>4, <1>5, <1>6

\* The table does not depend on runs without a partner.
LEMMA PairsStay == ASSUME NEW df PROVE paired_delta_rows(df) = paired_delta_rows(Paired(df))
<1>1. ASSUME NEW x
      PROVE  x \in paired_delta_rows(df) <=> x \in paired_delta_rows(Paired(df))
  <2>1. x \in paired_delta_rows(df) <=>
               \E k : /\ HasDeltas(Seeded(df, k))
                      /\ x = [key |-> k, deltas |-> Deltas(Seeded(df, k))]
    BY PairedRows
  <2>2. x \in paired_delta_rows(Paired(df)) <=>
               \E k : /\ HasDeltas(Seeded(Paired(df), k))
                      /\ x = [key |-> k, deltas |-> Deltas(Seeded(Paired(df), k))]
    BY PairedRows
  <2>3. \A k : /\ Deltas(Seeded(Paired(df), k)) = Deltas(Seeded(df, k))
               /\ HasDeltas(Seeded(Paired(df), k)) <=> HasDeltas(Seeded(df, k))
    BY DeltasStay
  <2>. QED  BY <2>1, <2>2, <2>3
<1>2. /\ \A x : x \in paired_delta_rows(df) => x \in paired_delta_rows(Paired(df))
      /\ \A x : x \in paired_delta_rows(Paired(df)) => x \in paired_delta_rows(df)
  BY <1>1
<1>3. /\ paired_delta_rows(df) \subseteq paired_delta_rows(Paired(df))
      /\ paired_delta_rows(Paired(df)) \subseteq paired_delta_rows(df)
  BY <1>2
<1>. QED  BY <1>3

\* The invariant implies that deltas are paired.
LEMMA InvPairs == Inv => DeltasArePaired
<1> SUFFICES ASSUME Inv, ~report_raises PROVE DeltasArePaired
  BY DEF DeltasArePaired
<1> DEFINE df == load_summaries
           partner(r) == IF infer_strategy(r) = "specialists" THEN "multitask" ELSE "specialists"
           paired == {r \in df :
                     /\ "seed" \in DOMAIN r.sweep
                     /\ infer_strategy(r) \in {"specialists", "multitask"}
                     /\ \E q \in df : /\ "seed" \in DOMAIN q.sweep
                                      /\ q.sweep.seed = r.sweep.seed
                                      /\ infer_strategy(q) = partner(r)
                                      /\ paired_key(q) = paired_key(r)}
<1>1. paired = Paired(df)
  BY DEF Paired, Partner
<1>2. paired_delta_rows(df) = paired_delta_rows(Paired(df))
  BY PairsStay
<1>3. \A r \in Paired(df) : /\ dirs[r.run_id].status \in {"complete", "failed"}
                            /\ active.run # r.run_id
                            /\ r.sweep = runs[r.run_id].sweep
  <2>1. \A r \in Paired(df) : r \in df /\ DOMAIN r.sweep # {}
    BY DEF Paired
  <2>. QED  BY <2>1, RowFacts
<1>4. IsFiniteSet(df)
  BY TableIsFinite
<1>5. /\ \A row \in evidence_rows(df) : row.runs > 0
      /\ MapThenSumSet(LAMBDA row : row.runs, evidence_rows(df)) = Cardinality(df)
  BY <1>4, EvidenceCounts
<1>. QED  BY <1>1, <1>2, <1>3, <1>5 DEF DeltasArePaired

(***************************************************************************)
(* claim_tables.py: whatever attempts are made, killed or interrupted, the *)
(* paired deltas rest on ended runs of both strategies.                    *)
(***************************************************************************)
THEOREM DeltasAreAlwaysPaired == Spec => []DeltasArePaired
<1>1. Inv /\ [Next]_vars => Inv'
  BY NextKeepsInv
<1>2. QED
  BY InitInv, <1>1, InvPairs, PTL DEF Spec
-------------------------------------------------------------------------------
(***************************************************************************)
(* Fractions with positive denominators, compared by cross-multiplication. *)
(***************************************************************************)
IsMean(m) == m.sum \in Nat /\ m.count \in Nat /\ m.count > 0

\* Cross-multiplied, "at most" is transitive.
LEMMA AtMostIsTransitive ==
    ASSUME NEW a \in Nat, NEW b \in Nat, NEW c \in Nat,
           NEW x \in Nat, NEW y \in Nat, NEW z \in Nat, x > 0, y > 0, z > 0,
           a * y <= b * x, b * z <= c * y
    PROVE  a * z <= c * x
<1>1. /\ a * z \in Nat /\ c * x \in Nat /\ a * y \in Nat /\ b * x \in Nat /\ b * z \in Nat /\ c * y \in Nat
  OBVIOUS
<1>2. z * (a * y) <= z * (b * x) /\ x * (b * z) <= x * (c * y)
  BY <1>1, TimesIsMonotone
<1>3. z * (a * y) = y * (a * z)
  OBVIOUS
<1>4. z * (b * x) = x * (b * z)
  OBVIOUS
<1>5. x * (c * y) = y * (c * x)
  OBVIOUS
<1>6. y * (a * z) <= y * (c * x)
  <2>. DEFINE p == z * (a * y)
              q == z * (b * x)
              r == x * (c * y)
              s == x * (b * z)
  <2>1. p \in Nat /\ q \in Nat /\ r \in Nat /\ s \in Nat
    BY <1>1
  <2>2. p <= q /\ s <= r /\ q = s
    BY <1>2, <1>4
  <2>. HIDE DEF p, q, r, s
  <2>3. p <= r
    BY <2>1, <2>2
  <2>. QED  BY <1>3, <1>5, <2>3 DEF p, r
<1>. DEFINE u == a * z
            v == c * x
<1>7. u \in Nat /\ v \in Nat /\ y * u <= y * v
  BY <1>1, <1>6
<1>. HIDE DEF u, v
<1>8. ASSUME v < u PROVE FALSE
  <2>1. v + 1 \in Nat /\ v + 1 <= u
    BY <1>7, <1>8
  <2>2. y * (v + 1) <= y * u
    BY <1>7, <2>1, TimesIsMonotone
  <2>3. y * (v + 1) = y * v + y
    BY <1>7
  <2>4. y * v \in Nat /\ y * u \in Nat
    BY <1>7
  <2>. DEFINE p == y * v
              q == y * u
  <2>5. p + y <= q /\ q <= p /\ p \in Nat /\ q \in Nat
    BY <1>7, <2>2, <2>3, <2>4
  <2>. HIDE DEF p, q
  <2>. QED  BY <2>5
<1>9. u <= v
  BY <1>7, <1>8
<1>. QED  BY <1>9 DEF u, v

\* Better is a strict order on means; not better is transitive.
LEMMA BetterIsOrder ==
    ASSUME NEW p, NEW q, IsMean(p.qag), IsMean(q.qag)
    PROVE  /\ Minus(p.qag, q.qag).num \in Int
           /\ Minus(q.qag, p.qag).num = 0 - Minus(p.qag, q.qag).num
           /\ Better(p, q) <=> p.qag.sum * q.qag.count > q.qag.sum * p.qag.count
<1>. DEFINE u == p.qag.sum * q.qag.count
            v == q.qag.sum * p.qag.count
<1>1. u \in Nat /\ v \in Nat
  BY DEF IsMean
<1>2. Minus(p.qag, q.qag).num = u - v /\ Minus(q.qag, p.qag).num = v - u
  BY DEF Minus
<1>3. Better(p, q) <=> u - v > 0
  BY <1>2 DEF Better
<1>. HIDE DEF u, v
<1>4. u - v \in Int /\ v - u = 0 - (u - v) /\ (u - v > 0 <=> u > v)
  BY <1>1
<1>. QED  BY <1>2, <1>3, <1>4 DEF u, v

\* A policy no better than one that is no better than a third is no better than it.
LEMMA NotBetterIsTransitive ==
    ASSUME NEW p, NEW q, NEW r, IsMean(p.qag), IsMean(q.qag), IsMean(r.qag),
           ~Better(p, q), ~Better(q, r)
    PROVE  ~Better(p, r)
<1>1. p.qag.sum * q.qag.count <= q.qag.sum * p.qag.count
  <2>1. ~(p.qag.sum * q.qag.count > q.qag.sum * p.qag.count)
    BY BetterIsOrder
  <2>2. p.qag.sum * q.qag.count \in Nat /\ q.qag.sum * p.qag.count \in Nat
    BY DEF IsMean
  <2>. QED  BY <2>1, <2>2
<1>2. q.qag.sum * r.qag.count <= r.qag.sum * q.qag.count
  <2>1. ~(q.qag.sum * r.qag.count > r.qag.sum * q.qag.count)
    BY BetterIsOrder
  <2>2. q.qag.sum * r.qag.count \in Nat /\ r.qag.sum * q.qag.count \in Nat
    BY DEF IsMean
  <2>. QED  BY <2>1, <2>2
<1>3. p.qag.sum * r.qag.count <= r.qag.sum * p.qag.count
  BY <1>1, <1>2, AtMostIsTransitive DEF IsMean
<1>4. p.qag.sum * r.qag.count \in Nat /\ r.qag.sum * p.qag.count \in Nat
  BY DEF IsMean
<1>5. ~(p.qag.sum * r.qag.count > r.qag.sum * p.qag.count)
  BY <1>3, <1>4
<1>. QED  BY <1>5, BetterIsOrder

\* Among finitely many policies one is best.
LEMMA BestExists ==
    ASSUME NEW T, IsFiniteSet(T), T # {}, \A p \in T : IsMean(p.qag)
    PROVE  \E b \in T : \A q \in T : ~Better(q, b)
<1> DEFINE Best(s) == \E b \in s : \A q \in s : ~Better(q, b)
           P == {k \in Nat : \A s \in SUBSET T : s # {} /\ Cardinality(s) <= k => Best(s)}
<1>1. \A s \in SUBSET T : IsFiniteSet(s) /\ Cardinality(s) \in Nat
  BY FS_Subset, FS_CardinalityType
<1>2. 0 \in P
  <2>1. \A s \in SUBSET T : Cardinality(s) <= 0 => s = {}
    BY <1>1, FS_EmptySet
  <2>. QED  BY <2>1
<1>3. \A p, q \in T : ~Better(p, p) /\ (Better(p, q) => ~Better(q, p))
  <2>1. ASSUME NEW p \in T, NEW q \in T PROVE Better(p, q) => ~Better(q, p)
    <3>. DEFINE d == Minus(p.qag, q.qag).num
                e == Minus(q.qag, p.qag).num
    <3>1. d \in Int /\ e = 0 - d
      BY BetterIsOrder
    <3>2. (Better(p, q) <=> d > 0) /\ (Better(q, p) <=> e > 0)
      BY DEF Better
    <3>. HIDE DEF d, e
    <3>. QED  BY <3>1, <3>2
  <2>. QED  BY <2>1
<1>4. ASSUME NEW k \in Nat, k \in P PROVE k + 1 \in P
  <2>1. ASSUME NEW s \in SUBSET T, s # {}, Cardinality(s) <= k + 1 PROVE Best(s)
    <3>1. PICK x \in s : TRUE
      BY <2>1
    <3>2. s \ {x} \in SUBSET T /\ Cardinality(s \ {x}) <= k
      <4>1. IsFiniteSet(s) /\ Cardinality(s) \in Nat
        BY <1>1
      <4>2. Cardinality(s \ {x}) = Cardinality(s) - 1
        BY <3>1, <4>1, FS_RemoveElement
      <4>. QED  BY <2>1, <4>1, <4>2
    <3>3. CASE s \ {x} = {}
      <4>1. \A q \in s : q = x
        BY <3>3
      <4>. QED  BY <1>3, <3>1, <4>1
    <3>4. CASE s \ {x} # {}
      <4>1. PICK b \in s \ {x} : \A q \in s \ {x} : ~Better(q, b)
        BY <1>4, <3>2, <3>4
      <4>2. b \in T /\ x \in T
        BY <3>1, <4>1
      <4>3. CASE ~Better(x, b)
        <5>1. \A q \in s : ~Better(q, b)
          BY <4>1, <4>3
        <5>. QED  BY <4>1, <5>1
      <4>4. CASE Better(x, b)
        <5>1. ~Better(b, x) /\ ~Better(x, x)
          BY <1>3, <4>2, <4>4
        <5>2. \A q \in s \ {x} : q \in T /\ IsMean(q.qag)
          OBVIOUS
        <5>3. \A q \in s \ {x} : ~Better(q, x)
          BY <4>1, <4>2, <5>1, <5>2, NotBetterIsTransitive
        <5>4. \A q \in s : ~Better(q, x)
          BY <5>1, <5>3
        <5>. QED  BY <3>1, <5>4
      <4>. QED  BY <4>3, <4>4
    <3>. QED  BY <3>3, <3>4
  <2>. HIDE DEF Best
  <2>. QED  BY <2>1
<1> HIDE DEF P, Best
<1>5. \A k \in Nat : k \in P
  BY <1>2, <1>4, InductionOnNat
<1>6. T \in SUBSET T /\ Cardinality(T) \in P /\ Cardinality(T) <= Cardinality(T)
  BY <1>1, <1>5
<1>7. Best(T)
  BY <1>6 DEF P
<1>. QED  BY <1>7 DEF Best

\* A mean of natural numbers.
LEMMA MeanIsMean ==
    ASSUME NEW rows, IsFiniteSet(rows), rows # {}, \A r \in rows : r.qag \in Nat
    PROVE  IsMean(Mean(rows, "qag"))
<1> DEFINE Is(h) == h = [s \in SUBSET rows |-> IF s = {} THEN 0
                ELSE (CHOOSE x \in s : TRUE)["qag"] + h[s \ {CHOOSE x \in s : TRUE}]]
           fold == CHOOSE h : Is(h)
           w == [r \in rows |-> r.qag]
<1>1. Mean(rows, "qag").sum = fold[rows] /\ Mean(rows, "qag").count = Cardinality(rows)
  <2>1. MapThenSumSet(LAMBDA r : r["qag"], rows) = fold[rows]
    BY Zenon DEF MapThenSumSet, MapThenFoldSet
  <2>2. Mean(rows, "qag") = [sum |-> MapThenSumSet(LAMBDA r : r["qag"], rows),
                             count |-> Cardinality(rows)]
    BY Zenon DEF Mean
  <2>. HIDE DEF fold
  <2>. QED  BY <2>1, <2>2
<1>2. Cardinality(rows) \in Nat /\ Cardinality(rows) > 0
  <2>1. Cardinality(rows) \in Nat /\ Cardinality(rows) # 0
    BY FS_CardinalityType, FS_EmptySet
  <2>. QED  BY <2>1
<1>3. w \in [rows -> Nat] /\ \A r \in rows : w[r] = r.qag
  OBVIOUS
<1> HIDE DEF w
<1>4. PICK g \in [SUBSET rows -> Nat] : IsSum(g, rows, w)
  BY <1>3, SumExists
<1>5. Is(g)
  <2>1. \A s \in SUBSET rows : g[s] = IF s = {} THEN 0
                ELSE (CHOOSE x \in s : TRUE)["qag"] + g[s \ {CHOOSE x \in s : TRUE}]
    BY <1>3, <1>4 DEF IsSum
  <2>. QED  BY <2>1
<1>6. Is(fold)
  BY <1>5
<1>7. \A s \in SUBSET rows : fold[s] = IF s = {} THEN 0
                ELSE (CHOOSE x \in s : TRUE)["qag"] + fold[s \ {CHOOSE x \in s : TRUE}]
  BY <1>6
<1> HIDE DEF fold
<1>8. IsSum(fold, rows, w)
  BY <1>3, <1>7 DEF IsSum
<1>9. fold[rows] = g[rows]
  BY <1>4, <1>8, SumIsUnique
<1>. QED  BY <1>1, <1>2, <1>4, <1>9 DEF IsMean

(***************************************************************************)
(* policy_regret.py: the policy a run belongs to.                          *)
(***************************************************************************)
PolicyKey(df, r) ==
    <<regime_key(r, regime_columns(df)), infer_policy(r), r.router, r.cache>>

\* The runs of the policy that r belongs to.
PolicyGroup(df, r) == {q \in df : PolicyKey(df, q) = PolicyKey(df, r)}

\* The row of policy_means that r counts in.
PolicyOf(df, r) ==
    [regime |-> regime_key(r, regime_columns(df)), policy |-> infer_policy(r),
     router |-> r.router, cache |-> r.cache,
     runs |-> Cardinality(PolicyGroup(df, r)), qag |-> Mean(PolicyGroup(df, r), "qag")]

\* The policies are those of the runs.
LEMMA PoliciesOfRuns ==
    ASSUME NEW df
    PROVE  policy_means(df) = {PolicyOf(df, r) : r \in df}
<1> DEFINE Key(r) == PolicyKey(df, r)
           Row(G) == [regime |-> Key(Sample(G))[1], policy |-> Key(Sample(G))[2],
                      router |-> Sample(G).router, cache |-> Sample(G).cache,
                      runs |-> Cardinality(G), qag |-> Mean(G, "qag")]
<1>1. policy_means(df) = {Row(G) : G \in GroupBy(df, Key)}
  BY Zenon DEF policy_means, PolicyKey
<1>2. GroupBy(df, Key) = {PolicyGroup(df, r) : r \in df}
  BY DEF GroupBy, PolicyGroup
<1>3. ASSUME NEW r \in df PROVE Row(PolicyGroup(df, r)) = PolicyOf(df, r)
  <2>1. Sample(PolicyGroup(df, r)) \in PolicyGroup(df, r)
    BY DEF Sample, PolicyGroup
  <2>. DEFINE s == Sample(PolicyGroup(df, r))
  <2>2. Key(s) = Key(r)
    BY <2>1 DEF PolicyGroup
  <2>. HIDE DEF s
  <2>3. /\ Key(s)[1] = regime_key(r, regime_columns(df)) /\ Key(s)[2] = infer_policy(r)
        /\ s.router = r.router /\ s.cache = r.cache
    BY <2>2 DEF PolicyKey
  <2>. QED  BY <2>3 DEF PolicyOf, s
<1> HIDE DEF Row
<1>. QED  BY <1>1, <1>2, <1>3

(***************************************************************************)
(* What the table of a finite frame is made of: finitely many policies,    *)
(* each with a mean over its runs.                                         *)
(***************************************************************************)
LEMMA PolicyFacts ==
    ASSUME NEW df, IsFiniteSet(df), \A r \in df : r.qag \in Nat
    PROVE  IsFiniteSet(policy_means(df)) /\ \A p \in policy_means(df) : IsMean(p.qag)
<1>1. IsFiniteSet(policy_means(df))
  <2>. DEFINE f == [r \in df |-> PolicyOf(df, r)]
  <2>1. f \in [df -> policy_means(df)] /\ \A p \in policy_means(df) : \E r \in df : f[r] = p
    BY PoliciesOfRuns
  <2>. HIDE DEF f
  <2>. QED  BY <2>1, FiniteImage
<1>2. ASSUME NEW r \in df PROVE IsMean(PolicyOf(df, r).qag)
  <2>1. PolicyGroup(df, r) \subseteq df /\ r \in PolicyGroup(df, r)
    BY DEF PolicyGroup
  <2>2. IsFiniteSet(PolicyGroup(df, r))
    BY <2>1, FS_Subset
  <2>3. IsMean(Mean(PolicyGroup(df, r), "qag"))
    BY <2>1, <2>2, MeanIsMean
  <2>. QED  BY <2>3 DEF PolicyOf
<1>. QED  BY <1>1, <1>2, PoliciesOfRuns

(***************************************************************************)
(* policy_regret.py: the row of a policy among its rivals.                 *)
(***************************************************************************)
Rivals(df, p) == {q \in policy_means(df) : q.regime = p.regime}

\* The policies of the regime with a better mean.
Above(df, p) == {q \in Rivals(df, p) : Better(q, p)}

\* A best policy of the regime.
Baseline(df, p) == CHOOSE b \in Rivals(df, p) : \A q \in Rivals(df, p) : ~Better(q, b)

\* The policy or router is the oracle.
Oracle(p) == "oracle" \in {p.policy, p.router}

\* The groups of equal means among the policies above.
Ranks(df, p) ==
    GroupBy(Above(df, p), LAMBDA q : {s \in Above(df, p) : ~Better(s, q) /\ ~Better(q, s)})

\* The row of the table.
RegretRow(df, p) ==
    [policy |-> p, baseline |-> Baseline(df, p), regret |-> Minus(Baseline(df, p).qag, p.qag),
     rank |-> 1 + Cardinality(Ranks(df, p)),
     oracle_present |-> \E q \in Rivals(df, p) : Oracle(q),
     baseline_source |-> IF Oracle(Baseline(df, p)) THEN "oracle" ELSE "best_observed"]

\* The table has the row of each policy.
LEMMA TableOfPolicies ==
    ASSUME NEW df
    PROVE  build_policy_regret_table(df) = {RegretRow(df, p) : p \in policy_means(df)}
BY Zenon DEF build_policy_regret_table, RegretRow, Rivals, Above, Baseline, Oracle, Ranks

\* A finite set has finitely many groups, and none only if it is empty.
LEMMA RanksCount ==
    ASSUME NEW df, NEW p, IsFiniteSet(Above(df, p))
    PROVE  /\ Cardinality(Ranks(df, p)) \in Nat
           /\ Cardinality(Ranks(df, p)) = 0 <=> Above(df, p) = {}
<1> DEFINE S == Above(df, p)
           Key(q) == {s \in S : ~Better(s, q) /\ ~Better(q, s)}
           T == Ranks(df, p)
<1>1. T = {{r \in S : Key(r) = k} : k \in {Key(r) : r \in S}}
  BY Zenon DEF Ranks, GroupBy
<1> HIDE DEF S, T, Key
<1> DEFINE f == [q \in S |-> {r \in S : Key(r) = Key(q)}]
<1>2. f \in [S -> T] /\ \A t \in T : \E q \in S : f[q] = t
  BY <1>1
<1> HIDE DEF f
<1>3. IsFiniteSet(T)
  <2>1. IsFiniteSet(S)
    BY DEF S
  <2>. QED  BY <1>2, <2>1, FiniteImage
<1>4. Cardinality(T) \in Nat /\ (Cardinality(T) = 0 <=> T = {})
  BY <1>3, FS_CardinalityType, FS_EmptySet
<1>5. T = {} <=> S = {}
  BY <1>2
<1>. QED  BY <1>4, <1>5 DEF S, T

(***************************************************************************)
(* policy_regret.py: the baseline is a best policy of the regime, regret   *)
(* is what a policy lacks to it, and rank 1 is no regret.                  *)
(***************************************************************************)
LEMMA RowIsSound ==
    ASSUME NEW df, IsFiniteSet(df), \A r \in df : r.qag \in Nat, NEW p \in policy_means(df)
    PROVE  LET t == RegretRow(df, p)
           IN  /\ t.regret.num >= 0
               /\ t.rank = 1 <=> t.regret.num = 0
               /\ t.baseline.regime = t.policy.regime
               /\ t.baseline_source = "oracle" => t.oracle_present
<1> DEFINE R == Rivals(df, p)
           b == Baseline(df, p)
<1>1. /\ IsFiniteSet(R) /\ p \in R /\ \A q \in R : IsMean(q.qag) /\ q.regime = p.regime
  <2>1. R \subseteq policy_means(df) /\ p \in R /\ \A q \in R : q.regime = p.regime
    BY DEF Rivals
  <2>2. IsFiniteSet(policy_means(df)) /\ \A q \in policy_means(df) : IsMean(q.qag)
    BY PolicyFacts
  <2>. HIDE DEF R
  <2>. QED  BY <2>1, <2>2, FS_Subset
<1>2. b \in R /\ \A q \in R : ~Better(q, b)
  <2>. HIDE DEF R
  <2>1. \E c \in R : \A q \in R : ~Better(q, c)
    BY <1>1, BestExists
  <2>2. b = CHOOSE c \in R : \A q \in R : ~Better(q, c)
    BY DEF Baseline, R
  <2>. HIDE DEF b
  <2>. QED  BY <2>1, <2>2
<1>3. Above(df, p) = {q \in R : Better(q, p)}
  BY DEF Above
<1>4. /\ Cardinality(Ranks(df, p)) \in Nat
      /\ Cardinality(Ranks(df, p)) = 0 <=> Above(df, p) = {}
  <2>. HIDE DEF R
  <2>1. Above(df, p) \subseteq R
    BY <1>3
  <2>2. IsFiniteSet(Above(df, p))
    BY <1>1, <2>1, FS_Subset
  <2>. QED  BY <2>2, RanksCount
<1> HIDE DEF R, b
<1> DEFINE d == Minus(b.qag, p.qag).num
           e == Minus(p.qag, b.qag).num
<1>5. /\ d \in Int /\ e = 0 - d
      /\ (Better(b, p) <=> d > 0) /\ (Better(p, b) <=> e > 0)
  <2>1. IsMean(b.qag) /\ IsMean(p.qag)
    BY <1>1, <1>2
  <2>2. d \in Int /\ e = 0 - d
    BY <2>1, BetterIsOrder
  <2>. QED  BY <2>2 DEF Better
<1> HIDE DEF d, e
<1>6. ~Better(p, b)
  BY <1>1, <1>2
<1>7. d >= 0 /\ (Better(b, p) <=> d # 0)
  BY <1>5, <1>6
<1>8. Above(df, p) = {} <=> ~Better(b, p)
  <2>1. ASSUME ~Better(b, p), NEW q \in R PROVE ~Better(q, p)
    <3>1. IsMean(q.qag) /\ IsMean(b.qag) /\ IsMean(p.qag) /\ ~Better(q, b)
      BY <1>1, <1>2
    <3>. QED  BY <2>1, <3>1, NotBetterIsTransitive
  <2>. QED  BY <1>2, <1>3, <2>1
<1> DEFINE c == Cardinality(Ranks(df, p))
<1>9. (1 + c = 1) <=> d = 0
  <2>1. c \in Nat /\ (c = 0 <=> d = 0)
    BY <1>4, <1>7, <1>8
  <2>. HIDE DEF c
  <2>. QED  BY <2>1
<1> DEFINE t == RegretRow(df, p)
<1>10. /\ t.regret.num = d /\ t.rank = 1 + c /\ t.baseline = b /\ t.policy = p
       /\ t.oracle_present = \E q \in R : Oracle(q)
       /\ t.baseline_source = IF Oracle(b) THEN "oracle" ELSE "best_observed"
  BY DEF RegretRow, d, b, R
<1>11. t.baseline_source = "oracle" => t.oracle_present
  <2>. HIDE DEF t
  <2>1. t.baseline_source = "oracle" => Oracle(b)
    BY <1>10
  <2>. QED  BY <1>2, <1>10, <2>1
<1>12. t.regret.num >= 0 /\ (t.rank = 1 <=> t.regret.num = 0) /\ t.baseline.regime = t.policy.regime
  <2>. HIDE DEF t, c
  <2>. QED  BY <1>1, <1>2, <1>7, <1>9, <1>10
<1>. QED  BY <1>11, <1>12

(***************************************************************************)
(* policy_regret.py: the rows of the regret table count every run once.    *)
(***************************************************************************)
LEMMA RegretCounts ==
    ASSUME NEW df, IsFiniteSet(df)
    PROVE  MapThenSumSet(LAMBDA t : t.policy.runs, build_policy_regret_table(df)) = Cardinality(df)
<1> DEFINE D == build_policy_regret_table(df)
           Is(h) == h = [s \in SUBSET D |-> IF s = {} THEN 0
                             ELSE (CHOOSE x \in s : TRUE).policy.runs + h[s \ {CHOOSE x \in s : TRUE}]]
           fold == CHOOSE h : Is(h)
           Row(r) == RegretRow(df, PolicyOf(df, r))
<1>1. D = {Row(r) : r \in df}
  <2>1. D = {RegretRow(df, p) : p \in policy_means(df)}
    BY TableOfPolicies
  <2>2. policy_means(df) = {PolicyOf(df, r) : r \in df}
    BY PoliciesOfRuns
  <2>. HIDE DEF D
  <2>. QED  BY <2>1, <2>2
<1>2. MapThenSumSet(LAMBDA t : t.policy.runs, D) = fold[D]
  BY Zenon DEF MapThenSumSet, MapThenFoldSet
<1> HIDE DEF D
<1>3. \A r \in df : Row(r).policy = PolicyOf(df, r)
  BY DEF RegretRow
<1>4. \A r \in df : Row(r).policy.runs = Cardinality(PolicyGroup(df, r))
  BY <1>3 DEF PolicyOf
<1>5. \A r, q \in df : Row(r) = Row(q) <=> PolicyKey(df, r) = PolicyKey(df, q)
  <2>1. ASSUME NEW r \in df, NEW q \in df, PolicyKey(df, r) = PolicyKey(df, q) PROVE Row(r) = Row(q)
    <3>1. PolicyGroup(df, r) = PolicyGroup(df, q)
      BY <2>1 DEF PolicyGroup
    <3>2. PolicyOf(df, r) = PolicyOf(df, q)
      BY <2>1, <3>1 DEF PolicyOf, PolicyKey
    <3>. QED  BY <3>2
  <2>2. ASSUME NEW r \in df, NEW q \in df, Row(r) = Row(q)
        PROVE  PolicyKey(df, r) = PolicyKey(df, q)
    <3>1. PolicyOf(df, r) = PolicyOf(df, q)
      BY <1>3, <2>2
    <3>2. \A s : /\ PolicyOf(df, s).regime = regime_key(s, regime_columns(df))
                 /\ PolicyOf(df, s).policy = infer_policy(s)
                 /\ PolicyOf(df, s).router = s.router /\ PolicyOf(df, s).cache = s.cache
      BY DEF PolicyOf
    <3>. QED  BY <3>1, <3>2 DEF PolicyKey
  <2>. QED  BY <2>1, <2>2
<1> DEFINE key == [r \in df |-> PolicyKey(df, r)]
           row == [r \in df |-> Row(r)]
           w == [d \in D |-> d.policy.runs]
<1>6. Tabulates(df, key, D, row, w)
  <2>. HIDE DEF Row
  <2>1. row \in [df -> D] /\ \A d \in D : \E r \in df : row[r] = d
    BY <1>1
  <2>2. \A r, q \in df : row[r] = row[q] <=> key[r] = key[q]
    BY <1>5
  <2>3. ASSUME NEW r \in df PROVE w[row[r]] = Cardinality({q \in df : key[q] = key[r]})
    <3>1. {q \in df : key[q] = key[r]} = PolicyGroup(df, r)
      BY DEF PolicyGroup
    <3>2. w[row[r]] = Row(r).policy.runs
      BY <1>1
    <3>. QED  BY <1>4, <3>1, <3>2
  <2>4. w = [d \in D |-> w[d]]
    OBVIOUS
  <2>. HIDE DEF key, row, w
  <2>. QED  BY <2>1, <2>2, <2>3, <2>4 DEF Tabulates
<1>7. \A d \in D : w[d] = d.policy.runs
  OBVIOUS
<1> HIDE DEF key, row, w, Row
<1>8. IsFiniteSet(D) /\ w \in [D -> Nat] /\ (\A d \in D : w[d] > 0) /\ HasParts(w, D, df, row)
  BY <1>6, GroupsAddUp
<1>9. PICK g \in [SUBSET D -> Nat] : IsSum(g, D, w)
  BY <1>8, SumExists
<1>10. Is(g)
  <2>1. \A s \in SUBSET D : g[s] = IF s = {} THEN 0
                ELSE (CHOOSE x \in s : TRUE).policy.runs + g[s \ {CHOOSE x \in s : TRUE}]
    BY <1>7, <1>9 DEF IsSum
  <2>. QED  BY <2>1
<1>11. Is(fold)
  BY <1>10
<1>12. \A s \in SUBSET D : fold[s] = IF s = {} THEN 0
                ELSE (CHOOSE x \in s : TRUE).policy.runs + fold[s \ {CHOOSE x \in s : TRUE}]
  BY <1>11
<1> HIDE DEF fold
<1>13. IsSum(fold, D, w)
  BY <1>7, <1>12 DEF IsSum
<1>14. fold[D] = g[D]
  BY <1>8, <1>9, <1>13, SumIsUnique
<1>15. g[D] = Cardinality(df)
  <2>1. row \in [df -> D]
    BY <1>6 DEF Tabulates
  <2>. QED  BY <1>8, <1>9, <2>1, PartitionSum
<1>. QED  BY <1>2, <1>14, <1>15 DEF D

(***************************************************************************)
(* policy_regret.py: runs of one regime share the workload, the cache      *)
(* condition and the dimensions that both recorded, except the policy's.   *)
(***************************************************************************)
LEMMA RegimesAreAlike ==
    ASSUME Inv, ~report_raises, NEW r \in load_summaries, NEW q \in load_summaries,
           regime_key(r, regime_columns(load_summaries)) =
               regime_key(q, regime_columns(load_summaries))
    PROVE  /\ r.workload = q.workload
           /\ r.condition = q.condition
           /\ \A k \in (DOMAIN r.sweep \cap DOMAIN q.sweep) \ NonRegimeKeys : r.sweep[k] = q.sweep[k]
<1> DEFINE df == load_summaries
           columns == regime_columns(df)
<1>1. /\ "workload" \in columns
      /\ SweepKeys(df) \ NonRegimeKeys \subseteq columns
      /\ "cache_condition" \in columns \/ \A s \in df : s.condition = "warm"
  BY DEF regime_columns
<1>2. "cache_condition" \notin NonRegimeKeys /\ "workload" \in NonRegimeKeys
  BY DEF NonRegimeKeys
<1> HIDE DEF df, columns
<1>3. r \in df /\ q \in df /\ regime_key(r, columns) = regime_key(q, columns)
  BY DEF df, columns
<1>4. \A s : \A k \in columns : regime_key(s, columns)[k] =
          IF k = "workload" THEN s.workload
          ELSE IF k \in DOMAIN s.sweep THEN s.sweep[k]
          ELSE IF k = "cache_condition" THEN s.condition ELSE Unknown
  BY DEF regime_key
<1>5. r.workload = q.workload
  BY <1>1, <1>3, <1>4
<1>6. ASSUME NEW s \in {r, q}, "cache_condition" \in columns
      PROVE  regime_key(s, columns)["cache_condition"] = s.condition
  <2>1. ASSUME "cache_condition" \in DOMAIN s.sweep PROVE s.sweep["cache_condition"] = s.condition
    <3>1. s \in load_summaries /\ DOMAIN s.sweep # {}
      BY <2>1
    <3>2. /\ s.run_id \in Names /\ s.sweep = runs[s.run_id].sweep /\ ~runs[s.run_id].legacy
          /\ s.condition = IF runs[s.run_id].legacy THEN "warm" ELSE runs[s.run_id].condition
      BY <3>1, RowFacts
    <3>3. runs \in Suites
      BY DEF Inv, TypeInv
    <3>4. runs[s.run_id].sweep.cache_condition = runs[s.run_id].condition
      BY <2>1, <3>2, <3>3, ConditionAssumption DEF Names
    <3>. QED  BY <3>2, <3>4
  <2>. QED  BY <1>4, <1>6, <2>1
<1>7. r.condition = q.condition
  <2>1. CASE "cache_condition" \in columns
    BY <1>3, <1>6, <2>1
  <2>2. CASE \A s \in df : s.condition = "warm"
    BY <1>3, <2>2
  <2>. QED  BY <1>1, <2>1, <2>2
<1>8. ASSUME NEW k \in (DOMAIN r.sweep \cap DOMAIN q.sweep) \ NonRegimeKeys
      PROVE  r.sweep[k] = q.sweep[k]
  <2>1. k \in SweepKeys(df)
    BY <1>3 DEF SweepKeys
  <2>2. k \in columns /\ k # "workload"
    BY <1>1, <1>2, <2>1
  <2>3. regime_key(r, columns)[k] = r.sweep[k] /\ regime_key(q, columns)[k] = q.sweep[k]
    BY <1>4, <2>2
  <2>. QED  BY <1>3, <2>3
<1>. QED  BY <1>5, <1>7, <1>8

\* Whatever lies in the directories of attempted runs, the regret table of it is sound.
LEMMA InvCompares == Inv => RegretIsSound
<1> SUFFICES ASSUME Inv, ~report_raises PROVE RegretIsSound
  BY DEF RegretIsSound
<1> DEFINE df == load_summaries
           table == build_policy_regret_table(df)
           key(r) == regime_key(r, regime_columns(df))
<1>1. IsFiniteSet(df) /\ \A r \in df : r.qag \in Nat
  BY TableIsFinite, RowFacts
<1>2. MapThenSumSet(LAMBDA t : t.policy.runs, table) = Cardinality(df)
  <2>. HIDE DEF df
  <2>. QED  BY <1>1, RegretCounts
<1>3. \A t \in table :
         /\ t.regret.num >= 0
         /\ t.rank = 1 <=> t.regret.num = 0
         /\ t.baseline.regime = t.policy.regime
         /\ t.baseline_source = "oracle" => t.oracle_present
  <2>. HIDE DEF df
  <2>1. table = {RegretRow(df, p) : p \in policy_means(df)}
    BY TableOfPolicies
  <2>. HIDE DEF table
  <2>2. SUFFICES ASSUME NEW p \in policy_means(df)
                 PROVE  LET t == RegretRow(df, p)
                        IN  /\ t.regret.num >= 0
                            /\ t.rank = 1 <=> t.regret.num = 0
                            /\ t.baseline.regime = t.policy.regime
                            /\ t.baseline_source = "oracle" => t.oracle_present
    BY <2>1
  <2>. QED  BY <1>1, RowIsSound
<1>4. \A r, q \in df : key(r) = key(q) =>
         /\ r.workload = q.workload /\ r.condition = q.condition
         /\ \A k \in (DOMAIN r.sweep \cap DOMAIN q.sweep) \ NonRegimeKeys : r.sweep[k] = q.sweep[k]
  BY RegimesAreAlike
<1>. QED  BY Zenon, <1>2, <1>3, <1>4 DEF RegretIsSound

(***************************************************************************)
(* policy_regret.py: whatever attempts are made, killed or interrupted,    *)
(* the regret table compares like with like and with the best of them.     *)
(***************************************************************************)
THEOREM RegretIsAlwaysSound == Spec => []RegretIsSound
<1>1. Inv /\ [Next]_vars => Inv'
  BY NextKeepsInv
<1>2. QED
  BY InitInv, <1>1, InvCompares, PTL DEF Spec
-------------------------------------------------------------------------------
(***************************************************************************)
(* pareto.py: the walk over rows sorted by latency keeps those with more   *)
(* quality than every row before them.                                     *)
(***************************************************************************)
Sorted(s, df) ==
    /\ s \in [1 .. Cardinality(df) -> df]
    /\ \A i, j \in 1 .. Cardinality(df) : i # j => s[i] # s[j]
    /\ \A j \in 1 .. Cardinality(df) : \A i \in 1 .. j : frontier_order(s[i], s[j])

\* A finite frame whose metrics are numbers.
IsPoints(df) == IsFiniteSet(df) /\ \A r \in df : r.quality \in Nat /\ r.ttft \in Nat

\* sort_values sorts.
LEMMA OrderedIsSorted ==
    ASSUME NEW df, IsPoints(df)
    PROVE  Sorted(ordered(df), df)
<1> DEFINE R == {p \in df \X df : frontier_order(p[1], p[2])}
           Ok(s) == \A j \in DOMAIN s : \A i \in 1 .. j : frontier_order(s[i], s[j])
           n == Cardinality(df)
<1>1. \A x, y \in df : <<x, y>> \in R <=> frontier_order(x, y)
  OBVIOUS
<1>2. \A x \in df : x.quality \in Nat /\ x.ttft \in Nat
  BY DEF IsPoints
<1>3. IsPreorder(R, df)
  <2>1. \A x, y \in df : frontier_order(x, y) \/ frontier_order(y, x)
    BY <1>2 DEF frontier_order
  <2>2. \A x, y, z \in df : frontier_order(x, y) /\ frontier_order(y, z) => frontier_order(x, z)
    BY <1>2 DEF frontier_order
  <2>. HIDE DEF R
  <2>. QED  BY <1>1, <2>1, <2>2 DEF IsPreorder
<1> HIDE DEF R
<1>4. PICK s : Sorts(s, df, R)
  BY <1>3, SortedExists DEF IsPoints
<1>5. /\ s \in [1 .. n -> df]
      /\ \A i, j \in 1 .. n : i # j => s[i] # s[j]
      /\ \A j \in 1 .. n : \A i \in 1 .. j : <<s[i], s[j]>> \in R
  BY <1>4 DEF Sorts
<1>6. n \in Nat
  BY FS_CardinalityType DEF IsPoints
<1> HIDE DEF n
<1>7. \A j \in 1 .. n : \A i \in 1 .. j : frontier_order(s[i], s[j])
  <2>1. \A j \in 1 .. n : \A i \in 1 .. j : i \in 1 .. n /\ s[i] \in df /\ s[j] \in df
    BY <1>5, <1>6
  <2>. QED  BY <1>1, <1>5, <2>1
<1>8. s \in SetToSeqs(df) /\ Ok(s)
  BY <1>5, <1>7 DEF SetToSeqs, n
<1>9. ordered(df) = CHOOSE t \in SetToSeqs(df) : Ok(t)
  BY DEF ordered
<1> HIDE DEF Ok
<1>10. ordered(df) \in SetToSeqs(df) /\ Ok(ordered(df))
  BY <1>8, <1>9
<1> USE DEF Ok, n
<1>11. /\ ordered(df) \in [1 .. n -> df]
       /\ \A i, j \in 1 .. n : i # j => ordered(df)[i] # ordered(df)[j]
  BY <1>10 DEF SetToSeqs
<1>. QED  BY <1>10, <1>11 DEF Sorted

\* Every row is somewhere in the sorted frame.
LEMMA SortedIsAll ==
    ASSUME NEW df, IsFiniteSet(df), NEW s, Sorted(s, df)
    PROVE  \A r \in df : \E j \in 1 .. Cardinality(df) : s[j] = r
<1> DEFINE n == Cardinality(df)
<1>1. n \in Nat /\ IsFiniteSet(1 .. n) /\ Cardinality(1 .. n) = n
  <2>1. n \in Nat
    BY FS_CardinalityType
  <2>. HIDE DEF n
  <2>. QED  BY <2>1, FS_Interval
<1>2. s \in Injection(1 .. n, df)
  BY DEF Sorted, Injection, IsInjective
<1>3. s \in Surjection(1 .. n, df)
  BY <1>1, <1>2, FS_Injection
<1>. QED  BY <1>3 DEF Surjection

\* What the walk does with a row.
Keep(kept, r) ==
    IF r.quality > kept.best THEN [rows |-> kept.rows \union {r}, best |-> r.quality] ELSE kept

\* The walk, row by row: run[k] is what it has kept after k rows of s.
IsWalk(run, s, df) ==
    /\ run \in [0 .. Cardinality(df) -> [rows : SUBSET df, best : Int]]
    /\ run[0] = [rows |-> {}, best |-> -1]
    /\ \A k \in 1 .. Cardinality(df) : run[k] = Keep(run[k - 1], s[k])

\* pareto_frontier is such a walk.
LEMMA FrontierIsWalk ==
    ASSUME NEW df, IsPoints(df), NEW s, Sorted(s, df), s = ordered(df)
    PROVE  \E run : IsWalk(run, s, df) /\ pareto_frontier(df) = run[Cardinality(df)].rows
<1> DEFINE n == Cardinality(df)
           D == DOMAIN s
           x0 == [rows |-> {}, best |-> -1]
           X == [rows : SUBSET df, best : Int]
           Is(f) == f = [i \in SUBSET D |-> IF i = {} THEN x0
                                            ELSE Keep(f[i \ {Max(i)}], s[Max(i)])]
           fold == CHOOSE f : Is(f)
           G == [p \in (1 .. n) \X X |-> Keep(p[2], s[p[1]])]
<1>1. D = 1 .. n /\ n \in Nat /\ \A i \in 1 .. n : s[i] \in df /\ s[i].quality \in Nat
    BY FS_CardinalityType DEF Sorted, IsPoints
<1>2. pareto_frontier(df) = fold[D].rows
    BY Zenon DEF pareto_frontier, FoldLeft, MapThenFoldSet, Keep
<1>3. x0 \in X /\ \A r \in df, x \in X : r.quality \in Nat => Keep(x, r) \in X
    BY DEF Keep
<1> HIDE DEF n, D, x0, X
<1>4. \A i \in 1 .. n, x \in X : G[<<i, x>>] = Keep(x, s[i])
    OBVIOUS
<1> HIDE DEF G
<1>5. IsLeftFold(n, X, x0, G)
  <2>1. \A i \in 1 .. n, x \in X : Keep(x, s[i]) \in X
      BY <1>1, <1>3
  <2>. QED
      BY <1>1, <1>3, <1>4, <2>1 DEF IsLeftFold
<1>6. Is(fold)
  <2>1. PICK g \in [SUBSET (1 .. n) -> X] : SolvesLeft(g, n, x0, G)
      BY <1>5, FoldLeftRecursion
  <2>2. ASSUME NEW i \in SUBSET (1 .. n)
        PROVE  g[i] = IF i = {} THEN x0 ELSE Keep(g[i \ {Max(i)}], s[Max(i)])
    <3>1. g[i \ {Max(i)}] \in X
        OBVIOUS
    <3>2. i # {} => Max(i) \in 1 .. n
      <4>1. i \subseteq 0 .. n
        BY <1>1
      <4>. QED  BY <1>1, <4>1, MaxFacts
    <3>. QED
        BY <1>4, <2>1, <3>1, <3>2 DEF SolvesLeft
  <2>3. Is(g)
      BY <1>1, <2>2
  <2>. QED
      BY <2>3
<1>7. \A i \in SUBSET D : fold[i] = IF i = {} THEN x0 ELSE Keep(fold[i \ {Max(i)}], s[Max(i)])
    BY <1>6
<1> HIDE DEF fold
<1>8. fold[{}] = x0
    BY <1>7
<1>9. ASSUME NEW k \in 1 .. n, fold[1 .. (k - 1)] \in X
      PROVE  fold[1 .. k] = G[<<k, fold[1 .. (k - 1)]>>]
  <2>1. 1 .. k \in SUBSET D /\ 1 .. k # {} /\ Max(1 .. k) = k /\ (1 .. k) \ {k} = 1 .. (k - 1)
      BY <1>1, FoldLeftStep
  <2>2. fold[1 .. k] = Keep(fold[1 .. (k - 1)], s[k])
      BY <2>1, <1>7
  <2>. QED
      BY <2>2, <1>4, <1>9
<1>10. PICK run \in [0 .. n -> X] : IsRun(run, n, x0, G) /\ run[n] = fold[1 .. n]
    BY <1>5, <1>8, <1>9, FoldLeftRun
<1>11. \A k \in 1 .. n : run[k] = Keep(run[k - 1], s[k])
  <2>1. \A k \in 1 .. n : k - 1 \in 0 .. n /\ run[k - 1] \in X
      BY <1>1
  <2>. QED
      BY <2>1, <1>4, <1>10 DEF IsRun
<1>12. run[0] = x0
    BY <1>10 DEF IsRun
<1>13. IsWalk(run, s, df)
    BY <1>11, <1>12 DEF IsWalk, n, X, x0
<1>. QED
    BY <1>1, <1>2, <1>10, <1>13 DEF n

\* A row that is better than every row before it.
IsBest(s, j) == \A i \in 1 .. j - 1 : s[i].quality < s[j].quality

(***************************************************************************)
(* best is the quality of the best row so far, and the rows kept are those *)
(* that were the best when the walk reached them.                          *)
(***************************************************************************)
LEMMA WalkKeepsBest ==
    ASSUME NEW df, IsPoints(df), NEW s, Sorted(s, df), NEW run, IsWalk(run, s, df)
    PROVE  run[Cardinality(df)].rows = {s[j] : j \in {i \in 1 .. Cardinality(df) : IsBest(s, i)}}
<1> DEFINE n == Cardinality(df)
           Kept(k) == {s[j] : j \in {i \in 1 .. k : IsBest(s, i)}}
           Best(k) == /\ \A j \in 1 .. k : s[j].quality <= run[k].best
                      /\ run[k].best = -1 \/ \E j \in 1 .. k : s[j].quality = run[k].best
           P == {k \in 0 .. n : run[k].rows = Kept(k) /\ Best(k)}
<1>1. n \in Nat /\ \A i \in 1 .. n : s[i] \in df /\ s[i].quality \in Nat
    BY FS_CardinalityType DEF Sorted, IsPoints
<1>2. /\ \A k \in 0 .. n : run[k] \in [rows : SUBSET df, best : Int]
      /\ run[0] = [rows |-> {}, best |-> -1]
      /\ \A k \in 1 .. n : run[k] = Keep(run[k - 1], s[k])
    BY DEF IsWalk
<1> HIDE DEF n
<1>3. 0 \in P
  <2>1. 1 .. 0 = {}
    OBVIOUS
  <2>2. Kept(0) = {}
    BY <2>1
  <2>3. Best(0)
    BY <1>2, <2>1
  <2>. HIDE DEF Kept, Best
  <2>. QED  BY <1>1, <1>2, <2>2, <2>3
<1>4. ASSUME NEW k \in 1 .. n, k - 1 \in P PROVE k \in P
  <2>. DEFINE r == s[k]
              a == run[k - 1]
              b == run[k]
  <2>1. /\ r.quality \in Nat /\ a.best \in Int /\ b = Keep(a, r) /\ k \in Nat /\ k >= 1
        /\ a.rows = Kept(k - 1) /\ Best(k - 1)
    <3>1. k - 1 \in 0 .. n
      BY <1>1
    <3>2. k \in Nat /\ k >= 1
      BY <1>1
    <3>3. a.rows = Kept(k - 1) /\ Best(k - 1)
      BY <1>4
    <3>. QED  BY <1>1, <1>2, <3>1, <3>2, <3>3
  <2>2. /\ \A j \in 1 .. k : j = k \/ j \in 1 .. k - 1
        /\ \A j \in 1 .. k - 1 : j \in 1 .. k /\ j \in 1 .. n /\ s[j].quality \in Nat
        /\ k \in 1 .. k
    BY <1>1
  <2>3. IsBest(s, k) <=> r.quality > a.best
    <3>1. ASSUME r.quality > a.best, NEW j \in 1 .. k - 1 PROVE s[j].quality < r.quality
      <4>1. s[j].quality <= a.best
        BY <2>1
      <4>. HIDE DEF r, a
      <4>. QED  BY <2>1, <2>2, <3>1, <4>1
    <3>2. ASSUME IsBest(s, k) PROVE r.quality > a.best
      <4>1. CASE a.best = -1
        <5>. HIDE DEF r, a
        <5>. QED  BY <2>1, <4>1
      <4>2. CASE \E j \in 1 .. k - 1 : s[j].quality = a.best
        <5>1. PICK j \in 1 .. k - 1 : s[j].quality = a.best
          BY <4>2
        <5>2. s[j].quality < r.quality
          BY <3>2 DEF IsBest
        <5>. HIDE DEF r, a
        <5>. QED  BY <2>1, <2>2, <5>1, <5>2
      <4>. QED  BY <2>1, <4>1, <4>2
    <3>. QED  BY <3>1, <3>2 DEF IsBest
  <2>4. Kept(k) = IF IsBest(s, k) THEN Kept(k - 1) \union {r} ELSE Kept(k - 1)
    <3>1. CASE IsBest(s, k)
      <4>1. {i \in 1 .. k : IsBest(s, i)} = {i \in 1 .. k - 1 : IsBest(s, i)} \union {k}
        BY <2>2, <3>1
      <4>. QED  BY <3>1, <4>1
    <3>2. CASE ~IsBest(s, k)
      <4>1. {i \in 1 .. k : IsBest(s, i)} = {i \in 1 .. k - 1 : IsBest(s, i)}
        BY <2>2, <3>2
      <4>. QED  BY <3>2, <4>1
    <3>. QED  BY <3>1, <3>2
  <2>5. b.rows = Kept(k)
    <3>. HIDE DEF Kept, Best, r, a, b
    <3>. QED  BY <2>1, <2>3, <2>4 DEF Keep
  <2>6. b.best = IF r.quality > a.best THEN r.quality ELSE a.best
    <3>. HIDE DEF Kept, Best, r, a, b
    <3>. QED  BY <2>1 DEF Keep
  <2>7. \A j \in 1 .. k : s[j].quality <= b.best
    <3>1. ASSUME NEW j \in 1 .. k - 1 PROVE s[j].quality <= b.best
      <4>1. s[j].quality <= a.best
        BY <2>1
      <4>. HIDE DEF r, a, b, Kept, Best
      <4>. QED  BY <2>1, <2>2, <2>6, <4>1
    <3>2. r.quality <= b.best
      <4>. HIDE DEF r, a, b, Kept, Best
      <4>. QED  BY <2>1, <2>6
    <3>. QED  BY <2>2, <3>1, <3>2
  <2>8. b.best = -1 \/ \E j \in 1 .. k : s[j].quality = b.best
    <3>1. CASE r.quality > a.best
      BY <2>2, <2>6, <3>1
    <3>2. CASE ~(r.quality > a.best)
      <4>1. b.best = a.best
        BY <2>6, <3>2
      <4>. QED  BY <2>1, <2>2, <4>1
    <3>. QED  BY <3>1, <3>2
  <2>9. Best(k)
    BY <2>7, <2>8
  <2>. HIDE DEF Kept, Best
  <2>. QED  BY <2>5, <2>9, <1>1
<1> HIDE DEF P
<1>5. \A k \in 0 .. n : k \in P
  BY <1>1, <1>3, <1>4, InductionUpTo
<1>6. n \in P
  BY <1>1, <1>5
<1>. QED  BY <1>6 DEF P, n

\* The rows of one workload that no row of it dominates.
Undominated(df) == {r \in df : \A q \in df : ~Dominates(q, r)}

(***************************************************************************)
(* pareto.py: within a workload the rows kept are the undominated points;  *)
(* of rows with one point the first is kept.                               *)
(***************************************************************************)
LEMMA FrontierOfGroup ==
    ASSUME NEW df, IsPoints(df), \A r, q \in df : r.workload = q.workload
    PROVE  /\ pareto_frontier(df) \subseteq Undominated(df)
           /\ \A r \in Undominated(df) : \E q \in pareto_frontier(df) : Point(q) = Point(r)
<1> DEFINE n == Cardinality(df)
           s == ordered(df)
           Best == {s[j] : j \in {i \in 1 .. n : IsBest(s, i)}}
<1>1. Sorted(s, df)
  BY OrderedIsSorted
<1>2. pareto_frontier(df) = Best
  <2>. DEFINE t == ordered(df)
  <2>1. Sorted(t, df) /\ t = ordered(df)
    BY <1>1
  <2>. HIDE DEF t
  <2>2. PICK run : IsWalk(run, t, df) /\ pareto_frontier(df) = run[Cardinality(df)].rows
    BY <2>1, FrontierIsWalk
  <2>3. run[Cardinality(df)].rows = {t[j] : j \in {i \in 1 .. Cardinality(df) : IsBest(t, i)}}
    BY <2>1, <2>2, WalkKeepsBest
  <2>. QED  BY <2>2, <2>3 DEF t
<1> HIDE DEF s
<1>3. /\ n \in Nat
      /\ \A i \in 1 .. n : s[i] \in df
      /\ \A j \in 1 .. n : \A i \in 1 .. j : frontier_order(s[i], s[j])
  BY <1>1, FS_CardinalityType DEF Sorted, IsPoints
<1>4. \A r \in df : \E j \in 1 .. n : s[j] = r
  BY <1>1, SortedIsAll DEF IsPoints
<1>5. \A r \in df : r.quality \in Nat /\ r.ttft \in Nat
  BY DEF IsPoints
<1> HIDE DEF n, Best
<1>6. ASSUME NEW j \in 1 .. n, IsBest(s, j), NEW q \in df, Dominates(q, s[j]) PROVE FALSE
  <2>1. PICK i \in 1 .. n : s[i] = q
    BY <1>4
  <2>2. s[j] \in df
    BY <1>3
  <2>3. CASE i \in 1 .. j - 1
    <3>1. s[i].quality < s[j].quality
      BY <1>6, <2>3 DEF IsBest
    <3>. QED  BY <1>5, <1>6, <2>1, <2>2, <3>1 DEF Dominates
  <2>4. CASE j \in 1 .. i
    <3>1. frontier_order(s[j], q)
      BY <1>3, <2>1, <2>4
    <3>. QED  BY <1>5, <1>6, <2>2, <3>1 DEF Dominates, frontier_order
  <2>5. i \in 1 .. j - 1 \/ j \in 1 .. i
    BY <1>3
  <2>. QED  BY <2>3, <2>4, <2>5
<1>7. pareto_frontier(df) \subseteq Undominated(df)
  BY <1>2, <1>3, <1>6 DEF Undominated, Best
<1>8. ASSUME NEW r \in Undominated(df) PROVE \E q \in pareto_frontier(df) : Point(q) = Point(r)
  <2>. DEFINE Same == {j \in 1 .. n : s[j].ttft = r.ttft /\ s[j].quality = r.quality}
  <2>1. r \in df /\ \A q \in df : ~Dominates(q, r)
    BY DEF Undominated
  <2>2. Same \subseteq Nat /\ Same # {}
    <3>1. PICK j \in 1 .. n : s[j] = r
      BY <1>4, <2>1
    <3>. QED  BY <3>1
  <2>3. PICK j \in Same : \A i \in Same : j <= i
    <3>. HIDE DEF Same
    <3>. QED  BY <2>2, LeastElement
  <2>4. /\ j \in 1 .. n /\ s[j] \in df /\ s[j].ttft = r.ttft /\ s[j].quality = r.quality
        /\ r.ttft \in Nat /\ r.quality \in Nat
    BY <1>3, <1>5, <2>1, <2>3
  <2>5. ASSUME NEW i \in 1 .. j - 1 PROVE s[i].quality < s[j].quality
    <3>1. i \in 1 .. n /\ i \in 1 .. j /\ ~(j <= i)
      BY <1>3, <2>4
    <3>2. i \notin Same
      BY <2>3, <3>1
    <3>3. /\ s[i] \in df /\ s[i].ttft \in Nat /\ s[i].quality \in Nat
          /\ frontier_order(s[i], s[j]) /\ ~Dominates(s[i], r)
          /\ ~(s[i].ttft = r.ttft /\ s[i].quality = r.quality)
      BY <1>3, <1>5, <2>1, <2>4, <3>1, <3>2
    <3>. QED  BY <2>4, <3>3 DEF Dominates, frontier_order
  <2>6. s[j] \in pareto_frontier(df)
    BY <1>2, <2>4, <2>5 DEF IsBest, Best
  <2>7. Point(s[j]) = Point(r)
    BY <2>1, <2>4 DEF Point
  <2>. QED  BY <2>6, <2>7
<1>. QED  BY <1>7, <1>8

\* Row by row: each group's frontier is that of its workload.
LEMMA FrontierOfTable ==
    ASSUME NEW df, IsPoints(df)
    PROVE  LET undominated == {s \in df : \A q \in df : q.workload = s.workload => ~Dominates(q, s)}
           IN  /\ workload_pareto_frontiers(df) \subseteq undominated
               /\ \A r \in undominated :
                      \E q \in workload_pareto_frontiers(df) : Point(q) = Point(r)
<1> DEFINE undominated == {s \in df : \A q \in df : q.workload = s.workload => ~Dominates(q, s)}
           Group(r) == {q \in df : q.workload = r.workload}
<1>1. workload_pareto_frontiers(df) = UNION {pareto_frontier(Group(r)) : r \in df}
  <2>1. GroupBy(df, LAMBDA r : r.workload) =
            {{r \in df : r.workload = k} : k \in {r.workload : r \in df}}
    BY Zenon DEF GroupBy
  <2>2. {{r \in df : r.workload = k} : k \in {r.workload : r \in df}} = {Group(r) : r \in df}
    OBVIOUS
  <2>3. workload_pareto_frontiers(df) =
            UNION {pareto_frontier(group) : group \in GroupBy(df, LAMBDA r : r.workload)}
    BY Zenon DEF workload_pareto_frontiers
  <2>. DEFINE groups == GroupBy(df, LAMBDA r : r.workload)
  <2>4. groups = {Group(r) : r \in df} /\ workload_pareto_frontiers(df) = UNION {pareto_frontier(g) : g \in groups}
    BY Zenon, <2>1, <2>2, <2>3
  <2>. HIDE DEF groups, Group
  <2>. QED  BY <2>4
<1>2. ASSUME NEW r \in df
      PROVE  /\ pareto_frontier(Group(r)) \subseteq Undominated(Group(r))
             /\ \A p \in Undominated(Group(r)) : \E q \in pareto_frontier(Group(r)) : Point(q) = Point(p)
  <2>. DEFINE g == Group(r)
  <2>1. g \subseteq df
    OBVIOUS
  <2>2. \A p, q \in g : p.workload = q.workload
    OBVIOUS
  <2>. HIDE DEF g
  <2>3. IsPoints(g)
    BY <2>1, FS_Subset DEF IsPoints
  <2>4. /\ pareto_frontier(g) \subseteq Undominated(g)
        /\ \A p \in Undominated(g) : \E q \in pareto_frontier(g) : Point(q) = Point(p)
    BY <2>2, <2>3, FrontierOfGroup
  <2>. QED  BY <2>4 DEF g
<1>3. ASSUME NEW r \in df PROVE Undominated(Group(r)) \subseteq undominated
  BY DEF Undominated
<1>4. ASSUME NEW r \in undominated PROVE r \in df /\ r \in Undominated(Group(r))
  BY DEF Undominated
<1> HIDE DEF Group, undominated
<1>5. workload_pareto_frontiers(df) \subseteq undominated
  BY <1>1, <1>2, <1>3
<1>6. \A r \in undominated : \E q \in workload_pareto_frontiers(df) : Point(q) = Point(r)
  BY <1>1, <1>2, <1>4
<1>. QED  BY <1>5, <1>6 DEF undominated

\* The invariant implies that the frontier is one.
LEMMA InvFrontier == Inv => ParetoIsFrontier
<1> SUFFICES ASSUME Inv, ~report_raises PROVE ParetoIsFrontier
  BY DEF ParetoIsFrontier
<1> DEFINE df == load_summaries
           undominated == {s \in df : \A q \in df : q.workload = s.workload => ~Dominates(q, s)}
           kept == workload_pareto_frontiers(df)
<1>1. IsPoints(df)
  BY TableIsFinite, RowFacts DEF IsPoints
<1>2. /\ kept \subseteq undominated
      /\ \A r \in undominated : \E q \in kept : Point(q) = Point(r)
  <2>. HIDE DEF df
  <2>. QED  BY <1>1, FrontierOfTable
<1> HIDE DEF df, undominated, kept
<1>3. {Point(r) : r \in kept} = {Point(r) : r \in undominated}
  BY <1>2
<1>. QED  BY <1>3 DEF ParetoIsFrontier, df, undominated, kept

(***************************************************************************)
(* pareto.py: whatever attempts are made, killed or interrupted, the rows  *)
(* that the report calls the frontier are the undominated points.          *)
(***************************************************************************)
THEOREM ParetoIsAlwaysFrontier == Spec => []ParetoIsFrontier
<1>1. Inv /\ [Next]_vars => Inv'
  BY NextKeepsInv
<1>2. QED
  BY InitInv, <1>1, InvFrontier, PTL DEF Spec
===============================================================================
