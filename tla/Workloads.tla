----------------------------- MODULE Workloads -----------------------------
(***************************************************************************)
(* generate_workload (workloads/generator.py): the request list of a run,  *)
(* one request at a time, and the structure metrics of the list            *)
(* (bench/workload_metrics.py).  A draw of the seeded generator is any of  *)
(* its outcomes; a shuffled list is drawn from while its bag of elements   *)
(* lasts, which gives the same lists.                                      *)
(*                                                                         *)
(* A prompt is a sequence of segments, each a stretch of words that two    *)
(* prompts have in common as a whole or not at all.                        *)
(*                                                                         *)
(* An operator named X_Fault is X with a fault a programmer could make; no *)
(* specification uses it.                                                  *)
(***************************************************************************)
EXTENDS Integers, Sequences, FiniteSets, FiniteSetsExt

\* The names that generate_workload knows.
WorkloadNames ==
    {"regime_uniform", "regime_zipfian", "regime_phase_shift", "regime_bursty_session",
     "regime_adversarial_churn", "jsonl_eval", "shared_doc_qa", "mixed_tasks_same_doc",
     "agent_session", "low_overlap_control", "controlled_overlap", "prompt_layout_ablation"}

CONSTANTS
    Shapes,             \* the workload names
    Count,              \* request_count
    Docs,               \* shared_document_count
    Sessions,           \* sessions
    Tenants,            \* tenants
    BurstLengths,       \* the lengths of a burst, 4 .. 8 in the code
    Rows,               \* the rows of the data set of jsonl_eval
    SharedTokens,       \* tokens of the shared prefix of controlled_overlap
    DocTokens           \* document_tokens

ASSUME WorkloadAssumption ==
    /\ Shapes \subseteq WorkloadNames
    /\ Count \in Nat /\ Docs \in Nat \ {0} /\ Sessions \in Nat \ {0} /\ Tenants \in Nat \ {0}
    /\ BurstLengths \subseteq Nat \ {0} /\ BurstLengths # {}
    /\ DocTokens \in Nat /\ SharedTokens \in 0 .. DocTokens
    /\ Len(Rows) \in Nat

VARIABLES
    shape,              \* the workload of the run
    stream,             \* the requests generated so far
    drawn               \* what is left of the lists that the generator drew

REGIME_TASKS == <<"qa", "json", "summary", "code">>
Tasks == {"qa", "json", "summary", "code"}

expected_adapter_for_task(task) == IF task \in Tasks THEN task ELSE "multitask"

\* max(4, shared_document_count), max(request_count, shared_document_count, 1)
phase_docs == IF Docs < 4 THEN 4 ELSE Docs
midpoint == Count \div 2

churn_docs == IF Count < Docs THEN Docs ELSE IF Count < 1 THEN 1 ELSE Count

-----------------------------------------------------------------------------
(* Prompts *)

\* prompt_for: the invocation and the instruction of a task are one segment.
prompt_for(adapter, document, i, layout) ==
    LET task == <<<<"task", adapter>>, <<"question", i>>>>
    IN  IF layout = "document_before_instruction" THEN document \o task ELSE task \o document

\* The words of a segment: 10 for an invocation, its instruction and "Task:".
size(segment) ==
    CASE segment[1] = "document" -> DocTokens
      [] segment[1] = "half"     -> DocTokens \div 2
      [] segment[1] = "shared"   -> SharedTokens
      [] segment[1] = "unique"   -> DocTokens - SharedTokens
      [] segment[1] = "task"     -> 10
      [] segment[1] \in {"question", "trace"} -> 8

\* What _base_fields sets, with the fields that the callers add to it.
record(i, task, doc, session, document, layout) ==
    [i |-> i, session |-> session,
     tenant |-> i % Tenants, trust |-> (i \div 2) % Tenants,
     task |-> task, prefix |-> doc, expected |-> expected_adapter_for_task(task),
     layout |-> layout,
     prompt |-> prompt_for(expected_adapter_for_task(task), document, i, layout)]

\* The documents that are made once, by their number.
shared_document(d) == <<<<"document", d>>>>

first_document == "document_before_instruction"
first_instruction == "instruction_before_document"

-----------------------------------------------------------------------------
(* Draws.  [request, left]: the next request and what is left to draw.     *)

\* The bag of i % n for i below the request count, as of a list to shuffle.
balanced(n) == [k \in 0 .. n - 1 |-> Cardinality({i \in 0 .. Count - 1 : i % n = k})]
take(bag, k) == [bag EXCEPT ![k] = @ - 1]
available(bag) == {k \in DOMAIN bag : bag[k] > 0}

\* The blocks of _weighted_task_sequence, each shuffled on its own.
zipfian_block == [qa |-> 12, json |-> 6, summary |-> 3, code |-> 1]
phase_block(i) == IF i < midpoint THEN [qa |-> 6, json |-> 4, summary |-> 1]
                                  ELSE [code |-> 6, summary |-> 4, json |-> 1]
\* A task is drawn from the whole block every time.
refilled_Always(bag, block) == block

refilled(bag, block) == IF available(bag) = {} THEN block ELSE bag

Permutations_of(n) == {p \in [0 .. n - 1 -> 0 .. n - 1] : \A j, k \in 0 .. n - 1 :
                                                              j # k => p[j] # p[k]}

\* What the generator draws before its first request.
initial_draws(name) ==
    CASE name = "regime_uniform" ->
            {[tasks |-> balanced(4), docs |-> balanced(Docs)]}
      [] name = "regime_zipfian" -> {[tasks |-> zipfian_block]}
      [] name = "regime_phase_shift" -> {[tasks |-> phase_block(0)]}
      [] name = "regime_bursty_session" ->
            {[order |-> p, burst |-> 0, length |-> 0, turn |-> 0, offset |-> 0]
                : p \in Permutations_of(Sessions)}
      [] name = "regime_adversarial_churn" ->
            {[order |-> p, doc |-> d, session |-> s] :
                p \in Permutations_of(4), d \in 0 .. churn_docs - 1, s \in 0 .. Sessions - 1}
      [] OTHER -> {<<>>}

regime_uniform(i) ==
    {[request |-> record(i, REGIME_TASKS[t + 1], d, s, shared_document(d), first_document),
      left    |-> [tasks |-> take(drawn.tasks, t), docs |-> take(drawn.docs, d)]] :
        t \in available(drawn.tasks), d \in available(drawn.docs), s \in 0 .. Sessions - 1}

regime_zipfian(i) ==
    LET bag == refilled(drawn.tasks, zipfian_block)
        hot == IF Sessions < 3 THEN Sessions ELSE 3
    IN  {[request |-> record(i, t, d, s, shared_document(d), first_document),
          left    |-> [tasks |-> take(bag, t)]] :
            t \in available(bag), d \in 0 .. Docs - 1, s \in 0 .. hot - 1}

regime_phase_shift(i) ==
    LET bag  == IF i = midpoint THEN phase_block(i) ELSE refilled(drawn.tasks, phase_block(i))
        docs == IF i < midpoint THEN 0 .. (phase_docs \div 2) - 1
                                ELSE phase_docs \div 2 .. phase_docs - 1
    IN  {[request |-> record(i, t, d, i % Sessions, shared_document(d), first_document),
          left    |-> [tasks |-> take(bag, t)]] : t \in available(bag), d \in docs}

\* A burst stays with its session and document, and goes round the tasks.
in_burst(i, b) ==
    LET session == b.order[b.burst % Sessions]
        doc     == (session + b.burst) % Docs
        last    == b.turn + 1 = b.length
    IN  [request |-> record(i, REGIME_TASKS[((b.offset + b.turn) % 4) + 1], doc, session,
                            shared_document(doc), first_document),
         left    |-> [b EXCEPT !.turn   = IF last THEN 0 ELSE @ + 1,
                               !.length = IF last THEN 0 ELSE @,
                               !.burst  = IF last THEN @ + 1 ELSE @]]

begin_burst(i, n, offset) ==
    [drawn EXCEPT !.length = IF Count - i < n THEN Count - i ELSE n, !.offset = offset]

regime_bursty_session(i) ==
    IF drawn.turn > 0 THEN {in_burst(i, drawn)}
    ELSE {in_burst(i, begin_burst(i, n, o)) : n \in BurstLengths, o \in 0 .. 3}

regime_adversarial_churn(i) ==
    LET doc == (drawn.doc + i) % churn_docs
    IN  {[request |-> record(i, REGIME_TASKS[drawn.order[i % 4] + 1], doc,
                             (drawn.session + i) % Sessions, shared_document(doc),
                             IF i % 2 = 1 THEN first_instruction ELSE first_document),
          left    |-> drawn]}

\* The session's history is the trace of each of its turns so far.
session_trace(i) ==
    [k \in 1 .. (i \div Sessions) + 1 |-> <<"trace", (i % Sessions) + (k - 1) * Sessions>>]

jsonl_eval(i) ==
    LET row      == Rows[i + 1]
        expected == IF row.expected = "" THEN expected_adapter_for_task(row.task)
                                         ELSE row.expected
        base     == record(i, row.task, row.doc, row.session,
                           shared_document(row.doc), first_document)
    IN  {[request |-> [base EXCEPT !.tenant = row.tenant, !.trust = row.trust,
                                   !.expected = expected,
                                   !.prompt = prompt_for(expected, shared_document(row.doc),
                                                         i, first_document)],
          left    |-> drawn]}

\* The workloads in which only the documents are random, and every one is new.
fixed_request(i) ==
    LET task == REGIME_TASKS[(i % 4) + 1]
        session == i % Sessions
    IN  CASE shape = "shared_doc_qa" ->
                record(i, "qa", i % Docs, session, shared_document(i % Docs), first_document)
          [] shape = "mixed_tasks_same_doc" ->
                record(i, task, 0, session, shared_document(0), first_document)
          [] shape = "agent_session" ->
                record(i, REGIME_TASKS[(i % 3) + 1], 0, session,
                       <<<<"half", 0>>>> \o session_trace(i), first_document)
          [] shape = "low_overlap_control" ->
                record(i, task, i, session, shared_document(i), first_instruction)
          [] shape = "controlled_overlap" ->
                record(i, task, i, session,
                       <<<<"shared", 0>>, <<"unique", i>>>>, first_document)
          [] shape = "prompt_layout_ablation" ->
                record(i, REGIME_TASKS[(i % 2) + 1], 0, session, shared_document(0),
                       IF i % 2 = 0 THEN first_instruction ELSE first_document)

next_requests(i) ==
    CASE shape = "regime_uniform"           -> regime_uniform(i)
      [] shape = "regime_zipfian"           -> regime_zipfian(i)
      [] shape = "regime_phase_shift"       -> regime_phase_shift(i)
      [] shape = "regime_bursty_session"    -> regime_bursty_session(i)
      [] shape = "regime_adversarial_churn" -> regime_adversarial_churn(i)
      [] shape = "jsonl_eval"               -> jsonl_eval(i)
      [] OTHER -> {[request |-> fixed_request(i), left |-> drawn]}

\* jsonl_eval ends with its data set.
planned_request_count ==
    IF shape = "jsonl_eval" /\ Len(Rows) < Count THEN Len(Rows) ELSE Count

WorkloadInit ==
    /\ shape \in Shapes
    /\ stream = <<>>
    /\ drawn \in initial_draws(shape)

Generate ==
    /\ Len(stream) < planned_request_count
    /\ \E next \in next_requests(Len(stream)) :
            /\ stream' = Append(stream, next.request)
            /\ drawn' = next.left
    /\ UNCHANGED shape

-----------------------------------------------------------------------------
(* compute_workload_structure_metrics: the numerators of the ratios.       *)

transitions(s) == 2 .. Len(s)

\* _switch_rate, over the expected adapters
switches(s) == Cardinality({k \in transitions(s) : s[k].expected # s[k - 1].expected})

\* _session_locality
same_session_transitions(s) ==
    Cardinality({k \in transitions(s) : s[k].session = s[k - 1].session})

\* _shared_prefix_reuse_ratio
reusable(s) == Cardinality({k \in DOMAIN s : \E j \in 1 .. k - 1 : s[j].prefix = s[k].prefix})

\* _mean_reuse_distance: the requests between a use of an adapter and the next.
previous_use(s, k) == {j \in 1 .. k - 1 : s[j].expected = s[k].expected}
reuse_distances(s) ==
    MapThenSumSet(LAMBDA k : k - Max(previous_use(s, k)) - 1,
                  {k \in DOMAIN s : previous_use(s, k) # {}})
=============================================================================
