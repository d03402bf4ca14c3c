---------------------------- MODULE ConcurrentRun ----------------------------
(***************************************************************************)
(* The asyncio runner, bench/run_concurrent.py: one task per request, all  *)
(* of them admitted through a semaphore, each one routed at the moment it  *)
(* is admitted, and one main coroutine that writes a row per finished task *)
(* and then the summary and the verdict.                                   *)
(*                                                                         *)
(* A worker is split where it awaits: between two awaits of the same task  *)
(* the event loop runs nothing else, so each action is one such stretch.   *)
(* The backend is the vLLM client, whose coroutine estimates the cached    *)
(* prefix when it is called, awaits the response, shows the request to the *)
(* cache model and may await once more while its client closes.            *)
(*                                                                         *)
(* An operator named X_Fault is X with a fault a programmer could make; no *)
(* specification uses it.  Each property below fails when its X_Fault      *)
(* takes the place of X.                                                   *)
(***************************************************************************)
EXTENDS RunDirectory

CONSTANTS
    Requests,           \* the requests of the generated workload
    Sessions,           \* the session ids of the workload
    SessionOf,          \* SessionOf[r]: request.session_id
    MaxConcurrency,     \* config.backend.max_concurrency
    NoAdapter           \* stands for "no decision" and "no adapter yet"

ASSUME RequestsAssumption    == IsFiniteSet(Requests)
ASSUME SessionsAssumption    == SessionOf \in [Requests -> Sessions]
ASSUME ConcurrencyAssumption == MaxConcurrency \in Nat
ASSUME NoAdapterAssumption   == NoAdapter \notin Adapters

VARIABLES
    phase,              \* phase[r]: where the worker of request r is
    outcome,            \* outcome[r]: what the worker of r returned
    permits,            \* the value of the semaphore
    session_adapter,    \* SessionState.session_adapter
    observed,           \* the requests the cache model has observed, in order
    cache_view,         \* cache_view[r]: how many of them r's estimate saw
    done                \* finished tasks as_completed has not yielded yet

mainVars    == <<main, rows, summary_file, status_file, interrupted>>
workerVars  == <<phase, decision, outcome, done>>
sharedVars  == <<permits, adapter_load, session_adapter>>
cacheVars   == <<observed, cache_view>>
vars        == <<mainVars, workerVars, sharedVars, cacheVars>>

(***************************************************************************)
(* The steps of the main coroutine.  It holds the event loop throughout,   *)
(* except in "serving", where it awaits the next finished task.            *)
(***************************************************************************)
MainSteps == {"setup", "serving", "summary", "judge", "report", "over"}

(***************************************************************************)
(* A worker is created, queues for the semaphore, is in flight at the      *)
(* backend, has its response and waits for the client to close, and has    *)
(* returned; or the loop cancelled it.                                     *)
(***************************************************************************)
Phases == {"created", "queued", "inflight", "responded", "returned", "cancelled"}

Holding  == {"inflight", "responded"}
InFlight == {r \in Requests : phase[r] \in Holding}
OnAdapter(a) == {r \in InFlight : decision[r] = a}

\* asyncio.Semaphore(max(1, config.backend.max_concurrency))
PermitLimit == IF MaxConcurrency < 1 THEN 1 ELSE MaxConcurrency

Recorded == {rows[i] : i \in 1 .. Len(rows)}
Failed   == {r \in Recorded : outcome[r] = "error"}

TypeOK ==
    /\ main \in MainSteps
    /\ phase \in [Requests -> Phases]
    /\ decision \in [Requests -> Adapters \cup {NoAdapter}]
    /\ outcome \in [Requests -> {"none", "ok", "error"}]
    /\ permits \in 0 .. PermitLimit
    /\ adapter_load \in [Adapters -> Nat]
    /\ session_adapter \in [Sessions -> Adapters \cup {NoAdapter}]
    /\ observed \in Seq(Requests)
    /\ cache_view \in [Requests -> Nat]
    /\ done \in Seq(Requests)
    /\ rows \in Seq(Requests)
    /\ summary_file \in {"absent", "stale", "fresh", "torn"}
    /\ status_file \in {"running", "complete", "failed"}
    /\ interrupted \in BOOLEAN

(***************************************************************************)
(* RunState.initialize has run: status.json says "running".  The run       *)
(* directory is created with exist_ok, so a summary of an earlier attempt  *)
(* may be in it.                                                           *)
(***************************************************************************)
Init ==
    /\ main = "setup"
    /\ phase = [r \in Requests |-> "created"]
    /\ decision = [r \in Requests |-> NoAdapter]
    /\ outcome = [r \in Requests |-> "none"]
    /\ permits = PermitLimit
    /\ adapter_load = [a \in Adapters |-> 0]
    /\ session_adapter = [s \in Sessions |-> NoAdapter]
    /\ observed = <<>>
    /\ cache_view = [r \in Requests |-> 0]
    /\ done = <<>>
    /\ rows = <<>>
    /\ summary_file \in {"absent", "stale"}
    /\ status_file = "running"
    /\ interrupted = FALSE
------------------------------------------------------------------------------
(***************************************************************************)
(* SessionState.                                                           *)
(***************************************************************************)
remember(r, a) == [session_adapter EXCEPT ![SessionOf[r]] = a]
------------------------------------------------------------------------------
(***************************************************************************)
(* The worker of one request.                                              *)
(***************************************************************************)
\* Routes the whole workload before admission.
Arrive_Routes(r) ==
    /\ main # "setup"
    /\ phase[r] = "created"
    /\ phase' = [phase EXCEPT ![r] = "queued"]
    /\ \E a \in Adapters : decision' = [decision EXCEPT ![r] = a]
    /\ UNCHANGED <<mainVars, outcome, done, sharedVars, cacheVars>>

(***************************************************************************)
(* The worker starts, sleeps for its spacing and asks for the semaphore.   *)
(***************************************************************************)
Arrive(r) ==
    /\ main # "setup"
    /\ phase[r] = "created"
    /\ phase' = [phase EXCEPT ![r] = "queued"]
    /\ UNCHANGED <<mainVars, decision, outcome, done, sharedVars, cacheVars>>

\* Is admitted without waiting for a permit.
Dispatch_Barges(r, a) ==
    /\ phase[r] = "queued"
    /\ permits' = IF permits > 0 THEN permits - 1 ELSE 0
    /\ decision' = [decision EXCEPT ![r] = a]
    /\ session_adapter' = remember(r, a)
    /\ adapter_load' = begin_dispatch(a)
    /\ cache_view' = [cache_view EXCEPT ![r] = Len(observed)]
    /\ phase' = [phase EXCEPT ![r] = "inflight"]
    /\ UNCHANGED <<mainVars, outcome, done, observed>>

(***************************************************************************)
(* The semaphore admits the worker, which routes the request, counts it in *)
(* flight, asks the cache model for the cached prefix and sends the        *)
(* request, with no await in between.  Any adapter may be chosen: what     *)
(* holds here holds for every policy.  Any queued worker may be admitted:  *)
(* what holds here does not depend on the fairness of the semaphore.       *)
(***************************************************************************)
Dispatch(r, a) ==
    /\ phase[r] = "queued"
    /\ permits > 0
    /\ permits' = permits - 1
    /\ decision' = [decision EXCEPT ![r] = a]
    /\ session_adapter' = remember(r, a)
    /\ adapter_load' = begin_dispatch(a)
    /\ cache_view' = [cache_view EXCEPT ![r] = Len(observed)]
    /\ phase' = [phase EXCEPT ![r] = "inflight"]
    /\ UNCHANGED <<mainVars, outcome, done, observed>>

\* Leaves with the permit it took.
RouteFails_KeepsPermit(r) ==
    /\ phase[r] = "queued"
    /\ permits > 0
    /\ permits' = permits - 1
    /\ phase' = [phase EXCEPT ![r] = "returned"]
    /\ outcome' = [outcome EXCEPT ![r] = "error"]
    /\ done' = Append(done, r)
    /\ UNCHANGED <<mainVars, decision, adapter_load, session_adapter, cacheVars>>

(***************************************************************************)
(* The policy raises: nothing was counted in flight, the permit goes back  *)
(* in the same step and the worker returns the exception without a         *)
(* decision.                                                               *)
(***************************************************************************)
RouteFails(r) ==
    /\ phase[r] = "queued"
    /\ permits > 0
    /\ phase' = [phase EXCEPT ![r] = "returned"]
    /\ outcome' = [outcome EXCEPT ![r] = "error"]
    /\ done' = Append(done, r)
    /\ UNCHANGED <<mainVars, decision, sharedVars, cacheVars>>

\* Builds a response the cache model never sees.
Respond_Unobserved(r) ==
    /\ phase[r] = "inflight"
    /\ phase' = [phase EXCEPT ![r] = "responded"]
    /\ UNCHANGED <<mainVars, decision, outcome, done, sharedVars, cacheVars>>

(***************************************************************************)
(* The response is here: build_response shows the request to the cache     *)
(* model, and the worker waits for its HTTP client to close.               *)
(***************************************************************************)
Respond(r) ==
    /\ phase[r] = "inflight"
    /\ observed' = Append(observed, r)
    /\ phase' = [phase EXCEPT ![r] = "responded"]
    /\ UNCHANGED <<mainVars, decision, outcome, done, sharedVars, cache_view>>

(***************************************************************************)
(* What leaving the inner try and the semaphore does, on every way out.    *)
(***************************************************************************)
Release(r) ==
    /\ adapter_load' = end_dispatch(decision[r])
    /\ permits' = permits + 1
    /\ UNCHANGED session_adapter

Finish(r, o) ==
    /\ Release(r)
    /\ phase' = [phase EXCEPT ![r] = "returned"]
    /\ outcome' = [outcome EXCEPT ![r] = o]
    /\ done' = Append(done, r)
    /\ UNCHANGED <<mainVars, decision, cacheVars>>

Return(r) == phase[r] = "responded" /\ Finish(r, "ok")

\* The exception escapes the worker: no result ever reaches the main coroutine.
RequestFails_Escapes(r) ==
    /\ phase[r] \in Holding
    /\ Release(r)
    /\ phase' = [phase EXCEPT ![r] = "returned"]
    /\ outcome' = [outcome EXCEPT ![r] = "error"]
    /\ UNCHANGED <<mainVars, decision, done, cacheVars>>

(***************************************************************************)
(* The request times out or is refused, its answer cannot be read, or the  *)
(* client cannot be closed after the cache model saw the request.          *)
(***************************************************************************)
RequestFails(r) == phase[r] \in Holding /\ Finish(r, "error")

(***************************************************************************)
(* The main coroutine is over and asyncio.run cancels what is left: the    *)
(* finally clauses run, and no result is kept.                             *)
(***************************************************************************)
Cancel(r) ==
    /\ main = "over"
    /\ phase[r] \in {"created", "queued"} \cup Holding
    /\ phase' = [phase EXCEPT ![r] = "cancelled"]
    /\ IF phase[r] \in Holding THEN Release(r) ELSE UNCHANGED sharedVars
    /\ UNCHANGED <<mainVars, decision, outcome, done, cacheVars>>
------------------------------------------------------------------------------
(***************************************************************************)
(* The main coroutine.                                                     *)
(***************************************************************************)
(***************************************************************************)
(* The server, the cache model, the router and the backend are ready; the  *)
(* tasks are created and requests.jsonl is opened for writing, which drops *)
(* the rows of an earlier attempt.                                         *)
(***************************************************************************)
StartServing ==
    /\ main = "setup"
    /\ main' = "serving"
    /\ UNCHANGED <<rows, summary_file, status_file, interrupted,
                   workerVars, sharedVars, cacheVars>>

\* Takes one finished task and forgets the others.
WriteRow_DrainsAll ==
    /\ main = "serving"
    /\ done # <<>>
    /\ rows' = Append(rows, Head(done))
    /\ done' = <<>>
    /\ UNCHANGED <<main, summary_file, status_file, interrupted,
                   phase, decision, outcome, sharedVars, cacheVars>>

(***************************************************************************)
(* as_completed yields the task that finished first of those it has not    *)
(* yielded, and its row is written.                                        *)
(***************************************************************************)
WriteRow ==
    /\ main = "serving"
    /\ done # <<>>
    /\ rows' = Append(rows, Head(done))
    /\ done' = Tail(done)
    /\ UNCHANGED <<main, summary_file, status_file, interrupted,
                   phase, decision, outcome, sharedVars, cacheVars>>

\* Stops one row short.
StopServing_Early ==
    /\ main = "serving"
    /\ Len(rows) + 1 >= Cardinality(Requests)
    /\ main' = "summary"
    /\ UNCHANGED <<rows, summary_file, status_file, interrupted,
                   workerVars, sharedVars, cacheVars>>

\* as_completed has yielded every task.
StopServing ==
    /\ main = "serving"
    /\ Recorded = Requests
    /\ main' = "summary"
    /\ UNCHANGED <<rows, summary_file, status_file, interrupted,
                   workerVars, sharedVars, cacheVars>>

(***************************************************************************)
(* The summary of the responses is written whether requests failed or not. *)
(***************************************************************************)
WriteSummary ==
    /\ main = "summary"
    /\ main' = "judge"
    /\ summary_file' = "fresh"
    /\ UNCHANGED <<rows, status_file, interrupted, workerVars, sharedVars, cacheVars>>

Conclude(verdict) ==
    /\ main' = "over"
    /\ status_file' = verdict
    /\ UNCHANGED <<rows, workerVars, sharedVars, cacheVars>>

(***************************************************************************)
(* A run with failed requests raises after its summary is on disk.         *)
(***************************************************************************)
JudgeFailed ==
    /\ main = "judge"
    /\ Failed # {}
    /\ Conclude("failed")
    /\ UNCHANGED <<summary_file, interrupted>>

\* Never looks at the request errors.
JudgePassed_IgnoresErrors ==
    /\ main = "judge"
    /\ main' = "report"
    /\ UNCHANGED <<rows, summary_file, status_file, interrupted,
                   workerVars, sharedVars, cacheVars>>

JudgePassed ==
    /\ main = "judge"
    /\ Failed = {}
    /\ main' = "report"
    /\ UNCHANGED <<rows, summary_file, status_file, interrupted,
                   workerVars, sharedVars, cacheVars>>

FinishRun ==
    /\ main = "report"
    /\ Conclude("complete")
    /\ UNCHANGED <<summary_file, interrupted>>

(***************************************************************************)
(* An exception in the main coroutine: the server does not come up, a row  *)
(* cannot be written, the summary, the manifest or the report cannot be    *)
(* computed.  While summary.json is open it leaves half a file.            *)
(***************************************************************************)
MainFails ==
    /\ main # "over"
    /\ Conclude("failed")
    /\ \/ UNCHANGED summary_file
       \/ main = "summary" /\ summary_file' = "torn"
    /\ UNCHANGED interrupted

(***************************************************************************)
(* Ctrl-C reaches the main coroutine as CancelledError or as               *)
(* KeyboardInterrupt.  Neither is an Exception: run_error stays None and   *)
(* the finally clause writes "complete".                                   *)
(***************************************************************************)
Interrupt ==
    /\ main # "over"
    /\ Conclude("complete")
    /\ \/ UNCHANGED summary_file
       \/ main = "summary" /\ summary_file' = "torn"
    /\ interrupted' = TRUE
------------------------------------------------------------------------------
WorkerStep(r) ==
    \/ Arrive(r)
    \/ \E a \in Adapters : Dispatch(r, a)
    \/ RouteFails(r)
    \/ Respond(r)
    \/ Return(r)
    \/ RequestFails(r)
    \/ Cancel(r)

MainProgress ==
    \/ StartServing
    \/ WriteRow
    \/ StopServing
    \/ WriteSummary
    \/ JudgeFailed
    \/ JudgePassed
    \/ FinishRun

MainStep == MainProgress \/ MainFails

Quiet == main = "over" /\ \A r \in Requests : phase[r] \in {"returned", "cancelled"}

\* asyncio.run has returned.
Ended == Quiet /\ UNCHANGED vars

Next ==
    \/ \E r \in Requests : WorkerStep(r)
    \/ MainStep
    \/ Interrupt
    \/ Ended

Spec == Init /\ [][Next]_vars

(***************************************************************************)
(* Fairness: the event loop runs every task that can run, a permit that    *)
(* stays free is given out, and a request in flight is answered or times   *)
(* out (httpx timeout=60.0).  Nothing makes the main coroutine fail or the *)
(* operator interrupt it.                                                  *)
(***************************************************************************)
FairSpec ==
    /\ Spec
    /\ WF_vars(MainProgress)
    /\ \A r \in Requests : WF_vars(WorkerStep(r))
------------------------------------------------------------------------------
(***************************************************************************)
(* Properties.                                                             *)
(***************************************************************************)
(***************************************************************************)
(* The load a policy reads is the live one: for every adapter it is the    *)
(* number of requests in flight on it, whatever finished, failed or was    *)
(* cancelled before (SessionState.adapter_load, begin and end_dispatch).   *)
(***************************************************************************)
LoadIsLive == \A a \in Adapters : adapter_load[a] = Cardinality(OnAdapter(a))

(***************************************************************************)
(* No way out of a worker keeps a permit or returns one twice, so at most  *)
(* max(1, max_concurrency) requests are ever in flight.                    *)
(***************************************************************************)
PermitsConserved == permits + Cardinality(InFlight) = PermitLimit

(***************************************************************************)
(* Every worker that returned has its result exactly once among the rows   *)
(* and the results not written yet: as_completed loses and repeats none.   *)
(***************************************************************************)
ResultsDeliveredOnce ==
    LET results == rows \o done
    IN  /\ \A i, j \in 1 .. Len(results) : results[i] = results[j] => i = j
        /\ {results[i] : i \in 1 .. Len(results)} = {r \in Requests : phase[r] = "returned"}

(***************************************************************************)
(* The cache totals of the summary cover every response: the cache model   *)
(* observes no request twice, observes each request that ends in a         *)
(* response, and never one that was not dispatched.                        *)
(***************************************************************************)
ResponsesAreObserved ==
    LET seen == {observed[i] : i \in 1 .. Len(observed)}
    IN  /\ Cardinality(seen) = Len(observed)
        /\ {r \in Requests : outcome[r] = "ok"} \subseteq seen
        /\ \A r \in seen : decision[r] # NoAdapter

(***************************************************************************)
(* With one permit the estimate a row reports is the one the cache model   *)
(* records: nothing is observed between a request's estimate and its own   *)
(* observation.  (With more permits the two may differ.)                   *)
(***************************************************************************)
SerialEstimatesExact ==
    PermitLimit = 1 =>
        \A i \in 1 .. Len(observed) : cache_view[observed[i]] = i - 1

(***************************************************************************)
(* status.json says "complete" only of a run whose requests all have a row *)
(* with a response and whose summary is its own, unless it was interrupted. *)
(***************************************************************************)
VerdictSound ==
    status_file = "complete" /\ ~interrupted =>
        /\ Recorded = Requests
        /\ \A r \in Requests : outcome[r] = "ok"
        /\ summary_file = "fresh"

(***************************************************************************)
(* A request is routed once, in the very step in which it is admitted, so  *)
(* the policy sees fewer than PermitLimit requests in flight and never     *)
(* decides for a request that still queues.                                *)
(***************************************************************************)
RoutedAtDispatch ==
    [][\A r \in Requests : decision'[r] # decision[r] =>
          /\ decision[r] = NoAdapter
          /\ r \in InFlight'
          /\ Cardinality(InFlight) < PermitLimit]_vars

(***************************************************************************)
(* However the run ends, the loop comes to rest with no request counted in *)
(* flight and every permit back.                                           *)
(***************************************************************************)
RunEnds ==
    <>[](/\ Quiet
         /\ permits = PermitLimit
         /\ \A a \in Adapters : adapter_load[a] = 0)

(***************************************************************************)
(* The runner implements the ledger of a run: a request is settled when    *)
(* its row is written.                                                     *)
(***************************************************************************)
Ledger == INSTANCE RunLedger WITH
    ledger  <- [r \in Requests |-> IF r \in Recorded THEN outcome[r] ELSE "open"],
    verdict <- IF interrupted THEN "abandoned" ELSE status_file

ImplementsLedger == Ledger!LedgerSpec
=============================================================================
