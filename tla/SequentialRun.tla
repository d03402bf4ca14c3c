---------------------------- MODULE SequentialRun ----------------------------
(***************************************************************************)
(* The sequential runner, bench/run_workload.py: one request after the     *)
(* other is routed, generated and recorded, and the first request that     *)
(* fails ends the run.                                                     *)
(*                                                                         *)
(* Nothing runs concurrently here.  What can go wrong is where an          *)
(* exception or an interrupt leaves the load of an adapter, the counters   *)
(* that status.json reports and the rows that are already on disk.         *)
(*                                                                         *)
(* An operator named X_Fault is X with a fault a programmer could make; no *)
(* specification uses it.                                                  *)
(***************************************************************************)
EXTENDS RunDirectory

CONSTANT RequestCount   \* the number of generated requests

ASSUME CountAssumption == RequestCount \in Nat

VARIABLES
    completed,          \* RunState.completed_request_count
    failed              \* RunState.failed_request_count

fileVars == <<summary_file, status_file, interrupted>>
sequentialVars == <<main, decision, adapter_load, rows, completed, failed, fileVars>>

SequentialMainSteps == {"setup", "serving", "generating", "recording", "raising",
              "summary", "report", "over"}

SequentialTypeOK ==
    /\ main \in SequentialMainSteps
    /\ decision \in Adapters
    /\ adapter_load \in [Adapters -> Nat]
    /\ rows \in Seq({"ok", "error"})
    /\ completed \in 0 .. RequestCount
    /\ failed \in 0 .. 1
    /\ summary_file \in {"absent", "stale", "fresh", "torn"}
    /\ status_file \in {"running", "complete", "failed"}
    /\ interrupted \in BOOLEAN

(***************************************************************************)
(* RunState.initialize has run; the directory may hold an earlier summary. *)
(***************************************************************************)
SequentialInit ==
    /\ main = "setup"
    /\ decision \in Adapters
    /\ adapter_load = [a \in Adapters |-> 0]
    /\ rows = <<>>
    /\ completed = 0
    /\ failed = 0
    /\ summary_file \in {"absent", "stale"}
    /\ status_file = "running"
    /\ interrupted = FALSE
------------------------------------------------------------------------------
(***************************************************************************)
(* The workload, the server, the cache model, the router and the backend   *)
(* are ready; requests.jsonl is opened for writing.                        *)
(***************************************************************************)
Prepare ==
    /\ main = "setup"
    /\ main' = "serving"
    /\ UNCHANGED <<decision, adapter_load, rows, completed, failed, fileVars>>

(***************************************************************************)
(* The next request of the workload is routed and counted in flight.  A    *)
(* row is written for every request before the next one is routed.         *)
(***************************************************************************)
Route(a) ==
    /\ main = "serving"
    /\ Len(rows) < RequestCount
    /\ decision' = a
    /\ adapter_load' = begin_dispatch(a)
    /\ main' = "generating"
    /\ UNCHANGED <<rows, completed, failed, fileVars>>

\* Only the failure path gives the load back.
EndDispatch_Never == UNCHANGED adapter_load

\* The inner finally clause.
EndDispatch ==
    adapter_load' = end_dispatch(decision)

Generated ==
    /\ main = "generating"
    /\ EndDispatch
    /\ completed' = completed + 1
    /\ main' = "recording"
    /\ UNCHANGED <<decision, rows, failed, fileVars>>

SequentialWriteRow ==
    /\ main = "recording"
    /\ rows' = Append(rows, "ok")
    /\ main' = "serving"
    /\ UNCHANGED <<decision, adapter_load, completed, failed, fileVars>>

\* Counts the failed request as completed too.
GenerateFails_CountsBoth ==
    /\ main = "generating"
    /\ EndDispatch
    /\ failed' = failed + 1
    /\ completed' = completed + 1
    /\ rows' = Append(rows, "error")
    /\ main' = "raising"
    /\ UNCHANGED <<decision, fileVars>>

(***************************************************************************)
(* The backend raises: the failure is counted, its row is written if it    *)
(* can be, the load is given back and the exception leaves the loop.       *)
(***************************************************************************)
GenerateFails ==
    /\ main = "generating"
    /\ EndDispatch
    /\ failed' = failed + 1
    /\ rows' \in {Append(rows, "error"), rows}
    /\ main' = "raising"
    /\ UNCHANGED <<decision, completed, fileVars>>

\* Expects a row more than the workload has requests.
SequentialStopServing_OffByOne ==
    /\ main = "serving"
    /\ Len(rows) > RequestCount
    /\ main' = "summary"
    /\ UNCHANGED <<decision, adapter_load, rows, completed, failed, fileVars>>

SequentialStopServing ==
    /\ main = "serving"
    /\ Len(rows) = RequestCount
    /\ main' = "summary"
    /\ UNCHANGED <<decision, adapter_load, rows, completed, failed, fileVars>>

SequentialWriteSummary ==
    /\ main = "summary"
    /\ summary_file' = "fresh"
    /\ main' = "report"
    /\ UNCHANGED <<decision, adapter_load, rows, completed, failed, status_file, interrupted>>

(***************************************************************************)
(* The outer finally clause writes the verdict.                            *)
(***************************************************************************)
SequentialConclude(verdict) ==
    /\ main' = "over"
    /\ status_file' = verdict
    /\ UNCHANGED <<decision, rows, completed, failed>>

SequentialFinishRun ==
    /\ main = "report"
    /\ SequentialConclude("complete")
    /\ UNCHANGED <<adapter_load, summary_file, interrupted>>

(***************************************************************************)
(* The exception of the failed request reaches the outer handler.          *)
(***************************************************************************)
Reraise ==
    /\ main = "raising"
    /\ SequentialConclude("failed")
    /\ UNCHANGED <<adapter_load, summary_file, interrupted>>

\* The summary that json.dump was writing is left half written.
LeaveSummary ==
    \/ UNCHANGED summary_file
    \/ main = "summary" /\ summary_file' = "torn"

\* Takes any exception for the end of the run.
SequentialMainFails_Forgets ==
    /\ main \notin {"generating", "raising", "over"}
    /\ SequentialConclude("complete")
    /\ LeaveSummary
    /\ UNCHANGED <<adapter_load, interrupted>>

(***************************************************************************)
(* An exception outside of generate: setup, the policy, a row that cannot  *)
(* be written, the summary or the report.                                  *)
(***************************************************************************)
SequentialMainFails ==
    /\ main \notin {"generating", "raising", "over"}
    /\ SequentialConclude("failed")
    /\ LeaveSummary
    /\ UNCHANGED <<adapter_load, interrupted>>

(***************************************************************************)
(* KeyboardInterrupt is not an Exception: no handler runs, the finally     *)
(* clauses do, and the outer one finds run_error unset.                    *)
(***************************************************************************)
SequentialInterrupt ==
    /\ main # "over"
    /\ SequentialConclude("complete")
    /\ LeaveSummary
    /\ IF main = "generating" THEN EndDispatch ELSE UNCHANGED adapter_load
    /\ interrupted' = TRUE
------------------------------------------------------------------------------
Progress ==
    \/ Prepare
    \/ \E a \in Adapters : Route(a)
    \/ Generated
    \/ SequentialWriteRow
    \/ GenerateFails
    \/ SequentialStopServing
    \/ SequentialWriteSummary
    \/ SequentialFinishRun
    \/ Reraise

SequentialEnded == main = "over" /\ UNCHANGED sequentialVars

SequentialNext == Progress \/ SequentialMainFails \/ SequentialInterrupt \/ SequentialEnded

SequentialSpec == SequentialInit /\ [][SequentialNext]_sequentialVars

(***************************************************************************)
(* The program runs on, and a request is answered or times out; nothing    *)
(* makes anything else fail.                                               *)
(***************************************************************************)
SequentialFairSpec == SequentialSpec /\ WF_sequentialVars(Progress)
------------------------------------------------------------------------------
(***************************************************************************)
(* Properties.                                                             *)
(***************************************************************************)
(***************************************************************************)
(* The policy never sees a load here: an adapter has one only while its    *)
(* request is generated, and none after a failure or an interrupt.         *)
(* (RouterConfig.beta is therefore without effect in this runner.)         *)
(***************************************************************************)
RoutedUnloaded ==
    \A a \in Adapters :
        adapter_load[a] = IF main = "generating" /\ a = decision THEN 1 ELSE 0

RowsWith(o) == Cardinality({i \in 1 .. Len(rows) : rows[i] = o})

(***************************************************************************)
(* The counters in status.json agree with the rows on disk, except that    *)
(* the one request whose row could not be written may be counted; a        *)
(* complete run that was not interrupted has no such request.              *)
(***************************************************************************)
CountersMatchRows ==
    /\ \/ completed = RowsWith("ok")
       \/ completed = RowsWith("ok") + 1 /\ main \in {"recording", "over"}
    /\ \/ failed = RowsWith("error")
       \/ failed = RowsWith("error") + 1 /\ main \in {"raising", "over"}
    /\ completed + failed <= Len(rows) + 1
    /\ status_file = "complete" /\ ~interrupted =>
           completed = RequestCount /\ Len(rows) = RequestCount

(***************************************************************************)
(* The first failed request is the last row: no request is served after    *)
(* it, and the failure count says whether there is one.                    *)
(***************************************************************************)
FirstErrorEndsRun ==
    /\ \A i \in 1 .. Len(rows) : rows[i] = "error" => i = Len(rows) /\ failed = 1
    /\ failed = 1 => main \in {"raising", "over"}

(***************************************************************************)
(* The run always comes to an end, with a verdict and no load left.        *)
(***************************************************************************)
SequentialRunEnds ==
    <>[](main = "over" /\ status_file # "running" /\ \A a \in Adapters : adapter_load[a] = 0)

(***************************************************************************)
(* This runner, too, implements the ledger of a run.                       *)
(***************************************************************************)
SequentialLedger == INSTANCE RunLedger WITH
    Requests <- 1 .. RequestCount,
    ledger   <- [r \in 1 .. RequestCount |-> IF r <= Len(rows) THEN rows[r] ELSE "open"],
    verdict  <- IF interrupted THEN "abandoned" ELSE status_file

SequentialImplementsLedger == SequentialLedger!LedgerSpec
=============================================================================
