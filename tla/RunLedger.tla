------------------------------ MODULE RunLedger ------------------------------
(***************************************************************************)
(* What one benchmark run promises to the reader of its run directory,     *)
(* whichever runner produced it: a request is settled at most once, the    *)
(* verdict is given once and nothing is settled after it, and a run that   *)
(* is called complete has settled every request without an error.          *)
(*                                                                         *)
(* This is the abstract specification that the two runners                 *)
(* (bench/run_concurrent.py and bench/run_workload.py) are shown to        *)
(* implement; it has no workers, no permits, no files and no cache.        *)
(***************************************************************************)
CONSTANT Requests       \* the planned requests of the run

VARIABLES
    ledger,             \* ledger[r]: what the run recorded for request r
    verdict             \* what status.json says of the run

ledgerVars == <<ledger, verdict>>

Entries  == {"open", "ok", "error"}
Verdicts == {"running", "complete", "failed", "abandoned"}

LedgerTypeOK ==
    /\ ledger \in [Requests -> Entries]
    /\ verdict \in Verdicts

LedgerInit ==
    /\ ledger = [r \in Requests |-> "open"]
    /\ verdict = "running"

(***************************************************************************)
(* A request gets its one row, with its response or with its error.        *)
(***************************************************************************)
Settle(r) ==
    /\ verdict = "running"
    /\ ledger[r] = "open"
    /\ \E o \in {"ok", "error"} : ledger' = [ledger EXCEPT ![r] = o]
    /\ UNCHANGED verdict

(***************************************************************************)
(* The run is called complete only when no request is open or in error.    *)
(***************************************************************************)
CallComplete ==
    /\ verdict = "running"
    /\ \A r \in Requests : ledger[r] = "ok"
    /\ verdict' = "complete"
    /\ UNCHANGED ledger

(***************************************************************************)
(* A run may fail at any point: a request failed, the server could not be  *)
(* prepared, the summary or the report could not be computed.              *)
(***************************************************************************)
CallFailed ==
    /\ verdict = "running"
    /\ verdict' = "failed"
    /\ UNCHANGED ledger

(***************************************************************************)
(* The operator interrupts the run: the ledger says nothing of what is     *)
(* still open.                                                             *)
(***************************************************************************)
Abandon ==
    /\ verdict = "running"
    /\ verdict' = "abandoned"
    /\ UNCHANGED ledger

LedgerNext ==
    \/ \E r \in Requests : Settle(r)
    \/ CallComplete
    \/ CallFailed
    \/ Abandon

LedgerSpec == LedgerInit /\ [][LedgerNext]_ledgerVars
------------------------------------------------------------------------------
(***************************************************************************)
(* The consequence the readers of a run directory rely on.                 *)
(***************************************************************************)
CompleteMeansSettled ==
    verdict = "complete" => \A r \in Requests : ledger[r] = "ok"
=============================================================================
