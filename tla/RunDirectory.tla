---------------------------- MODULE RunDirectory ----------------------------
(***************************************************************************)
(* What the two runners have in common: run() in bench/run_concurrent.py   *)
(* and bench/run_workload.py goes through its steps with one SessionState  *)
(* (routing/session_state.py) and leaves the same files in a run           *)
(* directory.                                                              *)
(*                                                                         *)
(* An operator named X_Fault is X with a fault a programmer could make; no *)
(* specification uses it.                                                  *)
(***************************************************************************)
EXTENDS Naturals, Sequences, FiniteSets

CONSTANT Adapters       \* config.adapters.adapter_ids

VARIABLES
    main,               \* what run() does next
    decision,           \* the adapter of the request, or of each request
    adapter_load,       \* SessionState.adapter_load, 0 for an absent key
    rows,               \* the rows of requests.jsonl, in order
    summary_file,       \* summary.json of the run directory
    status_file,        \* the status in status.json
    interrupted         \* the operator pressed Ctrl-C (history variable)

(***************************************************************************)
(* SessionState.                                                           *)
(***************************************************************************)
begin_dispatch(a) == [adapter_load EXCEPT ![a] = @ + 1]

end_dispatch_PopsEarly(a) ==
    [adapter_load EXCEPT ![a] = IF @ <= 2 THEN 0 ELSE @ - 1]

end_dispatch(a) ==
    [adapter_load EXCEPT ![a] = IF @ <= 1 THEN 0 ELSE @ - 1]
=============================================================================
