----------------------------- MODULE OvernightLoop -----------------------------
(***************************************************************************)
(* scripts/overnight_second_family_loop.sh: a list of phases that train    *)
(* adapters of two model families, serve each family with vLLM on one port *)
(* and sweep it.  A phase that is done leaves a marker; the loop may fail, *)
(* be interrupted or killed at any step and is started again over the same *)
(* directory.  The servers are docker containers that live on when the     *)
(* loop ends.                                                              *)
(*                                                                         *)
(* A marker is an empty file: the loop sees whether it is there.  Its value *)
(* in the model says what made it, "ran", "dry" (DRY_RUN=1) or "existed"   *)
(* (the adapters were already there).                                      *)
(***************************************************************************)
EXTENDS Naturals, Sequences

CONSTANTS Tasks,             \* the adapters of a family, in the order of training
          MaxRetries,        \* MAX_RETRIES and INFRA_MAX_RETRIES: attempts at a phase
          InfraMaxRetries,
          MaxInvocations,    \* how often the loop is started
          MaxReplays         \* how many markers the operator deletes

ASSUME TasksAssumption   == Len(Tasks) \in Nat \ {0} /\ Tasks \in Seq(STRING)
                            /\ \A i, j \in DOMAIN Tasks : Tasks[i] = Tasks[j] => i = j
ASSUME RetriesAssumption == MaxRetries \in Nat /\ InfraMaxRetries \in Nat
ASSUME BoundsAssumption  == MaxInvocations \in Nat /\ MaxReplays \in Nat

Families == {"second", "qwen"}
TaskSet  == {Tasks[i] : i \in DOMAIN Tasks}

TrainPhase  == [second |-> "train_second_family",    qwen |-> "ensure_qwen_family"]
VerifyPhase == [second |-> "verify_second_adapters", qwen |-> "verify_qwen_adapters"]
ServePhase  == [second |-> "serve_second_family",    qwen |-> "serve_qwen_family"]
WaitPhase   == [second |-> "wait_second_family",     qwen |-> "wait_qwen_family"]
SweepPhase  == [second |-> "run_second_family",      qwen |-> "run_qwen_family"]

\* each sweep stands before the wait for its server
Plan_SweepsBeforeWaiting ==
        << "preflight_repo", "preflight_gpu", "build_sft_split",
           "train_second_family", "verify_second_adapters",
           "ensure_qwen_family", "verify_qwen_adapters",
           "serve_second_family", "run_second_family", "wait_second_family",
           "serve_qwen_family", "run_qwen_family", "wait_qwen_family",
           "post_reports", "post_readiness",
           "final_ruff_check", "final_ruff_format", "final_pytest", "auto_commit" >>

Plan == << "preflight_repo", "preflight_gpu", "build_sft_split",
           "train_second_family", "verify_second_adapters",
           "ensure_qwen_family", "verify_qwen_adapters",
           "serve_second_family", "wait_second_family", "run_second_family",
           "serve_qwen_family", "wait_qwen_family", "run_qwen_family",
           "post_reports", "post_readiness",
           "final_ruff_check", "final_ruff_format", "final_pytest", "auto_commit" >>

Phases == {Plan[i] : i \in DOMAIN Plan}

(***************************************************************************)
(* The last phase is planned only with AUTO_COMMIT=1.                      *)
(***************************************************************************)
LastPhase(options) == IF options.auto_commit THEN Len(Plan) ELSE Len(Plan) - 1

phase_attempts(p) ==
    IF p \in {ServePhase[f] : f \in Families} \cup {WaitPhase[f] : f \in Families}
             \cup {SweepPhase[f] : f \in Families} \cup {"post_reports", "post_readiness"}
    THEN InfraMaxRetries ELSE MaxRetries

VARIABLES
    \* the script
    on,           \* "off", or where it is: "phases", "attempts", "command", "succeeded", "exit"
    opts,         \* DRY_RUN, TRAIN_QWEN_IF_MISSING, AUTO_COMMIT of this invocation
    at,           \* the phase of the plan
    attempt,      \* attempts begun at this phase
    FINAL_STATUS, CURRENT_PHASE,
    exit_code,    \* of the last command before the trap on EXIT
    progress,     \* how far a training command is: 2 k, k adapters; 2 k + 1, saving one more
    \* the disk
    marker, state_file,
    sft, adapters,
    \* docker
    server,
    \* what happened, for the properties
    swept,        \* the sweep of a family ran to its end since it was last asked for
    lost,         \* the container of a family ended since it was started
    fault,        \* something failed by itself, was interrupted or killed
    signalled,    \* a signal ended the last invocation
    rehearsed,    \* there was a dry run over this directory
    invocations, replays

scriptVars  == <<on, opts, at, attempt, FINAL_STATUS, CURRENT_PHASE, exit_code, progress>>
diskVars    == <<marker, state_file, sft, adapters>>
historyVars == <<swept, lost, fault, signalled, rehearsed, invocations, replays>>
effectVars  == <<sft, adapters, server, swept, lost>>
vars == <<scriptVars, diskVars, server, historyVars>>

Torn == [phase |-> "torn", status |-> "torn"]
Options == [dry : BOOLEAN, train_qwen : BOOLEAN, auto_commit : BOOLEAN]
Defaults == [dry |-> FALSE, train_qwen |-> TRUE, auto_commit |-> FALSE]

adapter_bundle_exists(f) == \A t \in TaskSet : adapters[f][t] # "absent"
BundleWhole(f)           == \A t \in TaskSet : adapters[f][t] = "whole"
PortTakenFrom(f)         == \E g \in Families \ {f} : server[g] # "none"

(***************************************************************************)
(* Adapters may be there from an earlier night, complete or not at all.    *)
(***************************************************************************)
Init ==
    /\ on = "off" /\ opts = Defaults /\ at = 1 /\ attempt = 0 /\ exit_code = 0 /\ progress = 0
    /\ FINAL_STATUS = "running" /\ CURRENT_PHASE = "initializing"      \* no process, no variables
    /\ marker = [p \in Phases |-> "absent"]
    /\ state_file = [phase |-> "none", status |-> "none"]
    /\ sft = FALSE
    /\ \E kept \in SUBSET Families :
          adapters = [f \in Families |-> [t \in TaskSet |-> IF f \in kept THEN "whole" ELSE "absent"]]
    /\ server = [f \in Families |-> "none"]
    /\ swept = [f \in Families |-> FALSE] /\ lost = [f \in Families |-> FALSE]
    /\ fault = FALSE /\ signalled = FALSE /\ rehearsed = FALSE /\ invocations = 0 /\ replays = 0
------------------------------------------------------------------------------
(***************************************************************************)
(* The operator: starts the loop, with any options, over the same          *)
(* directory; deletes a marker "to replay one phase".                      *)
(***************************************************************************)
Invoke(options) ==
    /\ on = "off" /\ invocations < MaxInvocations
    /\ on' = "phases" /\ opts' = options
    /\ UNCHANGED <<at, attempt, progress, FINAL_STATUS, CURRENT_PHASE, exit_code>>
    /\ state_file' = [phase |-> "initializing", status |-> "running"]
    /\ invocations' = invocations + 1 /\ rehearsed' = (rehearsed \/ options.dry) /\ signalled' = FALSE
    /\ UNCHANGED <<marker, sft, adapters, server, swept, lost, fault, replays>>

DeleteMarker(p) ==
    /\ on = "off" /\ replays < MaxReplays /\ marker[p] # "absent"
    /\ marker' = [marker EXCEPT ![p] = "absent"]
    /\ swept' = [f \in Families |-> swept[f] /\ p # SweepPhase[f]]
    /\ replays' = replays + 1
    /\ UNCHANGED <<scriptVars, state_file, sft, adapters, server, lost, fault, signalled, rehearsed, invocations>>
------------------------------------------------------------------------------
(***************************************************************************)
(* run_phase and mark_phase_done, up to the first attempt.                 *)
(***************************************************************************)
Here == Plan[at]
BundleAtHand == \E f \in Families : Here = TrainPhase[f] /\ adapter_bundle_exists(f)

AtPhase  == on = "phases" /\ at <= LastPhase(opts)
NextPhase == on' = "phases" /\ at' = at + 1 /\ attempt' = 0 /\ progress' = 0

\* mark_phase_done: the adapters are there, neither the phase nor the state file changes
SkipTraining ==
    /\ AtPhase /\ BundleAtHand
    /\ marker' = IF marker[Here] = "absent" THEN [marker EXCEPT ![Here] = "existed"] ELSE marker
    /\ NextPhase
    /\ UNCHANGED <<opts, exit_code, FINAL_STATUS, CURRENT_PHASE, state_file, sft, adapters, server, historyVars>>

Announce ==
    /\ CURRENT_PHASE' = Here
    /\ state_file' = [phase |-> Here, status |-> "running"]

SkipDone ==
    /\ AtPhase /\ ~BundleAtHand /\ marker[Here] # "absent"
    /\ Announce /\ NextPhase
    /\ UNCHANGED <<opts, exit_code, FINAL_STATUS, marker, sft, adapters, server, historyVars>>

DryRun ==
    /\ AtPhase /\ ~BundleAtHand /\ marker[Here] = "absent" /\ opts.dry
    /\ Announce /\ NextPhase
    /\ marker' = [marker EXCEPT ![Here] = "dry"]
    /\ UNCHANGED <<opts, exit_code, FINAL_STATUS, sft, adapters, server, historyVars>>

\* the marker is touched before the command
EnterPhase_MarksFirst ==
    /\ AtPhase /\ ~BundleAtHand /\ marker[Here] = "absent" /\ ~opts.dry
    /\ Announce
    /\ on' = "attempts" /\ attempt' = 0
    /\ marker' = [marker EXCEPT ![Here] = "ran"]
    /\ UNCHANGED <<opts, at, exit_code, progress, FINAL_STATUS, sft, adapters, server, historyVars>>

EnterPhase ==
    /\ AtPhase /\ ~BundleAtHand /\ marker[Here] = "absent" /\ ~opts.dry
    /\ Announce
    /\ on' = "attempts" /\ attempt' = 0
    /\ UNCHANGED <<opts, at, exit_code, progress, FINAL_STATUS, marker, sft, adapters, server, historyVars>>

NextAttempt ==
    /\ on = "attempts" /\ attempt < phase_attempts(Here)
    /\ on' = "command" /\ attempt' = attempt + 1 /\ progress' = 0
    /\ UNCHANGED <<opts, at, exit_code, FINAL_STATUS, CURRENT_PHASE, diskVars, server, historyVars>>

GiveUp ==
    /\ on = "attempts" /\ attempt = phase_attempts(Here)
    /\ FINAL_STATUS' = "failed"
    /\ state_file' = [phase |-> Here, status |-> "failed"]
    /\ on' = "exit" /\ exit_code' = 1
    /\ UNCHANGED <<opts, at, attempt, progress, CURRENT_PHASE, marker, sft, adapters, server, historyVars>>
------------------------------------------------------------------------------
(***************************************************************************)
(* The commands.  Succeeds and Fails are the end of an attempt; each       *)
(* command says when it may do either.  The marker comes after the command *)
(* and the loop may be killed in between.                                  *)
(***************************************************************************)
Running(p) == on = "command" /\ Here = p
Ends(where) == /\ on' = where
               /\ UNCHANGED <<opts, at, attempt, exit_code, progress, FINAL_STATUS, CURRENT_PHASE, marker,
                              state_file, signalled, invocations, replays, rehearsed>>
Succeeds == Ends("succeeded")
Fails    == Ends("attempts")

TouchMarker ==
    /\ on = "succeeded" /\ NextPhase
    /\ marker' = [marker EXCEPT ![Here] = "ran"]
    /\ UNCHANGED <<opts, exit_code, FINAL_STATUS, CURRENT_PHASE, state_file, sft, adapters, server, historyVars>>

\* checks, reports and the commit: what they do is not seen by any other phase
PlainPhases == {"preflight_repo", "preflight_gpu", "post_reports", "post_readiness", "final_ruff_check",
                "final_ruff_format", "final_pytest", "auto_commit"}
PlainCommand ==
    /\ on = "command" /\ Here \in PlainPhases
    /\ Succeeds /\ UNCHANGED <<effectVars, fault>>

BuildSft ==
    /\ Running("build_sft_split")
    /\ Succeeds /\ sft' = TRUE /\ UNCHANGED <<adapters, server, swept, lost, fault>>

\* ensure_qwen_family only verifies the adapters with TRAIN_QWEN_IF_MISSING=0
Trains(f) == Running(TrainPhase[f]) /\ (f = "second" \/ opts.train_qwen)
Verifies(f) == Running(VerifyPhase[f]) \/ (f = "qwen" /\ Running(TrainPhase[f]) /\ ~opts.train_qwen)

\* the trainer makes the directory of an adapter, then saves into it
BeginSave(f) ==
    /\ Trains(f) /\ sft /\ progress < 2 * Len(Tasks) /\ progress % 2 = 0
    /\ adapters' = [adapters EXCEPT ![f][Tasks[progress \div 2 + 1]] = "partial"]
    /\ progress' = progress + 1
    /\ UNCHANGED <<on, opts, at, attempt, exit_code, FINAL_STATUS, CURRENT_PHASE, marker, state_file, sft, server,
                   historyVars>>

EndSave(f) ==
    /\ Trains(f) /\ progress < 2 * Len(Tasks) /\ progress % 2 = 1
    /\ adapters' = [adapters EXCEPT ![f][Tasks[progress \div 2 + 1]] = "whole"]
    /\ progress' = progress + 1
    /\ UNCHANGED <<on, opts, at, attempt, exit_code, FINAL_STATUS, CURRENT_PHASE, marker, state_file, sft, server,
                   historyVars>>

TrainingEnds(f) ==
    /\ Trains(f) /\ progress = 2 * Len(Tasks)
    /\ Succeeds /\ UNCHANGED <<effectVars, fault>>

TrainingLacksData(f) ==
    /\ Trains(f) /\ ~sft
    /\ Fails /\ UNCHANGED <<effectVars, fault>>

require_adapter_bundle(f) ==
    /\ Verifies(f)
    /\ IF adapter_bundle_exists(f) THEN Succeeds ELSE Fails
    /\ UNCHANGED <<effectVars, fault>>

(***************************************************************************)
(* restart_local_vllm_lora.sh removes the container of its own name, which *)
(* differs between the families, and runs a new one.  Docker refuses it    *)
(* while another container publishes the port.                             *)
(***************************************************************************)
\* The restart script ignores that docker run failed (|| true).
RestartServer_RefusalIgnored(f) ==
    /\ Running(ServePhase[f])
    /\ Succeeds
    /\ server' = [server EXCEPT ![f] = IF PortTakenFrom(f) THEN "none" ELSE "starting"]
    /\ lost' = [lost EXCEPT ![f] = FALSE]
    /\ UNCHANGED <<sft, adapters, swept, fault>>

RestartServer(f) ==
    /\ Running(ServePhase[f])
    /\ IF PortTakenFrom(f)
       THEN Fails /\ server' = [server EXCEPT ![f] = "none"] /\ lost' = lost
       ELSE Succeeds /\ server' = [server EXCEPT ![f] = "starting"] /\ lost' = [lost EXCEPT ![f] = FALSE]
    /\ UNCHANGED <<sft, adapters, swept, fault>>

\* wait_for_vllm_health asks whoever is on the port
wait_for_vllm_health(f) ==
    /\ Running(WaitPhase[f])
    /\ \E g \in Families : server[g] = "healthy"
    /\ Succeeds /\ UNCHANGED <<effectVars, fault>>

\* the deadline passes: not the script's fault if its server is on the way
WarmupTimesOut(f) ==
    /\ Running(WaitPhase[f])
    /\ \A g \in Families : server[g] # "healthy"
    /\ Fails /\ fault' = (fault \/ server[f] = "starting")
    /\ UNCHANGED effectVars

\* the sweep asks for adapters by the names of its family, which no other server knows
Sweep(f) ==
    /\ Running(SweepPhase[f])
    /\ IF server[f] = "healthy"
       THEN Succeeds /\ swept' = [swept EXCEPT ![f] = TRUE]
       ELSE Fails /\ swept' = swept
    /\ UNCHANGED <<sft, adapters, server, lost, fault>>
------------------------------------------------------------------------------
(***************************************************************************)
(* What goes wrong: a command exits with an error of its own; a command of *)
(* the script does (set -e, then the trap on EXIT); Ctrl-C, a hangup or a  *)
(* SIGTERM ends script and command (the trap runs, too); both are killed,  *)
(* perhaps while the script writes state.json; a container ends.           *)
(***************************************************************************)
CommandFails ==
    /\ on = "command" /\ Fails /\ fault' = TRUE
    /\ \/ UNCHANGED effectVars
       \/ \E f \in Families : Here = ServePhase[f] /\ server' = [server EXCEPT ![f] = "none"]
                              /\ UNCHANGED <<sft, adapters, swept, lost>>

Gone == /\ on' = "off" /\ opts' = Defaults /\ at' = 1 /\ attempt' = 0 /\ exit_code' = 0 /\ progress' = 0
        /\ FINAL_STATUS' = "running" /\ CURRENT_PHASE' = "initializing"

ScriptError ==
    /\ on \in {"phases", "attempts", "succeeded"}
    /\ on' = "exit" /\ exit_code' = 1 /\ fault' = TRUE
    /\ UNCHANGED <<opts, at, attempt, FINAL_STATUS, CURRENT_PHASE, progress, diskVars, server, swept, lost,
                   signalled, rehearsed, invocations, replays>>

\* the trap sees the status of the command before the one that was interrupted
Interrupt ==
    /\ on \in {"phases", "attempts", "command", "succeeded"}
    /\ on' = "exit" /\ exit_code' \in {0, 1} /\ fault' = TRUE /\ signalled' = TRUE
    /\ UNCHANGED <<opts, at, attempt, FINAL_STATUS, CURRENT_PHASE, progress, diskVars, server, swept, lost,
                   rehearsed, invocations, replays>>

Kill ==
    /\ on # "off" /\ Gone /\ fault' = TRUE
    /\ state_file' \in {state_file, Torn}
    /\ UNCHANGED <<marker, sft, adapters, server, swept, lost, signalled, rehearsed, invocations, replays>>

ServerIsUp(f) ==
    /\ server[f] = "starting" /\ BundleWhole(f)
    /\ server' = [server EXCEPT ![f] = "healthy"]
    /\ UNCHANGED <<scriptVars, diskVars, historyVars>>

\* a server that cannot load its adapters exits; any container may die or be stopped
ServerEnds(f) ==
    /\ server[f] # "none"
    /\ server' = [server EXCEPT ![f] = "none"] /\ lost' = [lost EXCEPT ![f] = TRUE]
    /\ fault' = (fault \/ BundleWhole(f))
    /\ UNCHANGED <<scriptVars, diskVars, swept, signalled, rehearsed, invocations, replays>>
------------------------------------------------------------------------------
(***************************************************************************)
(* The end: the last lines of the script, and cleanup, the trap on EXIT,   *)
(* without the commands that an operator may hang on it.                   *)
(***************************************************************************)
Complete ==
    /\ on = "phases" /\ at > LastPhase(opts)
    /\ FINAL_STATUS' = "complete"
    /\ state_file' = [phase |-> "complete", status |-> "complete"]
    /\ on' = "exit" /\ exit_code' = 0
    /\ UNCHANGED <<opts, at, attempt, progress, CURRENT_PHASE, marker, sft, adapters, server, historyVars>>

cleanup ==
    /\ on = "exit"
    /\ state_file' =
          IF FINAL_STATUS = "complete" \/ (FINAL_STATUS = "running" /\ exit_code = 0)
          THEN [phase |-> "complete", status |-> "complete"]
          ELSE [phase |-> CURRENT_PHASE, status |-> "failed"]
    /\ Gone
    /\ UNCHANGED <<marker, sft, adapters, server, historyVars>>

run_phase == SkipDone \/ DryRun \/ EnterPhase \/ NextAttempt \/ TouchMarker \/ GiveUp
Command(f) == \/ BeginSave(f) \/ EndSave(f) \/ TrainingEnds(f) \/ TrainingLacksData(f)
              \/ require_adapter_bundle(f) \/ RestartServer(f)
              \/ wait_for_vllm_health(f) \/ WarmupTimesOut(f) \/ Sweep(f)
Script == SkipTraining \/ run_phase \/ PlainCommand \/ BuildSft \/ (\E f \in Families : Command(f))
          \/ Complete \/ cleanup

Next ==
    \/ \E options \in Options : Invoke(options)
    \/ \E p \in Phases : DeleteMarker(p)
    \/ Script
    \/ CommandFails \/ ScriptError \/ Interrupt \/ Kill
    \/ \E f \in Families : ServerIsUp(f) \/ ServerEnds(f)

Spec == Init /\ [][Next]_vars
------------------------------------------------------------------------------
(***************************************************************************)
(* write_state, cleanup: whatever was killed, failed, skipped by marker or *)
(* replayed in this and in earlier invocations, state.json says complete   *)
(* only if each family has been swept, against its own server, unless the  *)
(* sweep was asked for again since, and its adapters are whole, although   *)
(* the script checks only that their directories exist.  Two things void   *)
(* it: a dry run over the same directory, whose markers stay; and a signal *)
(* at any phase, after which the trap calls the invocation complete.       *)
(***************************************************************************)
CompleteIsEarned ==
    state_file.status = "complete" /\ ~rehearsed /\ ~signalled =>
        \A f \in Families :
            /\ BundleWhole(f)
            /\ swept[f] \/ (on = "off" /\ marker[SweepPhase[f]] = "absent")

(***************************************************************************)
(* The wait of a family is answered by the server of this family and its   *)
(* sweep is begun over this server, although the port is all they know,    *)
(* except when its container has ended since: a resumed loop skips         *)
(* serving by its marker and does not start it again.                      *)
(***************************************************************************)
OwnServerAnswers ==
    [][\A f \in Families :
          /\ ~rehearsed /\ ~lost[f]
          /\ \/ on = "command" /\ on' = "succeeded" /\ Here = WaitPhase[f]
             \/ on = "attempts" /\ on' = "command" /\ Here = SweepPhase[f]
          => server[f] # "none"]_vars

(***************************************************************************)
(* Where nothing fails by itself, the loop fails at four places only: at   *)
(* the server of a family when that of the other one, which no phase       *)
(* removes, holds the port, which is what happens to every night that      *)
(* serves both; at Qwen adapters that it was told not to train; at a sweep *)
(* that the operator asked for again together with its server, but without *)
(* the wait in between, whose marker skips it; and at a phase with no      *)
(* attempts, if its number of retries was set to 0.                        *)
(***************************************************************************)
FailureHasCause ==
    on = "exit" /\ FINAL_STATUS = "failed" /\ ~fault /\ ~rehearsed =>
        \/ \E f \in Families : Here = ServePhase[f] /\ PortTakenFrom(f)
        \/ Here = "ensure_qwen_family" /\ ~opts.train_qwen /\ ~adapter_bundle_exists("qwen")
        \/ \E f \in Families : Here = SweepPhase[f] /\ server[f] # "none" /\ replays >= 2
        \/ phase_attempts(Here) = 0
=============================================================================
