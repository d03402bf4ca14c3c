---------------------------- MODULE OvernightProofs ----------------------------
(***************************************************************************)
(* First: the overnight loop is called complete only when both families    *)
(* were swept over whole adapters, for any number of adapters, attempts,   *)
(* invocations and replays.                                                *)
(*                                                                         *)
(* What carries over from one invocation to the next is on the disk and in *)
(* docker.  EffectInv says what a marker, a server and a finished sweep     *)
(* imply about the adapters; LoopInv what the loop knows at its phase.     *)
(*                                                                         *)
(* Then the servers: when the port answers a family it is the server of    *)
(* this family.  ServeInv says that a family that was served has a server. *)
(*                                                                         *)
(* And the failures: without a fault each one has a cause that the night   *)
(* or its operator brought about.  ReplayInv bounds from below the markers *)
(* that an operator deleted by the servers that are not where the markers  *)
(* say; CauseInv keeps the cause from the failed attempt to the exit.      *)
(***************************************************************************)
EXTENDS OvernightLoop, TLAPS

AtWork == on \in {"phases", "attempts", "command", "succeeded"}
InPhase == on \in {"attempts", "command", "succeeded"}

TypeInv ==
    /\ on \in {"off", "phases", "attempts", "command", "succeeded", "exit"}
    /\ opts \in Options /\ rehearsed \in BOOLEAN
    /\ at \in 1 .. 20 /\ progress \in Nat
    /\ InPhase => at \in 1 .. 19
    /\ on = "off" => at = 1
    /\ marker \in [Phases -> {"absent", "ran", "dry", "existed"}]
    /\ adapters \in [Families -> [TaskSet -> {"absent", "partial", "whole"}]]
    /\ server \in [Families -> {"none", "starting", "healthy"}]
    /\ swept \in [Families -> BOOLEAN]
    /\ on # "exit" => FINAL_STATUS = "running"

(***************************************************************************)
(* Verified or served adapters are there; a server that answers and a      *)
(* finished sweep have had whole ones; the marker of a sweep is that of a  *)
(* finished sweep.                                                         *)
(***************************************************************************)
EffectInv ==
    \A f \in Families :
        /\ marker[VerifyPhase[f]] # "absent" \/ server[f] # "none" => adapter_bundle_exists(f)
        /\ server[f] = "healthy" \/ swept[f] => BundleWhole(f)
        /\ marker[SweepPhase[f]] # "absent" => swept[f]

(***************************************************************************)
(* The phases before this one are marked; a family in training has neither *)
(* been served nor swept; a command that succeeded has had its effect; and *)
(* complete means complete.                                                *)
(***************************************************************************)
LoopInv ==
    /\ ~opts.dry
    /\ AtWork => \A j \in 1 .. at - 1 : marker[Plan[j]] # "absent"
    /\ \A f \in Families :
          /\ on \in {"attempts", "command"} /\ Here = TrainPhase[f] => server[f] = "none" /\ ~swept[f]
          /\ on = "succeeded" /\ Here = VerifyPhase[f] => adapter_bundle_exists(f)
          /\ on = "succeeded" /\ Here = SweepPhase[f] => swept[f]
    /\ on = "exit" /\ FINAL_STATUS = "complete" => \A f \in Families : swept[f]

(***************************************************************************)
(* state.json says complete only after the end, and for as long as the     *)
(* loop is not started again no adapter changes; a signal voids it.        *)
(***************************************************************************)
FileInv ==
    /\ AtWork => state_file.status # "complete"
    /\ state_file.status = "complete" /\ ~signalled =>
          \A f \in Families :
             /\ BundleWhole(f)
             /\ swept[f] \/ (on = "off" /\ marker[SweepPhase[f]] = "absent")
    /\ on = "exit" /\ FINAL_STATUS = "running" /\ exit_code = 0 => signalled

NightInv == TypeInv /\ (~rehearsed => EffectInv /\ LoopInv /\ FileInv)
------------------------------------------------------------------------------
LEMMA PlanFacts ==
    /\ Len(Plan) = 19 /\ DOMAIN Plan = 1 .. 19
    /\ \A i \in 1 .. 19 : Plan[i] \in Phases
    /\ \A f \in Families : {TrainPhase[f], VerifyPhase[f], ServePhase[f], WaitPhase[f], SweepPhase[f]} \subseteq Phases
BY DEF Plan, Phases, Families, TrainPhase, VerifyPhase, ServePhase, WaitPhase, SweepPhase

(***************************************************************************)
(* Where the phases are: adapters are verified before they are served, and *)
(* the sweeps come before the last phases.                                 *)
(***************************************************************************)
LEMMA PlanOrder ==
    ASSUME NEW f \in Families, NEW i \in 1 .. 20
    PROVE  /\ i \in 1 .. 19 /\ Plan[i] = ServePhase[f] => \E j \in 1 .. i - 1 : Plan[j] = VerifyPhase[f]
           /\ i > 18 => \E j \in 1 .. i - 1 : Plan[j] = SweepPhase[f]
<1>1. Plan[5] = VerifyPhase["second"] /\ Plan[7] = VerifyPhase["qwen"]
  BY DEF Plan, VerifyPhase
<1>2. Plan[10] = SweepPhase["second"] /\ Plan[13] = SweepPhase["qwen"]
  BY DEF Plan, SweepPhase
<1>3. i \in 1 .. 19 /\ Plan[i] = ServePhase["second"] => i > 5
  BY DEF Plan, ServePhase
<1>4. i \in 1 .. 19 /\ Plan[i] = ServePhase["qwen"] => i > 7
  BY DEF Plan, ServePhase
<1>5. CASE f = "second"
  BY <1>1, <1>2, <1>3, <1>5
<1>6. CASE f = "qwen"
  BY <1>1, <1>2, <1>4, <1>6
<1>. QED  BY <1>5, <1>6 DEF Families

(***************************************************************************)
(* A phase is of one family and of one kind.                               *)
(***************************************************************************)
LEMMA PhasesDiffer ==
    ASSUME NEW f \in Families, NEW g \in Families
    PROVE  /\ TrainPhase[f] \notin {VerifyPhase[g], ServePhase[g], WaitPhase[g], SweepPhase[g]}
           /\ VerifyPhase[f] \notin {ServePhase[g], WaitPhase[g], SweepPhase[g]}
           /\ ServePhase[f] \notin {WaitPhase[g], SweepPhase[g]}
           /\ WaitPhase[f] # SweepPhase[g]
           /\ f # g => /\ TrainPhase[f] # TrainPhase[g] /\ VerifyPhase[f] # VerifyPhase[g]
                       /\ ServePhase[f] # ServePhase[g] /\ WaitPhase[f] # WaitPhase[g]
                       /\ SweepPhase[f] # SweepPhase[g]
BY DEF Families, TrainPhase, VerifyPhase, ServePhase, WaitPhase, SweepPhase

LEMMA PlainPhasesDiffer ==
    ASSUME NEW f \in Families
    PROVE  {TrainPhase[f], VerifyPhase[f], ServePhase[f], WaitPhase[f], SweepPhase[f]}
           \cap (PlainPhases \cup {"build_sft_split"}) = {}
BY DEF Families, PlainPhases, TrainPhase, VerifyPhase, ServePhase, WaitPhase, SweepPhase

LEMMA WholeExists ==
    ASSUME NEW f \in Families, BundleWhole(f) PROVE adapter_bundle_exists(f)
BY DEF BundleWhole, adapter_bundle_exists
------------------------------------------------------------------------------
LEMMA DefaultsAreOptions == Defaults \in Options /\ ~Defaults.dry
BY DEF Defaults, Options

LEMMA NightInit == Init => NightInv
<1>. SUFFICES ASSUME Init PROVE NightInv
  OBVIOUS
<1>1. adapters \in [Families -> [TaskSet -> {"absent", "partial", "whole"}]]
  <2>1. PICK kept \in SUBSET Families :
           adapters = [f \in Families |-> [t \in TaskSet |-> IF f \in kept THEN "whole" ELSE "absent"]]
    BY DEF Init
  <2>2. ASSUME NEW f \in Families PROVE adapters[f] \in [TaskSet -> {"absent", "partial", "whole"}]
    BY <2>1
  <2>. QED  BY <2>1, <2>2
<1>2. TypeInv
  <2>1. /\ on = "off" /\ opts = Defaults /\ at = 1 /\ progress = 0 /\ FINAL_STATUS = "running"
        /\ marker = [p \in Phases |-> "absent"] /\ server = [f \in Families |-> "none"]
        /\ swept = [f \in Families |-> FALSE] /\ rehearsed = FALSE
    BY DEF Init
  <2>2. swept \in [Families -> BOOLEAN]
    BY <2>1
  <2>3. /\ marker \in [Phases -> {"absent", "ran", "dry", "existed"}]
        /\ server \in [Families -> {"none", "starting", "healthy"}]
    BY <2>1
  <2>4. opts \in Options /\ rehearsed \in BOOLEAN
    BY <2>1, DefaultsAreOptions
  <2>. QED  BY <1>1, <2>1, <2>2, <2>3, <2>4 DEF TypeInv, InPhase
<1>3. EffectInv
  BY PlanFacts DEF Init, EffectInv
<1>4. LoopInv
  BY DefaultsAreOptions DEF Init, LoopInv, AtWork
<1>5. FileInv
  BY DEF Init, FileInv, AtWork
<1>. QED  BY <1>2, <1>3, <1>4, <1>5 DEF NightInv

LEMMA HereIsPhase == TypeInv /\ InPhase => Here \in Phases
BY PlanFacts DEF TypeInv, Here

LEMMA AtPhaseIsPhase == TypeInv /\ AtPhase => at \in 1 .. 19 /\ Here \in Phases
BY PlanFacts DEF TypeInv, AtPhase, Here, LastPhase

LEMMA SavedTask ==
    ASSUME TypeInv, progress < 2 * Len(Tasks)
    PROVE  Tasks[progress \div 2 + 1] \in TaskSet
<1>1. progress \div 2 + 1 \in 1 .. Len(Tasks)
  BY TasksAssumption DEF TypeInv
<1>. QED  BY <1>1, TasksAssumption DEF TaskSet

(***************************************************************************)
(* Types: only the plan bounds at, only the training bounds progress.      *)
(***************************************************************************)
LEMMA TypeStep == TypeInv /\ [Next]_vars => TypeInv'
<1>. SUFFICES ASSUME TypeInv, [Next]_vars PROVE TypeInv'
  OBVIOUS
<1>. USE DEF TypeInv, InPhase, scriptVars, diskVars, historyVars, effectVars
<1>1. ASSUME NEW options \in Options, Invoke(options) PROVE TypeInv'
  BY <1>1 DEF Invoke
<1>2. ASSUME NEW p \in Phases, DeleteMarker(p) PROVE TypeInv'
  BY <1>2 DEF DeleteMarker
<1>3. CASE SkipTraining
  BY <1>3, AtPhaseIsPhase DEF AtPhase, SkipTraining, NextPhase
<1>4. CASE SkipDone \/ DryRun
  BY <1>4, AtPhaseIsPhase DEF AtPhase, SkipDone, DryRun, NextPhase, Announce
<1>5. CASE EnterPhase \/ NextAttempt \/ GiveUp
  BY <1>5, AtPhaseIsPhase DEF AtPhase, EnterPhase, NextAttempt, GiveUp, Announce
<1>6. CASE TouchMarker
  BY <1>6, HereIsPhase DEF TouchMarker, NextPhase
<1>7. CASE PlainCommand \/ BuildSft
  BY <1>7 DEF PlainCommand, BuildSft, Running, Succeeds, Ends
<1>8. ASSUME NEW f \in Families, BeginSave(f) \/ EndSave(f) PROVE TypeInv'
  <2>1. Tasks[progress \div 2 + 1] \in TaskSet
    BY <1>8, SavedTask DEF BeginSave, EndSave
  <2>2. PICK state \in {"partial", "whole"} :
           adapters' = [adapters EXCEPT ![f][Tasks[progress \div 2 + 1]] = state]
    BY <1>8 DEF BeginSave, EndSave
  <2>3. adapters' \in [Families -> [TaskSet -> {"absent", "partial", "whole"}]]
    BY <2>1, <2>2
  <2>4. progress' \in Nat /\ on = "command"
    BY <1>8 DEF BeginSave, EndSave, Trains, Running
  <2>. QED  BY <1>8, <2>3, <2>4 DEF BeginSave, EndSave
<1>9. ASSUME NEW f \in Families,
             TrainingEnds(f) \/ TrainingLacksData(f) \/ require_adapter_bundle(f)
             \/ wait_for_vllm_health(f) \/ WarmupTimesOut(f) \/ Sweep(f)
      PROVE  TypeInv'
  BY <1>9 DEF TrainingEnds, TrainingLacksData, require_adapter_bundle, wait_for_vllm_health, WarmupTimesOut,
     Sweep, Trains, Verifies, Running, Succeeds, Fails, Ends
<1>10. ASSUME NEW f \in Families, RestartServer(f) PROVE TypeInv'
  BY <1>10 DEF RestartServer, Running, Succeeds, Fails, Ends
<1>11. CASE CommandFails
  BY <1>11 DEF CommandFails, Fails, Ends
<1>12. CASE ScriptError \/ Interrupt \/ Kill \/ Complete \/ cleanup
  BY <1>12, DefaultsAreOptions DEF ScriptError, Interrupt, Kill, Complete, cleanup, Gone
<1>13. ASSUME NEW f \in Families, ServerIsUp(f) \/ ServerEnds(f) PROVE TypeInv'
  BY <1>13 DEF ServerIsUp, ServerEnds
<1>14. CASE UNCHANGED vars
  BY <1>14 DEF vars
<1>. QED
  BY <1>1, <1>2, <1>3, <1>4, <1>5, <1>6, <1>7, <1>8, <1>9, <1>10, <1>11, <1>12, <1>13, <1>14
     DEF Next, Script, run_phase, Command

(***************************************************************************)
(* What the disk and docker hold is only changed as EffectInv says.        *)
(***************************************************************************)
LEMMA EffectStep ==
    ASSUME TypeInv, EffectInv, LoopInv, [Next]_vars PROVE EffectInv'
<1>. USE DEF TypeInv, scriptVars, diskVars, historyVars, effectVars
<1>1. ASSUME UNCHANGED <<marker, adapters, server, swept>> PROVE EffectInv'
  BY <1>1 DEF EffectInv, adapter_bundle_exists, BundleWhole
<1>2. ASSUME NEW p \in Phases, DeleteMarker(p) PROVE EffectInv'
  BY <1>2, PlanFacts DEF DeleteMarker, EffectInv, adapter_bundle_exists, BundleWhole
<1>3. CASE SkipTraining
  <2>1. PICK f \in Families : Here = TrainPhase[f]
    BY <1>3 DEF SkipTraining, BundleAtHand
  <2>2. \A g \in Families : marker'[VerifyPhase[g]] = marker[VerifyPhase[g]]
                            /\ marker'[SweepPhase[g]] = marker[SweepPhase[g]]
    BY <1>3, <2>1, PhasesDiffer, PlanFacts DEF SkipTraining
  <2>. QED  BY <1>3, <2>2 DEF SkipTraining, EffectInv, adapter_bundle_exists, BundleWhole
<1>4. CASE DryRun
  BY <1>4 DEF DryRun, LoopInv
<1>5. CASE TouchMarker
  BY <1>5, HereIsPhase, PlanFacts
     DEF TouchMarker, InPhase, EffectInv, LoopInv, adapter_bundle_exists, BundleWhole
<1>6. ASSUME NEW f \in Families, BeginSave(f) \/ EndSave(f) PROVE EffectInv'
  <2>1. server[f] = "none" /\ ~swept[f]
    BY <1>6 DEF BeginSave, EndSave, Trains, Running, LoopInv
  <2>2. PICK state \in {"partial", "whole"} :
           adapters' = [adapters EXCEPT ![f][Tasks[progress \div 2 + 1]] = state]
    BY <1>6 DEF BeginSave, EndSave
  <2>3. UNCHANGED <<marker, server, swept>> /\ Tasks[progress \div 2 + 1] \in TaskSet
    BY <1>6, SavedTask DEF BeginSave, EndSave
  <2>4. adapter_bundle_exists(f) => adapter_bundle_exists(f)'
    BY <2>2, <2>3 DEF adapter_bundle_exists
  <2>5. \A g \in Families \ {f} : adapters'[g] = adapters[g]
    BY <2>2
  <2>. QED  BY <2>1, <2>3, <2>4, <2>5 DEF EffectInv, adapter_bundle_exists, BundleWhole
<1>7. ASSUME NEW f \in Families, RestartServer(f) PROVE EffectInv'
  <2>1. at \in 1 .. 19 /\ Plan[at] = ServePhase[f] /\ AtWork
    BY <1>7 DEF RestartServer, Running, Here, InPhase, AtWork
  <2>2. adapter_bundle_exists(f)
    BY <2>1, PlanOrder DEF LoopInv, EffectInv
  <2>3. /\ UNCHANGED <<marker, adapters, swept>> /\ server'[f] # "healthy"
        /\ \A g \in Families \ {f} : server'[g] = server[g]
    BY <1>7 DEF RestartServer, Succeeds, Fails, Ends
  <2>. QED  BY <2>2, <2>3 DEF EffectInv, adapter_bundle_exists, BundleWhole
<1>8. ASSUME NEW f \in Families, Sweep(f) PROVE EffectInv'
  BY <1>8 DEF Sweep, Succeeds, Fails, Ends, EffectInv, adapter_bundle_exists, BundleWhole
<1>9. CASE CommandFails
  BY <1>9 DEF CommandFails, Fails, Ends, EffectInv, adapter_bundle_exists, BundleWhole
<1>10. ASSUME NEW f \in Families, ServerIsUp(f) \/ ServerEnds(f) PROVE EffectInv'
  BY <1>10 DEF ServerIsUp, ServerEnds, EffectInv, adapter_bundle_exists, BundleWhole
<1>11. ASSUME NEW f \in Families,
              TrainingEnds(f) \/ TrainingLacksData(f) \/ require_adapter_bundle(f)
              \/ wait_for_vllm_health(f) \/ WarmupTimesOut(f)
       PROVE  EffectInv'
  BY <1>11, <1>1 DEF TrainingEnds, TrainingLacksData, require_adapter_bundle, wait_for_vllm_health,
     WarmupTimesOut, Succeeds, Fails, Ends
<1>12. CASE \/ \E options \in Options : Invoke(options)
            \/ SkipDone \/ EnterPhase \/ NextAttempt \/ GiveUp \/ PlainCommand \/ BuildSft
            \/ ScriptError \/ Interrupt \/ Kill \/ Complete \/ cleanup \/ UNCHANGED vars
  BY <1>12, <1>1 DEF Invoke, SkipDone, EnterPhase, NextAttempt, GiveUp, PlainCommand, BuildSft, Succeeds, Ends,
     ScriptError, Interrupt, Kill, Complete, cleanup, vars
<1>. QED
  BY <1>2, <1>3, <1>4, <1>5, <1>6, <1>7, <1>8, <1>9, <1>10, <1>11, <1>12 DEF Next, Script, run_phase, Command

(***************************************************************************)
(* The loop goes on to a phase when the one before has its marker, and no  *)
(* marker goes away while it runs.                                         *)
(***************************************************************************)
LEMMA MarkersStay ==
    ASSUME TypeInv, [Next]_vars, on # "off" \/ on' # "off", NEW p \in Phases, marker[p] # "absent"
    PROVE  marker'[p] # "absent"
<1>. USE DEF TypeInv, scriptVars, diskVars, historyVars, effectVars
<1>1. ASSUME UNCHANGED marker PROVE marker'[p] # "absent"
  BY <1>1
<1>2. CASE SkipTraining \/ DryRun \/ TouchMarker
  BY <1>2 DEF SkipTraining, DryRun, TouchMarker
<1>3. ASSUME NEW q \in Phases, DeleteMarker(q) PROVE FALSE
  BY <1>3 DEF DeleteMarker
<1>4. ASSUME NEW f \in Families, Command(f) \/ ServerIsUp(f) \/ ServerEnds(f) PROVE marker' = marker
  BY <1>4 DEF Command, BeginSave, EndSave, TrainingEnds, TrainingLacksData, require_adapter_bundle, RestartServer,
     wait_for_vllm_health, WarmupTimesOut, Sweep, Succeeds, Fails, Ends, ServerIsUp, ServerEnds
<1>5. CASE \/ \E options \in Options : Invoke(options)
           \/ SkipDone \/ EnterPhase \/ NextAttempt \/ GiveUp \/ PlainCommand \/ BuildSft
           \/ CommandFails \/ ScriptError \/ Interrupt \/ Kill \/ Complete \/ cleanup \/ UNCHANGED vars
  BY <1>5, <1>1 DEF Invoke, SkipDone, EnterPhase, NextAttempt, GiveUp, PlainCommand, BuildSft, Succeeds, Fails,
     Ends, CommandFails, ScriptError, Interrupt, Kill, Complete, cleanup, vars
<1>. QED  BY <1>1, <1>2, <1>3, <1>4, <1>5 DEF Next, Script, run_phase

LEMMA PhaseByPhase ==
    ASSUME TypeInv, [Next]_vars, on' # "off"
    PROVE  \/ at' = 1
           \/ AtWork /\ at' = at
           \/ AtWork /\ at' = at + 1 /\ marker'[Plan[at]] # "absent"
           \/ on = "exit"
<1>. USE DEF AtWork, TypeInv, scriptVars, diskVars, historyVars, effectVars
<1>1. CASE SkipTraining \/ SkipDone \/ DryRun
  BY <1>1, AtPhaseIsPhase DEF SkipTraining, SkipDone, DryRun, AtPhase, NextPhase, Here
<1>2. CASE TouchMarker
  BY <1>2, HereIsPhase DEF TouchMarker, NextPhase, Here, InPhase
<1>3. ASSUME NEW f \in Families, Command(f) PROVE at' = at /\ on = "command"
  BY <1>3 DEF Command, BeginSave, EndSave, TrainingEnds, TrainingLacksData, require_adapter_bundle, RestartServer,
     wait_for_vllm_health, WarmupTimesOut, Sweep, Trains, Verifies, Running, Succeeds, Fails, Ends
<1>4. ASSUME (\E f \in Families : ServerIsUp(f) \/ ServerEnds(f)) \/ UNCHANGED vars
      PROVE  at' = at /\ (AtWork \/ on = "exit")
  BY <1>4 DEF ServerIsUp, ServerEnds, vars
<1>5. ASSUME \/ EnterPhase \/ NextAttempt \/ GiveUp \/ PlainCommand \/ BuildSft
             \/ CommandFails \/ ScriptError \/ Interrupt \/ Complete
      PROVE  at' = at /\ AtWork
  BY <1>5 DEF EnterPhase, NextAttempt, GiveUp, PlainCommand, BuildSft, Running, Succeeds, Fails, Ends,
     CommandFails, ScriptError, Interrupt, Complete, AtPhase
<1>6. ASSUME NEW options \in Options, Invoke(options) PROVE at' = 1
  BY <1>6 DEF Invoke
<1>7. ASSUME NEW p \in Phases, DeleteMarker(p) PROVE on' = "off"
  BY <1>7 DEF DeleteMarker
<1>8. CASE Kill \/ cleanup
  BY <1>8 DEF Kill, cleanup, Gone
<1>9. on = "command" => AtWork
  OBVIOUS
<1>. HIDE DEF AtWork, TypeInv, scriptVars, diskVars, historyVars, effectVars
<1>. QED  BY <1>1, <1>2, <1>3, <1>4, <1>5, <1>6, <1>7, <1>8, <1>9 DEF Next, Script, run_phase

LEMMA NoReturn == TypeInv /\ [Next]_vars /\ on = "exit" => ~AtWork'
<1>. SUFFICES ASSUME TypeInv, [Next]_vars, on = "exit" PROVE ~AtWork'
  OBVIOUS
<1>1. ASSUME NEW f \in Families PROVE ~Command(f)
  BY DEF Command, BeginSave, EndSave, TrainingEnds, TrainingLacksData, require_adapter_bundle, RestartServer,
     wait_for_vllm_health, WarmupTimesOut, Sweep, Trains, Verifies, Running
<1>2. ASSUME NEW f \in Families, ServerIsUp(f) \/ ServerEnds(f) PROVE on' = on
  BY <1>2 DEF ServerIsUp, ServerEnds, scriptVars
<1>. QED
  BY <1>1, <1>2 DEF AtWork, Next, Script, run_phase, Invoke, DeleteMarker, SkipTraining, SkipDone, DryRun, EnterPhase,
     NextAttempt, TouchMarker, GiveUp, PlainCommand, BuildSft, Running, CommandFails, ScriptError, Interrupt, Complete, AtPhase,
     Kill, cleanup, Gone, vars, scriptVars

LEMMA EarlierPhase ==
    ASSUME NEW k \in 1 .. 20, NEW j \in 1 .. k - 1 PROVE Plan[j] \in Phases
<1>1. j \in 1 .. 19
  OBVIOUS
<1>. QED  BY <1>1, PlanFacts

LEMMA PassedStep ==
    ASSUME TypeInv, LoopInv, [Next]_vars
    PROVE  (AtWork => \A j \in 1 .. at - 1 : marker[Plan[j]] # "absent")'
<1>0. at' \in 1 .. 20
  BY TypeStep DEF TypeInv
<1>. SUFFICES ASSUME AtWork', NEW k \in 1 .. 20, k = at', NEW j \in 1 .. k - 1 PROVE marker'[Plan[j]] # "absent"
  BY <1>0 DEF AtWork
<1>1. on' # "off" /\ on # "exit" /\ at \in 1 .. 20 /\ at' \in 1 .. 20
  BY TypeStep, NoReturn DEF AtWork, TypeInv
<1>2. Plan[j] \in Phases
  BY EarlierPhase
<1>3. CASE AtWork /\ at' = at
  BY <1>3, <1>1, <1>2, MarkersStay DEF LoopInv
<1>4. CASE AtWork /\ at' = at + 1 /\ marker'[Plan[at]] # "absent"
  <2>1. CASE j = at
    BY <1>4, <2>1
  <2>2. CASE j \in 1 .. at - 1
    BY <2>2, <1>4, <1>1, <1>2, MarkersStay DEF LoopInv
  <2>. QED  BY <1>4, <1>1, <2>1, <2>2
<1>5. CASE at' = 1
  BY <1>5
<1>. QED  BY <1>1, <1>3, <1>4, <1>5, PhaseByPhase

(***************************************************************************)
(* A family in training has neither a server nor a sweep: training begins  *)
(* only when an adapter is missing, and no other phase runs meanwhile.     *)
(***************************************************************************)
LEMMA TrainingStep ==
    ASSUME TypeInv, EffectInv, LoopInv, [Next]_vars, NEW f \in Families
    PROVE  (on \in {"attempts", "command"} /\ Here = TrainPhase[f] => server[f] = "none" /\ ~swept[f])'
<1>. SUFFICES ASSUME on' \in {"attempts", "command"}, Here' = TrainPhase[f]
              PROVE  server'[f] = "none" /\ swept'[f] = FALSE
  BY TypeStep DEF TypeInv
<1>. USE DEF TypeInv, scriptVars, diskVars, historyVars, effectVars
<1>1. CASE EnterPhase
  <2>1. Here = TrainPhase[f] /\ ~adapter_bundle_exists(f) /\ UNCHANGED <<server, swept>>
    BY <1>1 DEF EnterPhase, Here, BundleAtHand
  <2>. QED  BY <2>1, WholeExists DEF EffectInv
<1>2. ASSUME on \in {"attempts", "command"}, Here = TrainPhase[f], UNCHANGED <<server, swept>>
      PROVE  server'[f] = "none" /\ swept'[f] = FALSE
  BY <1>2 DEF LoopInv
<1>3. ASSUME NEW g \in Families,
             BeginSave(g) \/ EndSave(g) \/ TrainingEnds(g) \/ TrainingLacksData(g) \/ require_adapter_bundle(g)
             \/ wait_for_vllm_health(g) \/ WarmupTimesOut(g)
      PROVE  server'[f] = "none" /\ swept'[f] = FALSE
  BY <1>3, <1>2 DEF BeginSave, EndSave, TrainingEnds, TrainingLacksData, require_adapter_bundle,
     wait_for_vllm_health, WarmupTimesOut, Trains, Verifies, Running, Here, Succeeds, Fails, Ends
<1>4. ASSUME NEW g \in Families, RestartServer(g) \/ Sweep(g) PROVE FALSE
  BY <1>4, PhasesDiffer DEF RestartServer, Sweep, Running, Here, Succeeds, Fails, Ends
<1>5. ASSUME NEW g \in Families, ServerIsUp(g) \/ ServerEnds(g) PROVE server'[f] = "none" /\ swept'[f] = FALSE
  BY <1>5 DEF ServerIsUp, ServerEnds, LoopInv, Here
<1>6. CASE CommandFails
  BY <1>6 DEF CommandFails, Fails, Ends, Here, LoopInv
<1>7. CASE NextAttempt \/ PlainCommand \/ BuildSft \/ UNCHANGED vars
  BY <1>7, <1>2 DEF NextAttempt, PlainCommand, BuildSft, Running, Succeeds, Ends, Here, vars
<1>8. CASE \/ \E options \in Options : Invoke(options) \/ \E p \in Phases : DeleteMarker(p)
           \/ SkipTraining \/ SkipDone \/ DryRun \/ TouchMarker \/ GiveUp \/ ScriptError \/ Interrupt \/ Kill \/ Complete \/ cleanup
  BY <1>8 DEF Invoke, DeleteMarker, SkipTraining, SkipDone, DryRun, TouchMarker, GiveUp, ScriptError, Interrupt, Kill, Complete,
     cleanup, NextPhase, Gone
<1>. QED
  BY <1>1, <1>3, <1>4, <1>5, <1>6, <1>7, <1>8 DEF Next, Script, run_phase, Command

(***************************************************************************)
(* A command that succeeded has had its effect.                            *)
(***************************************************************************)
LEMMA SuccessStep ==
    ASSUME TypeInv, LoopInv, [Next]_vars, NEW f \in Families
    PROVE  /\ (on = "succeeded" /\ Here = VerifyPhase[f] => adapter_bundle_exists(f))'
           /\ (on = "succeeded" /\ Here = SweepPhase[f] => swept[f])'
<1>. USE DEF TypeInv, scriptVars, diskVars, historyVars, effectVars
<1>. SUFFICES ASSUME on' = "succeeded"
              PROVE  /\ Here' = VerifyPhase[f] => adapter_bundle_exists(f)'
                     /\ Here' = SweepPhase[f] => swept'[f]
  OBVIOUS
<1>1. ASSUME on = "succeeded", UNCHANGED <<at, adapters, swept>>
      PROVE  /\ Here' = VerifyPhase[f] => adapter_bundle_exists(f)'
             /\ Here' = SweepPhase[f] => swept'[f]
  BY <1>1 DEF LoopInv, Here, adapter_bundle_exists
<1>2. ASSUME NEW g \in Families, require_adapter_bundle(g)
      PROVE  /\ Here' = VerifyPhase[f] => adapter_bundle_exists(f)'
             /\ Here' # SweepPhase[f]
  <2>1. Here' = Here /\ adapters' = adapters /\ adapter_bundle_exists(g)
    BY <1>2 DEF require_adapter_bundle, Succeeds, Fails, Ends, Here
  <2>2. Here \in {VerifyPhase[g], TrainPhase[g]}
    BY <1>2 DEF require_adapter_bundle, Verifies, Running
  <2>. QED  BY <2>1, <2>2, PhasesDiffer DEF adapter_bundle_exists
<1>3. ASSUME NEW g \in Families, Sweep(g)
      PROVE  Here' # VerifyPhase[f] /\ (Here' = SweepPhase[f] => swept'[f])
  <2>1. Here' = Here /\ Here = SweepPhase[g] /\ swept' = [swept EXCEPT ![g] = TRUE]
    BY <1>3 DEF Sweep, Running, Succeeds, Fails, Ends, Here
  <2>. QED  BY <2>1, PhasesDiffer
<1>4. ASSUME NEW g \in Families, TrainingEnds(g) \/ RestartServer(g) \/ wait_for_vllm_health(g)
      PROVE  Here' \notin {VerifyPhase[f], SweepPhase[f]}
  BY <1>4, PhasesDiffer
     DEF TrainingEnds, RestartServer, wait_for_vllm_health, Trains, Running, Succeeds, Fails, Ends, Here
<1>5. CASE PlainCommand \/ BuildSft
  BY <1>5, PlainPhasesDiffer DEF PlainCommand, BuildSft, Running, Succeeds, Ends, Here
<1>6. ASSUME NEW g \in Families, BeginSave(g) \/ EndSave(g) \/ TrainingLacksData(g) \/ WarmupTimesOut(g) PROVE FALSE
  BY <1>6 DEF BeginSave, EndSave, TrainingLacksData, WarmupTimesOut, Trains, Running, Fails, Ends
<1>7. ASSUME (\E g \in Families : ServerIsUp(g) \/ ServerEnds(g)) \/ UNCHANGED vars
      PROVE  on = "succeeded" /\ UNCHANGED <<at, adapters, swept>>
  BY <1>7 DEF ServerIsUp, ServerEnds, vars
<1>8. CASE \/ \E options \in Options : Invoke(options) \/ \E p \in Phases : DeleteMarker(p)
           \/ SkipTraining \/ SkipDone \/ DryRun \/ EnterPhase \/ NextAttempt \/ TouchMarker \/ GiveUp
           \/ CommandFails \/ ScriptError \/ Interrupt \/ Kill \/ Complete \/ cleanup
  BY <1>8 DEF Invoke, DeleteMarker, SkipTraining, SkipDone, DryRun, EnterPhase, NextAttempt, TouchMarker, GiveUp,
     CommandFails, ScriptError, Interrupt, Kill, Complete, cleanup, NextPhase, Gone, Fails, Ends
<1>. QED
  BY <1>1, <1>2, <1>3, <1>4, <1>5, <1>6, <1>7, <1>8 DEF Next, Script, run_phase, Command

(***************************************************************************)
(* At the end of the plan the sweeps are behind, with their markers.       *)
(***************************************************************************)
LEMMA CompleteStep ==
    ASSUME TypeInv, EffectInv, LoopInv, [Next]_vars, NEW f \in Families
    PROVE  (on = "exit" /\ FINAL_STATUS = "complete" => swept[f])'
<1>. SUFFICES ASSUME on' = "exit", FINAL_STATUS' = "complete" PROVE swept'[f]
  OBVIOUS
<1>. USE DEF TypeInv, scriptVars, diskVars, historyVars, effectVars
<1>1. CASE Complete
  <2>1. AtWork /\ at > 18 /\ at \in 1 .. 20 /\ swept' = swept
    BY <1>1, PlanFacts DEF Complete, AtWork, LastPhase
  <2>2. PICK j \in 1 .. at - 1 : Plan[j] = SweepPhase[f]
    BY <2>1, PlanOrder
  <2>3. marker[SweepPhase[f]] # "absent"
    BY <2>1, <2>2 DEF LoopInv
  <2>. QED  BY <2>1, <2>3 DEF EffectInv
<1>2. ASSUME on = "exit", UNCHANGED <<FINAL_STATUS, swept>> PROVE swept'[f]
  BY <1>2 DEF LoopInv
<1>3. ASSUME (\E g \in Families : ServerIsUp(g) \/ ServerEnds(g)) \/ UNCHANGED vars PROVE swept'[f]
  BY <1>3, <1>2 DEF ServerIsUp, ServerEnds, vars
<1>4. ASSUME NEW g \in Families PROVE ~Command(g)
  BY DEF Command, BeginSave, EndSave, TrainingEnds, TrainingLacksData, require_adapter_bundle, RestartServer,
     wait_for_vllm_health, WarmupTimesOut, Sweep, Trains, Verifies, Running, Succeeds, Fails, Ends
<1>5. ASSUME \/ \E options \in Options : Invoke(options) \/ \E p \in Phases : DeleteMarker(p)
             \/ SkipTraining \/ SkipDone \/ DryRun \/ EnterPhase \/ NextAttempt \/ TouchMarker \/ GiveUp
             \/ PlainCommand \/ BuildSft \/ CommandFails \/ ScriptError \/ Interrupt \/ Kill \/ cleanup
      PROVE  FALSE
  BY <1>5 DEF Invoke, DeleteMarker, SkipTraining, SkipDone, DryRun, EnterPhase, NextAttempt, TouchMarker, GiveUp,
     PlainCommand, BuildSft, CommandFails, ScriptError, Interrupt, Kill, cleanup, NextPhase, Gone, Succeeds, Fails, Ends
<1>. QED
  BY <1>1, <1>3, <1>4, <1>5 DEF Next, Script, run_phase

(***************************************************************************)
(* state.json is called complete by Complete and by cleanup only; an       *)
(* operator who deletes the marker of a sweep asks for it again.           *)
(***************************************************************************)
LEMMA FileStep ==
    ASSUME TypeInv, EffectInv, LoopInv, FileInv, [Next]_vars PROVE FileInv'
<1>. USE DEF TypeInv, AtWork, scriptVars, diskVars, historyVars, effectVars
<1>1. ASSUME state_file'.status # "complete",
             on' = "exit" /\ FINAL_STATUS' = "running" /\ exit_code' = 0 => signalled'
      PROVE  FileInv'
  BY <1>1 DEF FileInv
<1>2. ASSUME NEW f \in Families, Command(f) PROVE FileInv'
  <2>1. AtWork /\ state_file' = state_file /\ on' # "exit"
    BY <1>2 DEF Command, BeginSave, EndSave, TrainingEnds, TrainingLacksData, require_adapter_bundle, RestartServer,
       wait_for_vllm_health, WarmupTimesOut, Sweep, Trains, Verifies, Running, Succeeds, Fails, Ends
  <2>. QED  BY <2>1, <1>1 DEF FileInv
<1>3. CASE \/ SkipTraining \/ SkipDone \/ DryRun \/ EnterPhase \/ NextAttempt \/ TouchMarker \/ GiveUp
           \/ PlainCommand \/ BuildSft \/ CommandFails
  <2>1. AtWork /\ (state_file' = state_file \/ state_file'.status # "complete")
    BY <1>3 DEF SkipTraining, SkipDone, DryRun, EnterPhase, NextAttempt, TouchMarker, GiveUp, PlainCommand,
       BuildSft, CommandFails, AtPhase, Announce, Running, Succeeds, Fails, Ends
  <2>2. on' = "exit" => FINAL_STATUS' # "running"
    BY <1>3 DEF SkipTraining, SkipDone, DryRun, EnterPhase, NextAttempt, TouchMarker, GiveUp, PlainCommand,
       BuildSft, CommandFails, NextPhase, Succeeds, Fails, Ends
  <2>. QED  BY <2>1, <2>2, <1>1 DEF FileInv
<1>4. CASE ScriptError \/ Interrupt
  <2>1. AtWork /\ state_file' = state_file /\ (exit_code' = 1 \/ signalled')
    BY <1>4 DEF ScriptError, Interrupt
  <2>. QED  BY <2>1, <1>1 DEF FileInv
<1>5. ASSUME NEW options \in Options, Invoke(options) PROVE FileInv'
  BY <1>5, <1>1 DEF Invoke
<1>6. CASE Complete
  <2>1. EffectInv' /\ on' = "exit" /\ FINAL_STATUS' = "complete"
    BY <1>6, EffectStep DEF Complete
  <2>2. \A f \in Families : swept'[f]
    BY <2>1, CompleteStep
  <2>. QED  BY <2>1, <2>2 DEF FileInv, EffectInv
<1>7. ASSUME UNCHANGED <<adapters, swept, marker, signalled>>, on = "exit", on' = "off",
             state_file'.status = "complete" /\ ~signalled =>
                state_file.status = "complete" \/ FINAL_STATUS = "complete"
      PROVE  FileInv'
  <2>1. state_file'.status = "complete" /\ ~signalled => \A f \in Families : swept[f]
    BY <1>7 DEF FileInv, LoopInv
  <2>. QED  BY <1>7, <2>1 DEF FileInv, EffectInv, BundleWhole
<1>8. CASE cleanup
  <2>1. on = "exit" /\ on' = "off" /\ UNCHANGED <<adapters, swept, marker, signalled>>
    BY <1>8 DEF cleanup, Gone
  <2>2. state_file'.status = "complete" => FINAL_STATUS = "complete" \/ signalled
    BY <1>8 DEF cleanup, FileInv
  <2>. QED  BY <2>1, <2>2, <1>7
<1>9. CASE Kill
  <2>1. on' = "off" /\ UNCHANGED <<adapters, swept, marker, signalled>>
    BY <1>9 DEF Kill, Gone
  <2>2. state_file' = state_file \/ state_file'.status # "complete"
    BY <1>9 DEF Kill, Torn
  <2>3. CASE on = "exit"
    BY <2>1, <2>2, <2>3, <1>7
  <2>4. CASE AtWork
    BY <2>1, <2>2, <2>4, <1>1 DEF FileInv
  <2>. QED  BY <1>9, <2>3, <2>4 DEF Kill
<1>10. ASSUME NEW p \in Phases, DeleteMarker(p) PROVE FileInv'
  <2>1. /\ on = "off" /\ on' = "off" /\ UNCHANGED <<state_file, adapters, signalled>>
        /\ marker' = [marker EXCEPT ![p] = "absent"]
        /\ swept' = [f \in Families |-> swept[f] /\ p # SweepPhase[f]]
    BY <1>10 DEF DeleteMarker
  <2>2. ASSUME NEW f \in Families
        PROVE  swept[f] \/ marker[SweepPhase[f]] = "absent" => swept'[f] \/ marker'[SweepPhase[f]] = "absent"
    <3>1. SweepPhase[f] \in Phases
      BY PlanFacts
    <3>. QED  BY <2>1, <3>1
  <2>. QED  BY <2>1, <2>2 DEF FileInv, BundleWhole
<1>11. ASSUME UNCHANGED <<on, FINAL_STATUS, exit_code, state_file, adapters, swept, marker, signalled>>
       PROVE  FileInv'
  BY <1>11 DEF FileInv, BundleWhole
<1>12. CASE (\E f \in Families : ServerIsUp(f) \/ ServerEnds(f)) \/ UNCHANGED vars
  BY <1>12, <1>11 DEF ServerIsUp, ServerEnds, vars
<1>. QED
  BY <1>2, <1>3, <1>4, <1>5, <1>6, <1>8, <1>9, <1>10, <1>12 DEF Next, Script, run_phase

LEMMA NotDry ==
    ASSUME TypeInv, LoopInv, [Next]_vars, ~rehearsed' PROVE ~opts'.dry
<1>. USE DEF TypeInv, LoopInv, scriptVars, diskVars, historyVars, effectVars
<1>1. ASSUME NEW options \in Options, Invoke(options) PROVE ~opts'.dry
  BY <1>1 DEF Invoke
<1>2. CASE Kill \/ cleanup
  BY <1>2, DefaultsAreOptions DEF Kill, cleanup, Gone
<1>3. ASSUME NEW f \in Families, Command(f) \/ ServerIsUp(f) \/ ServerEnds(f) PROVE opts' = opts
  BY <1>3 DEF Command, BeginSave, EndSave, TrainingEnds, TrainingLacksData, require_adapter_bundle, RestartServer,
     wait_for_vllm_health, WarmupTimesOut, Sweep, Succeeds, Fails, Ends, ServerIsUp, ServerEnds
<1>4. CASE \/ \E p \in Phases : DeleteMarker(p)
           \/ SkipTraining \/ SkipDone \/ DryRun \/ EnterPhase \/ NextAttempt \/ TouchMarker \/ GiveUp
           \/ PlainCommand \/ BuildSft \/ CommandFails \/ ScriptError \/ Interrupt \/ Complete \/ UNCHANGED vars
  BY <1>4 DEF DeleteMarker, SkipTraining, SkipDone, DryRun, EnterPhase, NextAttempt, TouchMarker, GiveUp,
     PlainCommand, BuildSft, CommandFails, ScriptError, Interrupt, Complete, NextPhase, Succeeds, Fails, Ends, vars
<1>. QED  BY <1>1, <1>2, <1>3, <1>4 DEF Next, Script, run_phase

LEMMA StaysRehearsed == TypeInv /\ [Next]_vars /\ rehearsed => rehearsed'
<1>. SUFFICES ASSUME TypeInv, [Next]_vars, rehearsed PROVE rehearsed'
  OBVIOUS
<1>. USE DEF TypeInv, scriptVars, diskVars, historyVars, effectVars
<1>1. ASSUME NEW f \in Families, Command(f) \/ ServerIsUp(f) \/ ServerEnds(f) PROVE rehearsed' = rehearsed
  BY <1>1 DEF Command, BeginSave, EndSave, TrainingEnds, TrainingLacksData, require_adapter_bundle, RestartServer,
     wait_for_vllm_health, WarmupTimesOut, Sweep, Succeeds, Fails, Ends, ServerIsUp, ServerEnds
<1>. QED
  BY <1>1 DEF Next, Script, run_phase, Invoke, DeleteMarker, SkipTraining, SkipDone, DryRun, EnterPhase, NextAttempt,
     TouchMarker, GiveUp, PlainCommand, BuildSft, CommandFails, ScriptError, Interrupt, Kill, Complete, cleanup, Succeeds,
     Fails, Ends, vars

LEMMA NightStep == NightInv /\ [Next]_vars => NightInv'
<1>. SUFFICES ASSUME NightInv, [Next]_vars PROVE NightInv'
  OBVIOUS
<1>1. TypeInv /\ TypeInv'
  BY TypeStep DEF NightInv
<1>2. CASE rehearsed'
  BY <1>1, <1>2 DEF NightInv
<1>3. CASE ~rehearsed'
  <2>1. EffectInv /\ LoopInv /\ FileInv
    BY <1>1, <1>3, StaysRehearsed DEF NightInv
  <2>2. EffectInv'
    BY <1>1, <2>1, EffectStep
  <2>3. LoopInv'
    BY <1>1, <1>3, <2>1, NotDry, PassedStep, TrainingStep, SuccessStep, CompleteStep DEF LoopInv
  <2>4. FileInv'
    BY <1>1, <2>1, FileStep
  <2>. QED  BY <1>1, <2>2, <2>3, <2>4 DEF NightInv
<1>. QED  BY <1>2, <1>3
------------------------------------------------------------------------------
(***************************************************************************)
(* write_state, cleanup: however often the loop was killed, failed,        *)
(* resumed or asked to replay a phase, state.json says complete only when  *)
(* both families have been swept and their adapters are whole, unless a    *)
(* dry run or a signal came in between.                                    *)
(***************************************************************************)
THEOREM CompleteIsAlwaysEarned == Spec => []CompleteIsEarned
<1>1. NightInv => CompleteIsEarned
  BY DEF NightInv, FileInv, CompleteIsEarned
<1>. QED  BY <1>1, NightInit, NightStep, PTL DEF Spec
------------------------------------------------------------------------------
(***************************************************************************)
(* Attempts are counted, and a command runs only where attempts are        *)
(* allowed.                                                                *)
(***************************************************************************)
CountInv ==
    /\ attempt \in Nat /\ replays \in Nat
    /\ sft \in BOOLEAN /\ fault \in BOOLEAN
    /\ lost \in [Families -> BOOLEAN]
    /\ on = "command" => attempt > 0 /\ phase_attempts(Here) > 0

(***************************************************************************)
(* The port is published once.                                             *)
(***************************************************************************)
OneServer == \A f, g \in Families : server[f] # "none" /\ server[g] # "none" => f = g

(***************************************************************************)
(* A phase under way has no marker; a family that has been served has a    *)
(* server unless its container ended.                                      *)
(***************************************************************************)
ServeInv ==
    /\ InPhase => marker[Here] = "absent"
    /\ \A f \in Families :
          marker[ServePhase[f]] # "absent" \/ (on = "succeeded" /\ Here = ServePhase[f]) =>
              lost[f] \/ server[f] # "none"

(***************************************************************************)
(* A command of a family ends or goes on where it is; the rest of the loop *)
(* stays.                                                                  *)
(***************************************************************************)
LEMMA CommandFrame ==
    ASSUME NEW f \in Families, Command(f)
    PROVE  /\ on = "command" /\ on' \in {"command", "attempts", "succeeded"}
           /\ UNCHANGED <<opts, at, attempt, exit_code, FINAL_STATUS, CURRENT_PHASE, marker, state_file, sft,
                          signalled, rehearsed, invocations, replays>>
           /\ Here' = Here
<1>1. CASE BeginSave(f) \/ EndSave(f)
  BY <1>1 DEF BeginSave, EndSave, Trains, Running, historyVars, Here
<1>2. CASE TrainingEnds(f) \/ TrainingLacksData(f) \/ require_adapter_bundle(f)
  BY <1>2 DEF TrainingEnds, TrainingLacksData, require_adapter_bundle, Trains, Verifies, Running, Succeeds, Fails,
     Ends, effectVars, Here
<1>3. CASE RestartServer(f) \/ wait_for_vllm_health(f) \/ WarmupTimesOut(f) \/ Sweep(f)
  BY <1>3 DEF RestartServer, wait_for_vllm_health, WarmupTimesOut, Sweep, Running, Succeeds, Fails,
     Ends, effectVars, Here
<1>. QED  BY <1>1, <1>2, <1>3 DEF Command

(***************************************************************************)
(* A command keeps the types of the record of what happened.               *)
(***************************************************************************)
LEMMA CommandTypes ==
    ASSUME TypeInv, CountInv, NEW f \in Families, Command(f)
    PROVE  fault' \in BOOLEAN /\ lost' \in [Families -> BOOLEAN]
<1>. USE DEF TypeInv, CountInv, historyVars, effectVars
<1>1. CASE BeginSave(f) \/ EndSave(f)
  BY <1>1 DEF BeginSave, EndSave
<1>2. CASE TrainingEnds(f) \/ TrainingLacksData(f) \/ require_adapter_bundle(f)
  BY <1>2 DEF TrainingEnds, TrainingLacksData, require_adapter_bundle
<1>3. CASE RestartServer(f) \/ wait_for_vllm_health(f) \/ WarmupTimesOut(f) \/ Sweep(f)
  BY <1>3 DEF RestartServer, wait_for_vllm_health, WarmupTimesOut, Sweep
<1>. QED  BY <1>1, <1>2, <1>3 DEF Command

(***************************************************************************)
(* A new directory has no attempt, no server and no marker.                *)
(***************************************************************************)
LEMMA CountInit == Init => CountInv /\ OneServer /\ ServeInv
<1>. SUFFICES ASSUME Init PROVE CountInv /\ OneServer /\ ServeInv
  OBVIOUS
<1>1. /\ on = "off" /\ attempt = 0 /\ replays = 0 /\ sft = FALSE /\ fault = FALSE
      /\ lost = [f \in Families |-> FALSE] /\ server = [f \in Families |-> "none"]
      /\ marker = [p \in Phases |-> "absent"]
  BY DEF Init
<1>2. lost \in [Families -> BOOLEAN]
  BY <1>1
<1>3. CountInv
  BY <1>1, <1>2 DEF CountInv
<1>4. OneServer
  BY <1>1 DEF OneServer
<1>5. ServeInv
  BY <1>1, PlanFacts DEF ServeInv, InPhase
<1>. QED  BY <1>3, <1>4, <1>5

(***************************************************************************)
(* phase_attempts gives a number of attempts, zero where none is allowed.  *)
(***************************************************************************)
LEMMA AttemptsAreNat == \A p : phase_attempts(p) \in Nat
BY RetriesAssumption DEF phase_attempts

(***************************************************************************)
(* Entering a phase starts the count of its attempts, and each attempt     *)
(* adds one to it.                                                         *)
(***************************************************************************)
LEMMA CountStep == TypeInv /\ CountInv /\ [Next]_vars => CountInv'
<1>. SUFFICES ASSUME TypeInv, CountInv, [Next]_vars PROVE CountInv'
  OBVIOUS
<1>1. ASSUME NEW f \in Families, Command(f) PROVE CountInv'
  BY <1>1, CommandFrame, CommandTypes DEF CountInv, phase_attempts
<1>2. CASE NextAttempt
  <2>1. attempt' = attempt + 1 /\ Here' = Here /\ attempt < phase_attempts(Here)
        /\ UNCHANGED <<replays, sft, fault, lost>>
    BY <1>2 DEF NextAttempt, historyVars, diskVars, Here
  <2>. QED  BY <2>1, AttemptsAreNat DEF CountInv, phase_attempts
<1>3. CASE SkipTraining \/ SkipDone \/ DryRun \/ EnterPhase \/ TouchMarker \/ GiveUp
  BY <1>3 DEF SkipTraining, SkipDone, DryRun, EnterPhase, TouchMarker, GiveUp, NextPhase, historyVars, CountInv
<1>4. CASE PlainCommand \/ BuildSft
  BY <1>4 DEF PlainCommand, BuildSft, Succeeds, Ends, effectVars, CountInv
<1>5. CASE CommandFails
  BY <1>5 DEF CommandFails, Fails, Ends, effectVars, CountInv
<1>6. CASE ScriptError \/ Interrupt \/ Kill \/ Complete \/ cleanup
  <2>1. CASE ScriptError \/ Interrupt
    BY <2>1 DEF ScriptError, Interrupt, diskVars, CountInv
  <2>2. CASE Complete
    BY <2>2 DEF Complete, historyVars, CountInv
  <2>3. CASE Kill \/ cleanup
    <3>1. on' = "off" /\ attempt' = 0 /\ fault' \in BOOLEAN /\ UNCHANGED <<sft, lost, replays>>
      BY <2>3 DEF Kill, cleanup, Gone, historyVars, CountInv
    <3>. QED  BY <3>1 DEF CountInv
  <2>. QED  BY <1>6, <2>1, <2>2, <2>3
<1>7. ASSUME (\E options \in Options : Invoke(options)) \/ (\E p \in Phases : DeleteMarker(p)) PROVE CountInv'
  BY <1>7 DEF Invoke, DeleteMarker, scriptVars, CountInv
<1>8. ASSUME NEW f \in Families, ServerIsUp(f) \/ ServerEnds(f) PROVE CountInv'
  BY <1>8 DEF ServerIsUp, ServerEnds, scriptVars, diskVars, historyVars, CountInv, Here, phase_attempts, BundleWhole
<1>9. CASE UNCHANGED vars
  BY <1>9 DEF vars, scriptVars, diskVars, historyVars, CountInv, Here, phase_attempts
<1>. QED
  BY <1>1, <1>2, <1>3, <1>4, <1>5, <1>6, <1>7, <1>8, <1>9 DEF Next, Script, run_phase

(***************************************************************************)
(* Only the restart starts a server, and docker refuses it the port.       *)
(***************************************************************************)
LEMMA OneServerStep == TypeInv /\ OneServer /\ [Next]_vars => OneServer'
<1>. SUFFICES ASSUME TypeInv, OneServer, [Next]_vars PROVE OneServer'
  OBVIOUS
<1>. USE DEF TypeInv
<1>1. ASSUME UNCHANGED server PROVE OneServer'
  BY <1>1 DEF OneServer
<1>2. ASSUME NEW f \in Families, RestartServer(f) PROVE OneServer'
  BY <1>2 DEF RestartServer, OneServer, PortTakenFrom
<1>3. ASSUME NEW f \in Families, Command(f), ~RestartServer(f) PROVE OneServer'
  BY <1>3, <1>1 DEF Command, BeginSave, EndSave, TrainingEnds, TrainingLacksData, require_adapter_bundle,
     wait_for_vllm_health, WarmupTimesOut, Sweep, effectVars
<1>4. CASE CommandFails
  BY <1>4, <1>1 DEF CommandFails, effectVars, OneServer
<1>5. ASSUME NEW f \in Families, ServerIsUp(f) \/ ServerEnds(f) PROVE OneServer'
  BY <1>5 DEF ServerIsUp, ServerEnds, OneServer
<1>6. CASE \/ SkipTraining \/ SkipDone \/ DryRun \/ EnterPhase \/ NextAttempt \/ TouchMarker \/ GiveUp
           \/ PlainCommand \/ BuildSft \/ ScriptError \/ Interrupt \/ Kill \/ Complete \/ cleanup \/ UNCHANGED vars
  BY <1>6, <1>1 DEF SkipTraining, SkipDone, DryRun, EnterPhase, NextAttempt, TouchMarker, GiveUp, PlainCommand,
     BuildSft, ScriptError, Interrupt, Kill, Complete, cleanup, effectVars, vars
<1>7. ASSUME (\E options \in Options : Invoke(options)) \/ (\E p \in Phases : DeleteMarker(p)) PROVE OneServer'
  BY <1>7, <1>1 DEF Invoke, DeleteMarker
<1>. QED
  BY <1>2, <1>3, <1>4, <1>5, <1>6, <1>7 DEF Next, Script, run_phase

(***************************************************************************)
(* run_phase enters a phase without a marker and touches the marker of a   *)
(* serve phase only after the restart, whose server stays until its        *)
(* container ends or another restart of the family.                        *)
(***************************************************************************)
LEMMA ServeStep ==
    ASSUME TypeInv, CountInv, LoopInv, ServeInv, [Next]_vars PROVE ServeInv'
<1>. USE DEF TypeInv, CountInv
<1>1. ASSUME UNCHANGED <<marker, lost, server>>, ~InPhase' \/ (UNCHANGED on /\ Here' = Here) PROVE ServeInv'
  BY <1>1 DEF ServeInv, InPhase
<1>2. ASSUME NEW f \in Families, RestartServer(f) PROVE ServeInv'
  <2>1. /\ Here = ServePhase[f] /\ Here' = Here /\ marker' = marker /\ marker[Here] = "absent"
        /\ on' = "succeeded" => server' = [server EXCEPT ![f] = "starting"]
        /\ on' # "succeeded" => lost' = lost
        /\ \A g \in Families \ {f} : server'[g] = server[g] /\ lost'[g] = lost[g]
    BY <1>2 DEF RestartServer, Running, Succeeds, Fails, Ends, Here, ServeInv, InPhase
  <2>2. \A g \in Families \ {f} : ServePhase[g] # Here
    BY <2>1, PhasesDiffer
  <2>3. on = "command"
    BY <1>2 DEF RestartServer, Running
  <2>4. ASSUME NEW g \in Families,
               marker'[ServePhase[g]] # "absent" \/ (on' = "succeeded" /\ Here' = ServePhase[g])
        PROVE  lost'[g] \/ server'[g] # "none"
    <3>1. CASE g = f
      BY <2>1, <2>4, <3>1
    <3>2. CASE g # f
      BY <2>1, <2>2, <2>4, <3>2 DEF ServeInv
    <3>. QED  BY <3>1, <3>2
  <2>. QED  BY <2>1, <2>4 DEF ServeInv
<1>3. ASSUME NEW f \in Families, Command(f), ~RestartServer(f) PROVE ServeInv'
  <2>1. on = "command" /\ Here' = Here /\ marker' = marker
    BY <1>3, CommandFrame
  <2>2. UNCHANGED <<server, lost>>
    BY <1>3 DEF Command, BeginSave, EndSave, TrainingEnds, TrainingLacksData, require_adapter_bundle,
       wait_for_vllm_health, WarmupTimesOut, Sweep, effectVars, historyVars
  <2>3. on' = "succeeded" => \A g \in Families : Here # ServePhase[g]
    BY <1>3, PhasesDiffer DEF Command, BeginSave, EndSave, TrainingEnds, TrainingLacksData, require_adapter_bundle,
       wait_for_vllm_health, WarmupTimesOut, Sweep, Trains, Verifies, Running, Succeeds, Fails, Ends
  <2>. QED  BY <2>1, <2>2, <2>3 DEF ServeInv, InPhase
<1>4. CASE CommandFails
  <2>1. on = "command" /\ on' = "attempts" /\ Here' = Here /\ UNCHANGED <<marker, lost>>
    BY <1>4 DEF CommandFails, Fails, Ends, effectVars, Here
  <2>2. marker[Here] = "absent"
    BY <2>1 DEF ServeInv, InPhase
  <2>3. \A g \in Families : server'[g] = server[g] \/ Here = ServePhase[g]
    BY <1>4 DEF CommandFails, effectVars
  <2>. QED  BY <2>1, <2>2, <2>3 DEF ServeInv, InPhase
<1>5. CASE PlainCommand \/ BuildSft
  <2>1. on = "command" /\ on' = "succeeded" /\ Here' = Here /\ UNCHANGED <<marker, lost, server>>
    BY <1>5 DEF PlainCommand, BuildSft, Running, Succeeds, Ends, effectVars, Here
  <2>2. \A g \in Families : Here # ServePhase[g]
    BY <1>5, PlainPhasesDiffer DEF PlainCommand, BuildSft, Running
  <2>. QED  BY <2>1, <2>2 DEF ServeInv, InPhase
<1>6. CASE SkipTraining
  <2>1. PICK g \in Families : Here = TrainPhase[g]
    BY <1>6 DEF SkipTraining, BundleAtHand
  <2>2. \A f \in Families : marker'[ServePhase[f]] = marker[ServePhase[f]]
    BY <1>6, <2>1, PhasesDiffer, PlanFacts DEF SkipTraining
  <2>3. UNCHANGED <<lost, server>> /\ on' = "phases"
    BY <1>6 DEF SkipTraining, NextPhase, historyVars
  <2>. QED  BY <2>2, <2>3 DEF ServeInv, InPhase
<1>7. CASE TouchMarker
  <2>1. /\ marker' = [marker EXCEPT ![Here] = "ran"] /\ on = "succeeded" /\ on' = "phases"
        /\ UNCHANGED <<lost, server>>
    BY <1>7 DEF TouchMarker, NextPhase, historyVars
  <2>2. \A g \in Families : ServePhase[g] \in Phases
    BY PlanFacts
  <2>. QED  BY <2>1, <2>2 DEF ServeInv, InPhase
<1>8. CASE DryRun
  BY <1>8 DEF DryRun, LoopInv
<1>9. CASE EnterPhase
  BY <1>9 DEF EnterPhase, historyVars, Here, ServeInv, InPhase
<1>10. CASE NextAttempt
  BY <1>10 DEF NextAttempt, historyVars, diskVars, Here, ServeInv, InPhase
<1>11. CASE \/ \E options \in Options : Invoke(options)
            \/ SkipDone \/ GiveUp \/ ScriptError \/ Interrupt \/ Kill \/ Complete \/ cleanup
  BY <1>11, <1>1 DEF Invoke, SkipDone, GiveUp, ScriptError, Interrupt, Kill, Complete, cleanup, Gone, NextPhase,
     historyVars, diskVars, InPhase
<1>12. ASSUME NEW p \in Phases, DeleteMarker(p) PROVE ServeInv'
  BY <1>12, PlanFacts DEF DeleteMarker, scriptVars, ServeInv, InPhase
<1>13. ASSUME NEW f \in Families, ServerIsUp(f) \/ ServerEnds(f) PROVE ServeInv'
  BY <1>13 DEF ServerIsUp, ServerEnds, scriptVars, diskVars, historyVars, Here, ServeInv, InPhase
<1>14. CASE UNCHANGED vars
  BY <1>14, <1>1 DEF vars, scriptVars, diskVars, historyVars, Here
<1>. QED
  BY <1>2, <1>3, <1>4, <1>5, <1>6, <1>7, <1>8, <1>9, <1>10, <1>11, <1>12, <1>13, <1>14 DEF Next, Script, run_phase

(***************************************************************************)
(* A family is served before it is waited for and waited for before its    *)
(* sweep, which comes next.                                                *)
(***************************************************************************)
LEMMA ServedFirst ==
    ASSUME NEW f \in Families, NEW i \in 1 .. 19, Plan[i] \in {WaitPhase[f], SweepPhase[f]}
    PROVE  \E j \in 1 .. i - 1 : Plan[j] = ServePhase[f]
<1>1. CASE f = "second"
  <2>1. Plan[8] = ServePhase[f]
    BY <1>1 DEF Plan, ServePhase
  <2>2. i \in {9, 10}
    BY <1>1 DEF Plan, WaitPhase, SweepPhase
  <2>. QED  BY <2>1, <2>2
<1>2. CASE f = "qwen"
  <2>1. Plan[11] = ServePhase[f]
    BY <1>2 DEF Plan, ServePhase
  <2>2. i \in {12, 13}
    BY <1>2 DEF Plan, WaitPhase, SweepPhase
  <2>. QED  BY <2>1, <2>2
<1>. QED  BY <1>1, <1>2 DEF Families

(***************************************************************************)
(* At the wait and at the sweep of a family its serve phase is behind the  *)
(* loop.                                                                   *)
(***************************************************************************)
LEMMA HasServer ==
    ASSUME TypeInv, LoopInv, ServeInv, NEW f \in Families, InPhase, Here \in {WaitPhase[f], SweepPhase[f]}
    PROVE  marker[ServePhase[f]] # "absent" /\ (lost[f] \/ server[f] # "none")
<1>1. at \in 1 .. 19 /\ AtWork
  BY DEF TypeInv, InPhase, AtWork
<1>2. PICK j \in 1 .. at - 1 : Plan[j] = ServePhase[f]
  BY <1>1, ServedFirst DEF Here
<1>. QED  BY <1>1, <1>2 DEF LoopInv, ServeInv

(***************************************************************************)
(* What is known of the servers, with the night as it was known before.    *)
(***************************************************************************)
ServerInv == NightInv /\ CountInv /\ OneServer /\ (~rehearsed => ServeInv)

(***************************************************************************)
(* It holds in the initial states.                                         *)
(***************************************************************************)
LEMMA ServerInvInit == Init => ServerInv
BY NightInit, CountInit DEF ServerInv

(***************************************************************************)
(* No step breaks it; no step undoes a dry run.                            *)
(***************************************************************************)
LEMMA ServerInvStep == ServerInv /\ [Next]_vars => ServerInv'
<1>. SUFFICES ASSUME ServerInv, [Next]_vars PROVE ServerInv'
  OBVIOUS
<1>1. TypeInv /\ NightInv' /\ CountInv' /\ OneServer'
  BY NightStep, CountStep, OneServerStep DEF ServerInv, NightInv
<1>2. ASSUME ~rehearsed' PROVE ServeInv'
  BY <1>1, <1>2, StaysRehearsed, ServeStep DEF ServerInv, NightInv
<1>. QED  BY <1>1, <1>2 DEF ServerInv

(***************************************************************************)
(* restart_local_vllm_lora.sh, wait_for_vllm_health: when the port answers *)
(* the wait of a family and when its sweep begins, the server of this      *)
(* family is there, for any number of resumptions and replays, unless its  *)
(* container ended or a dry run left its markers.                          *)
(***************************************************************************)
THEOREM OwnServerAlwaysAnswers == Spec => OwnServerAnswers
<1>1. ServerInv /\ [Next]_vars =>
        [\A f \in Families :
          /\ ~rehearsed /\ ~lost[f]
          /\ \/ on = "command" /\ on' = "succeeded" /\ Here = WaitPhase[f]
             \/ on = "attempts" /\ on' = "command" /\ Here = SweepPhase[f]
          => server[f] # "none"]_vars
  BY HasServer DEF ServerInv, NightInv, InPhase
<1>. QED  BY <1>1, ServerInvInit, ServerInvStep, PTL DEF Spec, OwnServerAnswers
------------------------------------------------------------------------------
(***************************************************************************)
(* The effects of the first phases: the split is there, and the adapters   *)
(* of a family are there once its training phase is done, for a training   *)
(* that goes on saves one after the other.                                 *)
(***************************************************************************)
SplitInv == marker["build_sft_split"] # "absent" \/ (on = "succeeded" /\ Here = "build_sft_split") => sft

(***************************************************************************)
(* The training phase of a family is behind, or just ended well.           *)
(***************************************************************************)
TrainDone(f) == marker[TrainPhase[f]] # "absent" \/ (on = "succeeded" /\ Here = TrainPhase[f])

(***************************************************************************)
(* The training of a family runs.                                          *)
(***************************************************************************)
InTraining(f) == on = "command" /\ Here = TrainPhase[f]

(***************************************************************************)
(* The adapters a training has saved so far, in the order of the tasks.    *)
(***************************************************************************)
Saved(f) ==
    /\ progress <= 2 * Len(Tasks)
    /\ \A i \in 1 .. Len(Tasks) : 2 * i <= progress + 1 => adapters[f][Tasks[i]] # "absent"

(***************************************************************************)
(* Adapters are there after the training and, one by one, during it.       *)
(***************************************************************************)
TrainInv ==
    \A f \in Families :
        /\ TrainDone(f) => adapter_bundle_exists(f)
        /\ InTraining(f) => Saved(f)

(***************************************************************************)
(* The phase of the split is none of a family.                             *)
(***************************************************************************)
LEMMA SplitPhase ==
    /\ "build_sft_split" \in Phases
    /\ \A f \in Families : "build_sft_split" \notin {TrainPhase[f], VerifyPhase[f], ServePhase[f], WaitPhase[f], SweepPhase[f]}
    /\ "build_sft_split" \notin PlainPhases
BY DEF Phases, Plan, Families, TrainPhase, VerifyPhase, ServePhase, WaitPhase, SweepPhase, PlainPhases

(***************************************************************************)
(* A command of a family runs at a phase of this family.                   *)
(***************************************************************************)
LEMMA CommandPlace ==
    ASSUME NEW f \in Families, Command(f)
    PROVE  Here \in {TrainPhase[f], VerifyPhase[f], ServePhase[f], WaitPhase[f], SweepPhase[f]}
BY DEF Command, BeginSave, EndSave, TrainingEnds, TrainingLacksData, require_adapter_bundle, RestartServer,
   wait_for_vllm_health, WarmupTimesOut, Sweep, Trains, Verifies, Running

(***************************************************************************)
(* Only a build that wrote the split gets its marker, and nothing removes  *)
(* the split.                                                              *)
(***************************************************************************)
LEMMA SplitStep ==
    ASSUME TypeInv, LoopInv, SplitInv, [Next]_vars PROVE SplitInv'
<1>. USE DEF TypeInv
<1>1. ASSUME NEW f \in Families, Command(f) PROVE SplitInv'
  BY <1>1, CommandFrame, CommandPlace, SplitPhase DEF SplitInv
<1>2. CASE PlainCommand
  BY <1>2, SplitPhase DEF PlainCommand, Succeeds, Ends, effectVars, Here, SplitInv
<1>3. CASE BuildSft
  BY <1>3 DEF BuildSft, SplitInv
<1>4. CASE CommandFails
  BY <1>4 DEF CommandFails, Fails, Ends, effectVars, SplitInv
<1>5. CASE SkipTraining
  <2>1. PICK g \in Families : Here = TrainPhase[g]
    BY <1>5 DEF SkipTraining, BundleAtHand
  <2>2. marker'["build_sft_split"] = marker["build_sft_split"]
    BY <1>5, <2>1, SplitPhase DEF SkipTraining
  <2>. QED  BY <1>5, <2>2 DEF SkipTraining, NextPhase, SplitInv
<1>6. CASE TouchMarker
  BY <1>6, SplitPhase DEF TouchMarker, NextPhase, SplitInv
<1>7. CASE DryRun
  BY <1>7 DEF DryRun, LoopInv
<1>8. CASE EnterPhase \/ SkipDone
  BY <1>8 DEF EnterPhase, SkipDone, NextPhase, SplitInv
<1>9. CASE NextAttempt \/ GiveUp \/ ScriptError \/ Interrupt \/ Kill \/ Complete \/ cleanup
  BY <1>9 DEF NextAttempt, GiveUp, ScriptError, Interrupt, Kill, Complete, cleanup, Gone, diskVars, SplitInv
<1>10. ASSUME NEW options \in Options, Invoke(options) PROVE SplitInv'
  BY <1>10 DEF Invoke, SplitInv
<1>11. ASSUME NEW p \in Phases, DeleteMarker(p) PROVE SplitInv'
  BY <1>11, SplitPhase DEF DeleteMarker, scriptVars, SplitInv
<1>12. ASSUME NEW f \in Families, ServerIsUp(f) \/ ServerEnds(f) PROVE SplitInv'
  BY <1>12 DEF ServerIsUp, ServerEnds, scriptVars, diskVars, Here, SplitInv
<1>13. CASE UNCHANGED vars
  BY <1>13 DEF vars, scriptVars, diskVars, Here, SplitInv
<1>. QED
  BY <1>1, <1>2, <1>3, <1>4, <1>5, <1>6, <1>7, <1>8, <1>9, <1>10, <1>11, <1>12, <1>13 DEF Next, Script, run_phase

(***************************************************************************)
(* Adapters do not go away.                                                *)
(***************************************************************************)
LEMMA AdaptersStay ==
    ASSUME TypeInv, [Next]_vars, NEW f \in Families, NEW t \in TaskSet, adapters[f][t] # "absent"
    PROVE  adapters'[f][t] # "absent"
<1>. USE DEF TypeInv
<1>1. ASSUME UNCHANGED adapters PROVE adapters'[f][t] # "absent"
  BY <1>1
<1>2. ASSUME NEW g \in Families, BeginSave(g) \/ EndSave(g) PROVE adapters'[f][t] # "absent"
  <2>1. PICK state \in {"partial", "whole"} :
           adapters' = [adapters EXCEPT ![g][Tasks[progress \div 2 + 1]] = state]
    BY <1>2 DEF BeginSave, EndSave
  <2>2. Tasks[progress \div 2 + 1] \in TaskSet
    BY <1>2, SavedTask DEF BeginSave, EndSave
  <2>. QED  BY <2>1, <2>2
<1>3. ASSUME NEW g \in Families, Command(g), ~(BeginSave(g) \/ EndSave(g)) PROVE UNCHANGED adapters
  BY <1>3 DEF Command, TrainingEnds, TrainingLacksData, require_adapter_bundle, RestartServer,
     wait_for_vllm_health, WarmupTimesOut, Sweep, effectVars
<1>4. CASE \/ SkipTraining \/ SkipDone \/ DryRun \/ EnterPhase \/ NextAttempt \/ TouchMarker \/ GiveUp
           \/ PlainCommand \/ BuildSft \/ CommandFails \/ ScriptError \/ Interrupt \/ Kill \/ Complete \/ cleanup
           \/ UNCHANGED vars
  BY <1>4, <1>1 DEF SkipTraining, SkipDone, DryRun, EnterPhase, NextAttempt, TouchMarker, GiveUp, PlainCommand,
     BuildSft, CommandFails, ScriptError, Interrupt, Kill, Complete, cleanup, effectVars, diskVars, vars
<1>5. ASSUME (\E options \in Options : Invoke(options)) \/ (\E p \in Phases : DeleteMarker(p)) PROVE UNCHANGED adapters
  BY <1>5 DEF Invoke, DeleteMarker
<1>6. ASSUME NEW g \in Families, ServerIsUp(g) \/ ServerEnds(g) PROVE UNCHANGED adapters
  BY <1>6 DEF ServerIsUp, ServerEnds, diskVars
<1>. QED
  BY <1>1, <1>2, <1>3, <1>4, <1>5, <1>6 DEF Next, Script, run_phase

(***************************************************************************)
(* So a bundle that is there stays.                                        *)
(***************************************************************************)
LEMMA BundleStays ==
    ASSUME TypeInv, [Next]_vars, NEW f \in Families, adapter_bundle_exists(f)
    PROVE  adapter_bundle_exists(f)'
BY AdaptersStay DEF adapter_bundle_exists

(***************************************************************************)
(* The tasks are numbered once each.                                       *)
(***************************************************************************)
LEMMA TasksFacts ==
    /\ Len(Tasks) \in Nat \ {0} /\ DOMAIN Tasks = 1 .. Len(Tasks)
    /\ \A i \in 1 .. Len(Tasks) : Tasks[i] \in TaskSet
    /\ \A t \in TaskSet : \E i \in 1 .. Len(Tasks) : t = Tasks[i]
    /\ \A i, j \in 1 .. Len(Tasks) : Tasks[i] = Tasks[j] => i = j
<1>1. DOMAIN Tasks = 1 .. Len(Tasks)
  BY TasksAssumption
<1>. QED  BY <1>1, TasksAssumption DEF TaskSet

(***************************************************************************)
(* What a training has saved stays.                                        *)
(***************************************************************************)
LEMMA SavedStays ==
    ASSUME TypeInv, [Next]_vars, NEW f \in Families, Saved(f), progress' = progress
    PROVE  Saved(f)'
<1>1. \A i \in 1 .. Len(Tasks) : adapters[f][Tasks[i]] # "absent" => adapters'[f][Tasks[i]] # "absent"
  BY TasksFacts, AdaptersStay
<1>. QED  BY <1>1 DEF Saved

(***************************************************************************)
(* A training ends well only after its last save, and is skipped only      *)
(* where the bundle is there.                                              *)
(***************************************************************************)
LEMMA TrainStep ==
    ASSUME TypeInv, LoopInv, TrainInv, [Next]_vars PROVE TrainInv'
<1>. USE DEF TypeInv
<1>0. /\ Len(Tasks) \in Nat \ {0} /\ \A i \in 1 .. Len(Tasks) : Tasks[i] \in TaskSet
      /\ \A f \in Families : TrainPhase[f] \in Phases
  BY TasksFacts, PlanFacts
<1>1. ASSUME NEW f \in Families,
             TrainDone(f)' => TrainDone(f) \/ adapter_bundle_exists(f),
             InTraining(f)' => (InTraining(f) /\ progress' = progress) \/ Saved(f)'
      PROVE  (TrainDone(f) => adapter_bundle_exists(f))' /\ (InTraining(f) => Saved(f))'
  <2>1. adapter_bundle_exists(f) => adapter_bundle_exists(f)'
    BY BundleStays
  <2>2. Saved(f) /\ progress' = progress => Saved(f)'
    BY SavedStays
  <2>3. (TrainDone(f) => adapter_bundle_exists(f)) /\ (InTraining(f) => Saved(f))
    BY <1>1 DEF TrainInv
  <2>. QED  BY <1>1, <2>1, <2>2, <2>3
<1>2. ASSUME \A f \in Families : (TrainDone(f)' => TrainDone(f)) /\ ~InTraining(f)'
      PROVE  TrainInv'
  BY <1>1, <1>2 DEF TrainInv
<1>3. ASSUME NEW f \in Families, BeginSave(f) \/ EndSave(f) PROVE TrainInv'
  <2>1. /\ InTraining(f) /\ on' = on /\ Here' = Here /\ marker' = marker /\ progress' = progress + 1
        /\ progress < 2 * Len(Tasks)
    BY <1>3 DEF BeginSave, EndSave, Trains, Running, InTraining, Here
  <2>2. PICK state \in {"partial", "whole"} :
           adapters' = [adapters EXCEPT ![f][Tasks[progress \div 2 + 1]] = state]
    BY <1>3 DEF BeginSave, EndSave
  <2>3. progress \div 2 + 1 \in 1 .. Len(Tasks) /\ Tasks[progress \div 2 + 1] \in TaskSet
    BY <2>1, <1>0
  <2>4. Saved(f)'
    <3>1. ASSUME NEW i \in 1 .. Len(Tasks), 2 * i <= progress + 2 PROVE adapters'[f][Tasks[i]] # "absent"
      <4>1. CASE 2 * i <= progress + 1
        <5>1. Saved(f)
          BY <1>3, <2>1 DEF TrainInv
        <5>2. adapters[f][Tasks[i]] # "absent"
          BY <5>1, <4>1 DEF Saved
        <5>. QED  BY <5>2, <2>2, <2>3, <1>0
      <4>2. CASE 2 * i > progress + 1
        <5>1. i = progress \div 2 + 1
          BY <3>1, <4>2
        <5>. QED  BY <5>1, <2>2, <2>3
      <4>. QED  BY <4>1, <4>2
    <3>2. progress + 1 <= 2 * Len(Tasks)
      BY <2>1, <1>0
    <3>3. (progress + 1) + 1 = progress + 2
      OBVIOUS
    <3>. QED  BY <2>1, <3>1, <3>2, <3>3 DEF Saved
  <2>5. \A g \in Families : TrainDone(g)' => TrainDone(g)
    BY <2>1 DEF TrainDone
  <2>6. \A g \in Families : InTraining(g)' => g = f
    BY <2>1, PhasesDiffer DEF InTraining
  <2>. QED  BY <1>1, <2>4, <2>5, <2>6 DEF TrainInv
<1>4. ASSUME NEW f \in Families, TrainingEnds(f) PROVE TrainInv'
  <2>1. InTraining(f) /\ Here' = Here /\ on' = "succeeded" /\ marker' = marker /\ progress = 2 * Len(Tasks)
    BY <1>4 DEF TrainingEnds, Trains, Running, Succeeds, Ends, InTraining, Here
  <2>2. adapter_bundle_exists(f)
    <3>1. \A i \in 1 .. Len(Tasks) : 2 * i <= progress + 1
      BY <2>1, <1>0
    <3>2. \A i \in 1 .. Len(Tasks) : adapters[f][Tasks[i]] # "absent"
      <4>1. Saved(f)
        BY <1>4, <2>1 DEF TrainInv
      <4>. QED  BY <4>1, <3>1 DEF Saved
    <3>. QED  BY <3>2, TasksFacts DEF adapter_bundle_exists
  <2>3. \A g \in Families : g # f /\ TrainDone(g)' => TrainDone(g)
    BY <2>1, PhasesDiffer DEF TrainDone, InTraining
  <2>4. \A g \in Families : ~InTraining(g)'
    BY <2>1 DEF InTraining
  <2>. QED  BY <1>1, <2>2, <2>3, <2>4 DEF TrainInv
<1>5. ASSUME NEW f \in Families, require_adapter_bundle(f) PROVE TrainInv'
  <2>1. /\ on = "command" /\ on' \in {"succeeded", "attempts"} /\ Here' = Here /\ marker' = marker
        /\ on' = "succeeded" => adapter_bundle_exists(f)
        /\ Here \in {VerifyPhase[f], TrainPhase[f]}
    BY <1>5 DEF require_adapter_bundle, Verifies, Running, Succeeds, Fails, Ends, Here
  <2>2. \A g \in Families : TrainDone(g)' => TrainDone(g) \/ adapter_bundle_exists(g)
    BY <2>1, PhasesDiffer DEF TrainDone
  <2>3. \A g \in Families : ~InTraining(g)'
    BY <2>1 DEF InTraining
  <2>. QED  BY <1>1, <2>2, <2>3 DEF TrainInv
<1>6. ASSUME NEW f \in Families, TrainingLacksData(f) \/ WarmupTimesOut(f) PROVE TrainInv'
  BY <1>6, <1>2 DEF TrainingLacksData, WarmupTimesOut, Fails, Ends, TrainDone, InTraining
<1>7. ASSUME NEW f \in Families, RestartServer(f) \/ wait_for_vllm_health(f) \/ Sweep(f) PROVE TrainInv'
  <2>1. on' \in {"succeeded", "attempts"} /\ Here' = Here /\ marker' = marker
        /\ Here \in {ServePhase[f], WaitPhase[f], SweepPhase[f]}
    BY <1>7 DEF RestartServer, wait_for_vllm_health, Sweep, Running, Succeeds, Fails, Ends, Here
  <2>2. \A g \in Families : Here # TrainPhase[g]
    BY <2>1, PhasesDiffer
  <2>. QED  BY <2>1, <2>2, <1>2 DEF TrainDone, InTraining
<1>8. CASE PlainCommand \/ BuildSft
  <2>1. on' = "succeeded" /\ Here' = Here /\ marker' = marker /\ Here \in PlainPhases \cup {"build_sft_split"}
    BY <1>8 DEF PlainCommand, BuildSft, Running, Succeeds, Ends, Here
  <2>2. \A g \in Families : Here # TrainPhase[g]
    BY <2>1, PlainPhasesDiffer
  <2>. QED  BY <2>1, <2>2, <1>2 DEF TrainDone, InTraining
<1>9. CASE CommandFails
  BY <1>9, <1>2 DEF CommandFails, Fails, Ends, TrainDone, InTraining
<1>10. CASE SkipTraining
  <2>1. PICK f \in Families : Here = TrainPhase[f] /\ adapter_bundle_exists(f)
    BY <1>10 DEF SkipTraining, BundleAtHand
  <2>2. on' = "phases" /\ (marker' = marker \/ marker' = [marker EXCEPT ![Here] = "existed"])
    BY <1>10 DEF SkipTraining, NextPhase
  <2>3. \A g \in Families \ {f} : TrainPhase[g] # Here
    BY <2>1, PhasesDiffer
  <2>4. \A g \in Families : (TrainDone(g)' => TrainDone(g) \/ adapter_bundle_exists(g)) /\ ~InTraining(g)'
    BY <2>1, <2>2, <2>3, <1>0 DEF TrainDone, InTraining
  <2>. QED  BY <1>1, <2>4 DEF TrainInv
<1>11. CASE TouchMarker
  <2>1. on = "succeeded" /\ on' = "phases" /\ marker' = [marker EXCEPT ![Here] = "ran"]
    BY <1>11 DEF TouchMarker, NextPhase
  <2>. QED  BY <2>1, <1>2, <1>0 DEF TrainDone, InTraining
<1>12. CASE DryRun
  BY <1>12 DEF DryRun, LoopInv
<1>13. CASE NextAttempt
  <2>1. on' = "command" /\ Here' = Here /\ marker' = marker /\ progress' = 0
    BY <1>13 DEF NextAttempt, diskVars, Here
  <2>2. \A f \in Families : TrainDone(f)' => TrainDone(f)
    BY <2>1 DEF TrainDone
  <2>3. \A f \in Families : Saved(f)'
    BY <2>1, <1>0 DEF Saved
  <2>. QED  BY <2>2, <2>3, <1>1 DEF TrainInv
<1>14. CASE EnterPhase \/ SkipDone
  BY <1>14, <1>2 DEF EnterPhase, SkipDone, NextPhase, TrainDone, InTraining
<1>15. CASE GiveUp \/ ScriptError \/ Interrupt \/ Kill \/ Complete \/ cleanup
  BY <1>15, <1>2 DEF GiveUp, ScriptError, Interrupt, Kill, Complete, cleanup, Gone, diskVars, TrainDone, InTraining
<1>16. ASSUME NEW options \in Options, Invoke(options) PROVE TrainInv'
  BY <1>16, <1>2 DEF Invoke, TrainDone, InTraining
<1>17. ASSUME NEW p \in Phases, DeleteMarker(p) PROVE TrainInv'
  BY <1>17, <1>2, <1>0 DEF DeleteMarker, scriptVars, TrainDone, InTraining
<1>18. ASSUME (\E f \in Families : ServerIsUp(f) \/ ServerEnds(f)) \/ UNCHANGED vars PROVE TrainInv'
  <2>1. UNCHANGED <<on, at, marker, progress>>
    BY <1>18 DEF ServerIsUp, ServerEnds, scriptVars, diskVars, vars
  <2>2. \A f \in Families : (TrainDone(f)' => TrainDone(f)) /\ (InTraining(f)' => InTraining(f) /\ progress' = progress)
    BY <2>1 DEF TrainDone, InTraining, Here
  <2>. QED  BY <2>2, <1>1 DEF TrainInv
<1>. QED
  BY <1>3, <1>4, <1>5, <1>6, <1>7, <1>8, <1>9, <1>10, <1>11, <1>12, <1>13, <1>14, <1>15, <1>16, <1>17, <1>18
     DEF Next, Script, run_phase, Command
------------------------------------------------------------------------------
(***************************************************************************)
(* Where nothing fails by itself no container ends, and the only adapter   *)
(* that is not whole is the one being saved.                               *)
(***************************************************************************)
NonePartial == \A f \in Families : \A t \in TaskSet : adapters[f][t] # "partial"

Saving(f, t) == /\ Trains(f) /\ progress < 2 * Len(Tasks) /\ progress % 2 = 1
                /\ t = Tasks[progress \div 2 + 1]

QuietInv ==
    \A f \in Families :
        /\ ~lost[f]
        /\ \A t \in TaskSet : adapters[f][t] = "partial" => Saving(f, t)

(***************************************************************************)
(* A new directory has whole adapters or none.                             *)
(***************************************************************************)
LEMMA QuietInit == Init => QuietInv /\ SplitInv /\ TrainInv
<1>. SUFFICES ASSUME Init PROVE QuietInv /\ SplitInv /\ TrainInv
  OBVIOUS
<1>1. PICK kept \in SUBSET Families :
         adapters = [f \in Families |-> [t \in TaskSet |-> IF f \in kept THEN "whole" ELSE "absent"]]
  BY DEF Init
<1>2. \A f \in Families : \A t \in TaskSet : adapters[f][t] # "partial"
  BY <1>1
<1>3. QuietInv
  BY <1>2 DEF QuietInv, Init
<1>4. SplitInv /\ TrainInv
  BY SplitPhase, PlanFacts DEF SplitInv, TrainInv, TrainDone, InTraining, Init
<1>. QED  BY <1>3, <1>4

(***************************************************************************)
(* The split is built before a training, a family is verified after its    *)
(* training, and its sweep follows its wait.                               *)
(***************************************************************************)
LEMMA TrainedFirst ==
    ASSUME NEW f \in Families, NEW i \in 1 .. 19
    PROVE  /\ Plan[i] = TrainPhase[f] => \E j \in 1 .. i - 1 : Plan[j] = "build_sft_split"
           /\ Plan[i] = VerifyPhase[f] => \E j \in 1 .. i - 1 : Plan[j] = TrainPhase[f]
           /\ Plan[i] = WaitPhase[f] => i + 1 \in 1 .. 19 /\ Plan[i + 1] = SweepPhase[f]
           /\ Plan[i] = SweepPhase[f] => \E j \in 1 .. i - 1 : Plan[j] = WaitPhase[f]
<1>0. Plan[3] = "build_sft_split"
  BY DEF Plan
<1>1. CASE f = "second"
  <2>1. Plan[4] = TrainPhase[f] /\ Plan[9] = WaitPhase[f] /\ Plan[10] = SweepPhase[f]
    BY <1>1 DEF Plan, TrainPhase, WaitPhase, SweepPhase
  <2>2. /\ Plan[i] = TrainPhase[f] => i = 4
        /\ Plan[i] = VerifyPhase[f] => i = 5
        /\ Plan[i] = WaitPhase[f] => i = 9
        /\ Plan[i] = SweepPhase[f] => i = 10
    BY <1>1 DEF Plan, TrainPhase, VerifyPhase, WaitPhase, SweepPhase
  <2>. QED  BY <1>0, <2>1, <2>2
<1>2. CASE f = "qwen"
  <2>1. Plan[6] = TrainPhase[f] /\ Plan[12] = WaitPhase[f] /\ Plan[13] = SweepPhase[f]
    BY <1>2 DEF Plan, TrainPhase, WaitPhase, SweepPhase
  <2>2. /\ Plan[i] = TrainPhase[f] => i = 6
        /\ Plan[i] = VerifyPhase[f] => i = 7
        /\ Plan[i] = WaitPhase[f] => i = 12
        /\ Plan[i] = SweepPhase[f] => i = 13
    BY <1>2 DEF Plan, TrainPhase, VerifyPhase, WaitPhase, SweepPhase
  <2>. QED  BY <1>0, <2>1, <2>2
<1>. QED  BY <1>1, <1>2 DEF Families

(***************************************************************************)
(* The phases that a training, a verification and a sweep rely on have     *)
(* their markers.                                                          *)
(***************************************************************************)
LEMMA Behind ==
    ASSUME TypeInv, LoopInv, InPhase, NEW f \in Families
    PROVE  /\ Here = TrainPhase[f] => marker["build_sft_split"] # "absent"
           /\ Here = VerifyPhase[f] => marker[TrainPhase[f]] # "absent"
           /\ Here = SweepPhase[f] => marker[WaitPhase[f]] # "absent"
<1>1. at \in 1 .. 19 /\ AtWork
  BY DEF TypeInv, InPhase, AtWork
<1>2. \A j \in 1 .. at - 1 : marker[Plan[j]] # "absent"
  BY <1>1 DEF LoopInv
<1>. QED  BY <1>1, <1>2, TrainedFirst DEF Here

(***************************************************************************)
(* A fault that happened is not forgotten.                                 *)
(***************************************************************************)
LEMMA FaultStays == CountInv /\ [Next]_vars /\ fault => fault'
<1>. SUFFICES ASSUME CountInv, [Next]_vars, fault PROVE fault'
  OBVIOUS
<1>. USE DEF CountInv
<1>1. ASSUME NEW f \in Families, Command(f) PROVE fault'
  BY <1>1 DEF Command, BeginSave, EndSave, TrainingEnds, TrainingLacksData, require_adapter_bundle, RestartServer,
     wait_for_vllm_health, WarmupTimesOut, Sweep, historyVars
<1>2. ASSUME NEW f \in Families, ServerIsUp(f) \/ ServerEnds(f) PROVE fault'
  BY <1>2 DEF ServerIsUp, ServerEnds, historyVars
<1>3. CASE \/ SkipTraining \/ SkipDone \/ DryRun \/ EnterPhase \/ NextAttempt \/ TouchMarker \/ GiveUp
           \/ PlainCommand \/ BuildSft \/ CommandFails
  BY <1>3 DEF SkipTraining, SkipDone, DryRun, EnterPhase, NextAttempt, TouchMarker, GiveUp, PlainCommand, BuildSft,
     CommandFails, historyVars
<1>4. CASE \/ ScriptError \/ Interrupt \/ Kill \/ Complete \/ cleanup \/ UNCHANGED vars
           \/ (\E options \in Options : Invoke(options)) \/ (\E p \in Phases : DeleteMarker(p))
  BY <1>4 DEF ScriptError, Interrupt, Kill, Complete, cleanup, Invoke, DeleteMarker, historyVars, vars
<1>. QED  BY <1>1, <1>2, <1>3, <1>4 DEF Next, Script, run_phase

(***************************************************************************)
(* The container of a family that is served has whole adapters to load.    *)
(***************************************************************************)
LEMMA ServedIsWhole ==
    ASSUME TypeInv, EffectInv, LoopInv, QuietInv, NEW f \in Families, server[f] # "none"
    PROVE  BundleWhole(f)
<1>1. adapter_bundle_exists(f)
  BY DEF EffectInv
<1>2. ASSUME NEW t \in TaskSet PROVE adapters[f][t] # "partial"
  <2>. SUFFICES ASSUME adapters[f][t] = "partial" PROVE FALSE
    OBVIOUS
  <2>1. on = "command" /\ Here = TrainPhase[f]
    BY DEF QuietInv, Saving, Trains, Running
  <2>. QED  BY <2>1 DEF LoopInv
<1>. QED  BY <1>1, <1>2 DEF TypeInv, adapter_bundle_exists, BundleWhole

(***************************************************************************)
(* So it does not end by itself.                                           *)
(***************************************************************************)
LEMMA NoEnd ==
    ASSUME TypeInv, EffectInv, LoopInv, QuietInv, NEW f \in Families, ServerEnds(f)
    PROVE  fault'
BY ServedIsWhole DEF ServerEnds

(***************************************************************************)
(* A training finds its split.                                             *)
(***************************************************************************)
LEMMA HasData ==
    ASSUME TypeInv, LoopInv, SplitInv, NEW f \in Families PROVE ~TrainingLacksData(f)
BY Behind DEF TrainingLacksData, Trains, Running, InPhase, SplitInv

(***************************************************************************)
(* A training killed during a save is a fault; any other one finishes its  *)
(* save.                                                                   *)
(***************************************************************************)
LEMMA QuietStep ==
    ASSUME TypeInv, CountInv, EffectInv, LoopInv, SplitInv, QuietInv, [Next]_vars, ~fault' PROVE QuietInv'
<1>. USE DEF TypeInv
<1>1. ASSUME NonePartial, UNCHANGED <<adapters, lost>> PROVE QuietInv'
  BY <1>1 DEF NonePartial, QuietInv
<1>2. ASSUME \A f \in Families, t \in TaskSet : ~Saving(f, t) PROVE NonePartial
  BY <1>2 DEF QuietInv, NonePartial
<1>3. ASSUME \/ on # "command"
             \/ \A f \in Families : Here # TrainPhase[f]
      PROVE  NonePartial
  BY <1>2, <1>3 DEF Saving, Trains, Running
<1>4. ASSUME NEW f \in Families, BeginSave(f) PROVE QuietInv'
  <2>1. /\ Trains(f) /\ progress < 2 * Len(Tasks) /\ progress % 2 = 0 /\ progress' = progress + 1
        /\ adapters' = [adapters EXCEPT ![f][Tasks[progress \div 2 + 1]] = "partial"]
        /\ UNCHANGED <<lost, on, at, opts>>
    BY <1>4 DEF BeginSave, historyVars
  <2>2. NonePartial
    BY <2>1, <1>2 DEF Saving
  <2>3. Tasks[progress \div 2 + 1] \in TaskSet
    BY <2>1, SavedTask
  <2>4a. Trains(f)'
    BY <2>1 DEF Trains, Running, Here
  <2>4b. progress \in Nat /\ Len(Tasks) \in Nat
    BY TasksFacts
  <2>4. progress' < 2 * Len(Tasks) /\ progress' % 2 = 1 /\ progress' \div 2 + 1 = progress \div 2 + 1
    BY <2>1, <2>4b
  <2>5. Saving(f, Tasks[progress \div 2 + 1])'
    BY <2>4, <2>4a DEF Saving
  <2>6. \A g \in Families, t \in TaskSet :
           adapters'[g][t] = "partial" => g = f /\ t = Tasks[progress \div 2 + 1]
    BY <2>1, <2>2, <2>3 DEF NonePartial
  <2>. QED  BY <2>1, <2>5, <2>6 DEF QuietInv
<1>5. ASSUME NEW f \in Families, EndSave(f) PROVE QuietInv'
  <2>1. /\ Trains(f) /\ progress < 2 * Len(Tasks)
        /\ adapters' = [adapters EXCEPT ![f][Tasks[progress \div 2 + 1]] = "whole"]
        /\ UNCHANGED lost
    BY <1>5 DEF EndSave, historyVars
  <2>2. \A g \in Families, t \in TaskSet :
           adapters[g][t] = "partial" => g = f /\ t = Tasks[progress \div 2 + 1]
    BY <1>5, <2>1, PhasesDiffer DEF QuietInv, Saving, Trains, Running
  <2>3. Tasks[progress \div 2 + 1] \in TaskSet
    BY <2>1, SavedTask
  <2>4. NonePartial'
    BY <2>1, <2>2, <2>3 DEF NonePartial
  <2>. QED  BY <2>1, <2>4 DEF QuietInv, NonePartial
<1>6. ASSUME NEW f \in Families, TrainingEnds(f) PROVE QuietInv'
  <2>1. progress = 2 * Len(Tasks) /\ UNCHANGED <<adapters, lost>>
    BY <1>6 DEF TrainingEnds, effectVars
  <2>2. NonePartial
    BY <2>1, <1>2, TasksFacts DEF Saving
  <2>. QED  BY <2>1, <2>2, <1>1
<1>7. ASSUME NEW f \in Families, require_adapter_bundle(f) PROVE QuietInv'
  <2>1. Verifies(f) /\ UNCHANGED <<adapters, lost>>
    BY <1>7 DEF require_adapter_bundle, effectVars
  <2>2. \A g \in Families : ~Trains(g)
    BY <1>7, <2>1, PhasesDiffer DEF Verifies, Trains, Running
  <2>. QED  BY <2>1, <2>2, <1>1, <1>2 DEF Saving
<1>8. ASSUME NEW f \in Families, RestartServer(f) \/ wait_for_vllm_health(f) \/ WarmupTimesOut(f) \/ Sweep(f)
      PROVE  QuietInv'
  <2>1. UNCHANGED adapters /\ (lost' = lost \/ lost' = [lost EXCEPT ![f] = FALSE])
        /\ Here \in {ServePhase[f], WaitPhase[f], SweepPhase[f]}
    BY <1>8 DEF RestartServer, wait_for_vllm_health, WarmupTimesOut, Sweep, Running, effectVars
  <2>2. \A g \in Families : Here # TrainPhase[g]
    BY <1>8, <2>1, PhasesDiffer
  <2>3. NonePartial
    BY <2>2, <1>3
  <2>4. \A g \in Families : ~lost'[g]
    BY <2>1 DEF QuietInv, CountInv
  <2>. QED  BY <2>1, <2>3, <2>4 DEF QuietInv, NonePartial
<1>9. CASE PlainCommand \/ BuildSft
  <2>1. Here \in PlainPhases \cup {"build_sft_split"} /\ UNCHANGED <<adapters, lost>>
    BY <1>9 DEF PlainCommand, BuildSft, Running, effectVars
  <2>2. \A g \in Families : Here # TrainPhase[g]
    BY <2>1, PlainPhasesDiffer
  <2>. QED  BY <2>1, <2>2, <1>1, <1>3
<1>10. CASE CommandFails \/ ScriptError \/ Interrupt \/ Kill
  BY <1>10 DEF CommandFails, ScriptError, Interrupt, Kill
<1>11. CASE \/ SkipTraining \/ SkipDone \/ DryRun \/ EnterPhase \/ NextAttempt \/ TouchMarker \/ GiveUp
            \/ Complete \/ cleanup
  <2>1. on # "command" /\ UNCHANGED <<adapters, lost>>
    BY <1>11 DEF SkipTraining, SkipDone, DryRun, EnterPhase, NextAttempt, TouchMarker, GiveUp, Complete, cleanup,
       AtPhase, historyVars, diskVars
  <2>. QED  BY <2>1, <1>1, <1>3
<1>12. ASSUME (\E options \in Options : Invoke(options)) \/ (\E p \in Phases : DeleteMarker(p)) PROVE QuietInv'
  <2>1. on # "command" /\ UNCHANGED <<adapters, lost>>
    BY <1>12 DEF Invoke, DeleteMarker
  <2>. QED  BY <2>1, <1>1, <1>3
<1>13. ASSUME (\E f \in Families : ServerIsUp(f)) \/ UNCHANGED vars PROVE QuietInv'
  <2>1. UNCHANGED <<on, at, opts, progress, adapters, lost>>
    BY <1>13 DEF ServerIsUp, scriptVars, diskVars, historyVars, vars
  <2>. QED  BY <2>1 DEF QuietInv, Saving, Trains, Running, Here
<1>14. ASSUME NEW f \in Families, ServerEnds(f) PROVE FALSE
  BY <1>14, NoEnd
<1>15. ASSUME NEW f \in Families, TrainingLacksData(f) PROVE FALSE
  BY <1>15, HasData
<1>. QED
  BY <1>4, <1>5, <1>6, <1>7, <1>8, <1>9, <1>10, <1>11, <1>12, <1>13, <1>14, <1>15 DEF Next, Script, run_phase, Command
------------------------------------------------------------------------------
(***************************************************************************)
(* What an operator who deletes markers can bring about: a family that was *)
(* waited for while its server is yet to be started, or on the way, takes  *)
(* one replay, and two when its sweep is due as well; for a sweep follows  *)
(* its wait at once unless an operator comes in between.                   *)
(***************************************************************************)
Waited(f)   == marker[WaitPhase[f]] # "absent" \/ (on = "succeeded" /\ Here = WaitPhase[f])
Unserved(f) == marker[ServePhase[f]] = "absent" \/ server[f] # "healthy"
Due(f)      == Waited(f) /\ marker[SweepPhase[f]] = "absent"
OnTheWay(f) == (on = "succeeded" /\ Here = WaitPhase[f]) \/ (AtWork /\ Here = SweepPhase[f])

Replays(f) ==
    /\ Waited(f) /\ Unserved(f) => replays >= 1
    /\ Due(f) /\ Unserved(f) => replays >= 2
    /\ Due(f) => replays >= 1 \/ OnTheWay(f)

ReplayInv == InfraMaxRetries > 0 => \A f \in Families : Replays(f)

(***************************************************************************)
(* Why an attempt failed, and the phase with it.                           *)
(***************************************************************************)
Cause ==
    \/ \E f \in Families : Here = ServePhase[f] /\ PortTakenFrom(f)
    \/ Here = TrainPhase["qwen"] /\ ~opts.train_qwen /\ ~adapter_bundle_exists("qwen")
    \/ \E f \in Families : Here = SweepPhase[f] /\ server[f] # "none" /\ replays >= 2

CauseInv ==
    /\ on = "attempts" /\ attempt > 0 => Cause
    /\ on = "exit" /\ FINAL_STATUS = "failed" => Cause \/ phase_attempts(Here) = 0

(***************************************************************************)
(* No marker, so nothing was waited for; no failure yet.                   *)
(***************************************************************************)
LEMMA CauseInit == Init => ReplayInv /\ CauseInv
<1>. SUFFICES ASSUME Init PROVE ReplayInv /\ CauseInv
  OBVIOUS
<1>1. on = "off" /\ \A f \in Families : marker[WaitPhase[f]] = "absent"
  BY PlanFacts DEF Init
<1>. QED  BY <1>1 DEF ReplayInv, Replays, CauseInv, Waited, Due

(***************************************************************************)
(* Serving, waiting and sweeping have the same number of attempts.         *)
(***************************************************************************)
LEMMA InfraPhases ==
    ASSUME NEW f \in Families
    PROVE  /\ phase_attempts(ServePhase[f]) = InfraMaxRetries
           /\ phase_attempts(WaitPhase[f]) = InfraMaxRetries
           /\ phase_attempts(SweepPhase[f]) = InfraMaxRetries
BY DEF phase_attempts

(***************************************************************************)
(* A failed sweep was replayed.                                            *)
(***************************************************************************)
LEMMA SweepCause ==
    ASSUME NEW f \in Families, Cause, Here = SweepPhase[f] PROVE replays >= 2
<1>1. "qwen" \in Families
  BY DEF Families
<1>. QED  BY <1>1, PhasesDiffer DEF Cause

(***************************************************************************)
(* A wait is answered by the server of its family.                         *)
(***************************************************************************)
LEMMA AnswerIsOwn ==
    ASSUME TypeInv, LoopInv, ServeInv, OneServer, QuietInv, NEW f \in Families, wait_for_vllm_health(f)
    PROVE  server[f] = "healthy" /\ marker[ServePhase[f]] # "absent"
<1>1. InPhase /\ Here = WaitPhase[f]
  BY DEF wait_for_vllm_health, Running, InPhase
<1>2. marker[ServePhase[f]] # "absent" /\ server[f] # "none"
  BY <1>1, HasServer DEF QuietInv
<1>3. PICK g \in Families : server[g] = "healthy"
  BY DEF wait_for_vllm_health
<1>. QED  BY <1>2, <1>3 DEF OneServer

(***************************************************************************)
(* A wait that succeeds finds its server healthy, so only DeleteMarker can *)
(* make it unserved again or due, and every deletion counts.               *)
(***************************************************************************)
LEMMA ReplayStep ==
    ASSUME TypeInv, CountInv, EffectInv, LoopInv, ServeInv, OneServer, QuietInv, CauseInv,
           InfraMaxRetries > 0, [Next]_vars, ~fault', NEW f \in Families, Replays(f)
    PROVE  Replays(f)'
<1>. USE DEF TypeInv
<1>0. /\ replays \in Nat /\ at \in 1 .. 20
      /\ {TrainPhase[f], ServePhase[f], WaitPhase[f], SweepPhase[f]} \subseteq Phases
  BY PlanFacts DEF CountInv
<1>1. ASSUME replays' = replays,
             Waited(f)' => Waited(f), Unserved(f)' => Unserved(f), Due(f)' => Due(f),
             Due(f)' /\ OnTheWay(f) => OnTheWay(f)' \/ replays >= 1
      PROVE  Replays(f)'
  BY <1>1 DEF Replays
<1>2. ASSUME NEW g \in Families, wait_for_vllm_health(g) PROVE Replays(f)'
  <2>1. /\ Here = WaitPhase[g] /\ on' = "succeeded" /\ UNCHANGED <<at, marker, replays, server>>
        /\ on = "command" /\ Here' = Here
    BY <1>2 DEF wait_for_vllm_health, Running, Succeeds, Ends, effectVars, Here
  <2>2. CASE g = f
    <3>1. server[f] = "healthy" /\ marker[ServePhase[f]] # "absent"
      BY <1>2, <2>2, AnswerIsOwn
    <3>2. ~Unserved(f)' /\ OnTheWay(f)'
      BY <3>1, <2>1, <2>2 DEF Unserved, OnTheWay
    <3>. QED  BY <3>2 DEF Replays
  <2>3. CASE g # f
    <3>1. Here \notin {WaitPhase[f], SweepPhase[f]}
      BY <1>2, <2>1, <2>3, PhasesDiffer
    <3>. QED  BY <2>1, <3>1, <1>1 DEF Waited, Unserved, Due, OnTheWay
  <2>. QED  BY <2>2, <2>3
<1>3. ASSUME NEW g \in Families, RestartServer(g) PROVE Replays(f)'
  <2>1. /\ Here = ServePhase[g] /\ on = "command" /\ Here' = Here /\ UNCHANGED <<at, marker, replays>>
        /\ \A h \in Families \ {g} : server'[h] = server[h]
    BY <1>3 DEF RestartServer, Running, Succeeds, Fails, Ends, Here
  <2>2. marker[Here] = "absent"
    BY <2>1 DEF ServeInv, InPhase
  <2>3. Here \notin {WaitPhase[f], SweepPhase[f]}
    BY <1>3, <2>1, PhasesDiffer
  <2>4. Unserved(f)' => Unserved(f)
    BY <2>1, <2>2 DEF Unserved
  <2>. QED  BY <2>1, <2>3, <2>4, <1>1 DEF Waited, Due, OnTheWay
<1>4. ASSUME NEW g \in Families, Command(g), ~wait_for_vllm_health(g), ~RestartServer(g) PROVE Replays(f)'
  <2>1. /\ on = "command" /\ Here' = Here /\ UNCHANGED <<marker, replays>>
        /\ on' \in {"command", "attempts", "succeeded"}
    BY <1>4, CommandFrame
  <2>2. UNCHANGED server
    BY <1>4 DEF Command, BeginSave, EndSave, TrainingEnds, TrainingLacksData, require_adapter_bundle,
       WarmupTimesOut, Sweep, effectVars
  <2>3. on' = "succeeded" => Here # WaitPhase[f]
    BY <1>4, PhasesDiffer DEF Command, BeginSave, EndSave, TrainingEnds, TrainingLacksData, require_adapter_bundle,
       WarmupTimesOut, Sweep, Trains, Verifies, Running, Succeeds, Fails, Ends
  <2>. QED  BY <2>1, <2>2, <2>3, <1>1 DEF Waited, Unserved, Due, OnTheWay, AtWork
<1>5. CASE PlainCommand \/ BuildSft
  <2>1. /\ Here \in PlainPhases \cup {"build_sft_split"} /\ on = "command" /\ Here' = Here
        /\ UNCHANGED <<marker, server, replays>>
    BY <1>5 DEF PlainCommand, BuildSft, Running, Succeeds, Ends, effectVars, Here
  <2>2. Here \notin {WaitPhase[f], SweepPhase[f]}
    BY <2>1, PlainPhasesDiffer
  <2>. QED  BY <2>1, <2>2, <1>1 DEF Waited, Unserved, Due, OnTheWay
<1>6. CASE CommandFails \/ ScriptError \/ Interrupt \/ Kill
  BY <1>6 DEF CommandFails, ScriptError, Interrupt, Kill
<1>7. CASE SkipTraining
  <2>1. PICK g \in Families : Here = TrainPhase[g]
    BY <1>7 DEF SkipTraining, BundleAtHand
  <2>2. Here \notin {ServePhase[f], WaitPhase[f], SweepPhase[f]}
    BY <2>1, PhasesDiffer
  <2>3. /\ on = "phases" /\ on' = "phases" /\ UNCHANGED <<server, replays>>
        /\ marker' = marker \/ marker' = [marker EXCEPT ![Here] = "existed"]
    BY <1>7 DEF SkipTraining, AtPhase, NextPhase, historyVars
  <2>4. \A p \in {ServePhase[f], WaitPhase[f], SweepPhase[f]} : marker'[p] = marker[p]
    BY <2>2, <2>3, <1>0
  <2>. QED  BY <2>2, <2>3, <2>4, <1>1 DEF Waited, Unserved, Due, OnTheWay
<1>8. CASE SkipDone
  <2>1. on = "phases" /\ on' = "phases" /\ marker[Here] # "absent" /\ UNCHANGED <<marker, server, replays>>
    BY <1>8 DEF SkipDone, AtPhase, NextPhase, historyVars
  <2>. QED  BY <2>1, <1>1 DEF Waited, Unserved, Due, OnTheWay
<1>9. CASE DryRun
  BY <1>9 DEF DryRun, LoopInv
<1>10. CASE EnterPhase \/ NextAttempt
  <2>1. /\ on \in {"phases", "attempts"} /\ on' \in {"attempts", "command"} /\ Here' = Here
        /\ UNCHANGED <<marker, server, replays>>
    BY <1>10 DEF EnterPhase, NextAttempt, AtPhase, historyVars, diskVars, Here
  <2>. QED  BY <2>1, <1>1 DEF Waited, Unserved, Due, OnTheWay, AtWork
<1>11. CASE GiveUp
  <2>1. /\ on = "attempts" /\ attempt = phase_attempts(Here) /\ on' = "exit" /\ UNCHANGED <<marker, server, replays>>
    BY <1>11 DEF GiveUp, historyVars
  <2>2. Here = SweepPhase[f] => replays >= 2
    BY <2>1, InfraPhases, SweepCause DEF CauseInv
  <2>. QED  BY <2>1, <2>2, <1>0, <1>1 DEF Waited, Unserved, Due, OnTheWay
<1>12. CASE TouchMarker
  <2>1. /\ on = "succeeded" /\ on' = "phases" /\ at' = at + 1 /\ marker' = [marker EXCEPT ![Here] = "ran"]
        /\ UNCHANGED <<server, replays>>
    BY <1>12 DEF TouchMarker, NextPhase, historyVars
  <2>2. at \in 1 .. 19 /\ Here \in Phases
    BY <2>1, HereIsPhase DEF InPhase
  <2>3. Here = WaitPhase[f] => Here' = SweepPhase[f]
    BY <2>1, <2>2, TrainedFirst DEF Here
  <2>4. Here = SweepPhase[f] => ~Due(f)'
    BY <2>1, <2>2 DEF Due
  <2>. QED  BY <2>1, <2>2, <2>3, <2>4, <1>0, <1>1 DEF Waited, Unserved, Due, OnTheWay, AtWork
<1>13. CASE Complete
  <2>1. on = "phases" /\ at > 18 /\ on' = "exit" /\ UNCHANGED <<marker, server, replays>>
    BY <1>13, PlanFacts DEF Complete, LastPhase, historyVars
  <2>2. PICK j \in 1 .. at - 1 : Plan[j] = SweepPhase[f]
    BY <2>1, <1>0, PlanOrder
  <2>3. ~Due(f)
    BY <2>1, <2>2 DEF LoopInv, AtWork, Due
  <2>. QED  BY <2>1, <2>3, <1>1 DEF Waited, Unserved, Due
<1>14. CASE cleanup
  BY <1>14, <1>1 DEF cleanup, Gone, historyVars, Waited, Unserved, Due, OnTheWay, AtWork
<1>15. ASSUME NEW options \in Options, Invoke(options) PROVE Replays(f)'
  BY <1>15, <1>1 DEF Invoke, Waited, Unserved, Due, OnTheWay, AtWork
<1>16. ASSUME NEW p \in Phases, DeleteMarker(p) PROVE Replays(f)'
  <2>1. /\ on = "off" /\ on' = "off" /\ replays' = replays + 1 /\ server' = server
        /\ marker' = [marker EXCEPT ![p] = "absent"]
    BY <1>16 DEF DeleteMarker, scriptVars
  <2>2. ~OnTheWay(f) /\ (Waited(f)' => Waited(f))
    BY <2>1, <1>0 DEF OnTheWay, AtWork, Waited
  <2>3. ASSUME Due(f)', Unserved(f)' PROVE replays >= 1
    <3>1. CASE p = SweepPhase[f]
      <4>1. Unserved(f)
        BY <2>1, <2>3, <3>1, <1>0, PhasesDiffer DEF Unserved
      <4>. QED  BY <2>2, <2>3, <4>1 DEF Replays, Due
    <3>2. CASE p # SweepPhase[f]
      <4>1. Due(f)
        BY <2>1, <2>2, <2>3, <3>2, <1>0 DEF Due
      <4>. QED  BY <2>2, <4>1 DEF Replays
    <3>. QED  BY <3>1, <3>2
  <2>. QED  BY <2>1, <2>3, <1>0 DEF Replays
<1>17. ASSUME (\E g \in Families : ServerIsUp(g)) \/ UNCHANGED vars PROVE Replays(f)'
  <2>1. UNCHANGED <<on, at, marker, replays>> /\ (server[f] = "healthy" => server'[f] = "healthy")
    BY <1>17 DEF ServerIsUp, scriptVars, diskVars, historyVars, vars
  <2>. QED  BY <2>1, <1>1 DEF Waited, Unserved, Due, OnTheWay, AtWork, Here
<1>18. ASSUME NEW g \in Families, ServerEnds(g) PROVE FALSE
  BY <1>18, NoEnd
<1>. QED
  BY <1>2, <1>3, <1>4, <1>5, <1>6, <1>7, <1>8, <1>9, <1>10, <1>11, <1>12, <1>13, <1>14, <1>15, <1>16, <1>17, <1>18
     DEF Next, Script, run_phase
------------------------------------------------------------------------------
(***************************************************************************)
(* A sweep that fails asks a server that is on the way: its wait is behind *)
(* it, and only replays have brought the server back to its start.         *)
(***************************************************************************)
LEMMA FailedSweep ==
    ASSUME TypeInv, CountInv, LoopInv, ServeInv, QuietInv, ReplayInv, NEW f \in Families,
           on = "command", Here = SweepPhase[f], server[f] # "healthy"
    PROVE  server[f] # "none" /\ replays >= 2
<1>1. InPhase
  BY DEF InPhase
<1>2. server[f] # "none"
  BY <1>1, HasServer DEF QuietInv
<1>3. InfraMaxRetries > 0
  BY InfraPhases DEF CountInv
<1>4. Due(f) /\ Unserved(f)
  BY <1>1, Behind DEF Due, Waited, Unserved, ServeInv
<1>. QED  BY <1>2, <1>3, <1>4 DEF ReplayInv, Replays

(***************************************************************************)
(* A command fails, without a fault, only for a cause, and the cause lasts *)
(* until the loop gives up.                                                *)
(***************************************************************************)
LEMMA CauseStep ==
    ASSUME TypeInv, CountInv, EffectInv, LoopInv, ServeInv, SplitInv, TrainInv, QuietInv, ReplayInv, CauseInv,
           [Next]_vars, ~fault'
    PROVE  CauseInv'
<1>. USE DEF TypeInv
<1>1. ASSUME ~(on' = "attempts" /\ attempt' > 0), ~(on' = "exit" /\ FINAL_STATUS' = "failed") PROVE CauseInv'
  BY <1>1 DEF CauseInv
<1>2. ASSUME UNCHANGED <<at, opts, adapters, replays>>,
             \A f \in Families : server[f] # "none" => server'[f] # "none"
      PROVE  Here' = Here /\ (Cause => Cause')
  BY <1>2 DEF Cause, Here, PortTakenFrom, adapter_bundle_exists
<1>3. ASSUME on' \notin {"attempts", "exit"} PROVE CauseInv'
  BY <1>1, <1>3
<1>4. ASSUME on' = "attempts", Cause' PROVE CauseInv'
  BY <1>4 DEF CauseInv
<1>5. ASSUME NEW f \in Families, BeginSave(f) \/ EndSave(f) \/ TrainingEnds(f) \/ wait_for_vllm_health(f)
      PROVE  CauseInv'
  BY <1>5, <1>3 DEF BeginSave, EndSave, TrainingEnds, wait_for_vllm_health, Trains, Running, Succeeds, Ends
<1>6. ASSUME NEW f \in Families, TrainingLacksData(f) PROVE FALSE
  BY <1>6, HasData
<1>7. ASSUME NEW f \in Families, require_adapter_bundle(f) PROVE CauseInv'
  <2>1. CASE on' # "attempts"
    BY <1>7, <2>1, <1>3 DEF require_adapter_bundle, Succeeds, Fails, Ends
  <2>2. CASE on' = "attempts"
    <3>1. /\ ~adapter_bundle_exists(f) /\ on = "command" /\ Verifies(f)
          /\ UNCHANGED <<at, opts, adapters, replays, server>>
      BY <1>7, <2>2 DEF require_adapter_bundle, Verifies, Running, Succeeds, Fails, Ends, effectVars
    <3>2. Here # VerifyPhase[f]
      <4>. SUFFICES ASSUME Here = VerifyPhase[f] PROVE FALSE
        OBVIOUS
      <4>1. TrainDone(f)
        BY <1>7, <3>1, Behind DEF TrainDone, InPhase
      <4>. QED  BY <1>7, <3>1, <4>1 DEF TrainInv
    <3>3. Cause
      BY <3>1, <3>2 DEF Verifies, Running, Cause
    <3>. QED  BY <2>2, <3>1, <3>3, <1>2, <1>4
  <2>. QED  BY <2>1, <2>2
<1>8. ASSUME NEW f \in Families, RestartServer(f) PROVE CauseInv'
  <2>1. CASE ~PortTakenFrom(f)
    BY <1>8, <2>1, <1>3 DEF RestartServer, Succeeds, Ends
  <2>2. CASE PortTakenFrom(f)
    <3>1. on' = "attempts" /\ Here' = Here /\ Here = ServePhase[f] /\ server' = [server EXCEPT ![f] = "none"]
      BY <1>8, <2>2 DEF RestartServer, Running, Fails, Ends, Here
    <3>2. PortTakenFrom(f)'
      BY <2>2, <3>1 DEF PortTakenFrom
    <3>3. Cause'
      BY <1>8, <3>1, <3>2 DEF Cause
    <3>. QED  BY <3>1, <3>3, <1>4
  <2>. QED  BY <2>1, <2>2
<1>9. ASSUME NEW f \in Families, WarmupTimesOut(f) PROVE FALSE
  <2>1. /\ on = "command" /\ Here = WaitPhase[f] /\ server[f] \notin {"starting", "healthy"}
    BY <1>9 DEF WarmupTimesOut, Running
  <2>2. server[f] # "none"
    BY <1>9, <2>1, HasServer DEF InPhase, QuietInv
  <2>. QED  BY <1>9, <2>1, <2>2
<1>10. ASSUME NEW f \in Families, Sweep(f) PROVE CauseInv'
  <2>1. CASE server[f] = "healthy"
    BY <1>10, <2>1, <1>3 DEF Sweep, Succeeds, Ends
  <2>2. CASE server[f] # "healthy"
    <3>1. /\ on = "command" /\ on' = "attempts" /\ Here = SweepPhase[f]
          /\ UNCHANGED <<at, opts, adapters, replays, server>>
      BY <1>10, <2>2 DEF Sweep, Running, Fails, Ends
    <3>2. Cause
      BY <1>10, <2>2, <3>1, FailedSweep DEF Cause
    <3>. QED  BY <3>1, <3>2, <1>2, <1>4
  <2>. QED  BY <2>1, <2>2
<1>11. CASE PlainCommand \/ BuildSft \/ SkipTraining \/ SkipDone \/ DryRun \/ NextAttempt \/ TouchMarker
  BY <1>11, <1>3 DEF PlainCommand, BuildSft, SkipTraining, SkipDone, DryRun, NextAttempt, TouchMarker, NextPhase,
     Running, Succeeds, Ends
<1>12. CASE EnterPhase
  BY <1>12, <1>1 DEF EnterPhase
<1>13. CASE GiveUp
  <2>1. /\ on = "attempts" /\ on' = "exit" /\ attempt = phase_attempts(Here)
        /\ UNCHANGED <<at, opts, adapters, replays, server>>
    BY <1>13 DEF GiveUp, historyVars
  <2>2. Cause \/ phase_attempts(Here) = 0
    BY <2>1 DEF CauseInv, CountInv
  <2>3. phase_attempts(Here)' = phase_attempts(Here)
    BY <2>1 DEF phase_attempts, Here
  <2>. QED  BY <2>1, <2>2, <2>3, <1>2 DEF CauseInv
<1>14. CASE CommandFails \/ ScriptError \/ Interrupt \/ Kill
  BY <1>14 DEF CommandFails, ScriptError, Interrupt, Kill
<1>15. CASE Complete \/ cleanup
  BY <1>15, <1>1 DEF Complete, cleanup, Gone
<1>16. ASSUME (\E options \in Options : Invoke(options)) \/ (\E p \in Phases : DeleteMarker(p)) PROVE CauseInv'
  BY <1>16, <1>3 DEF Invoke, DeleteMarker, scriptVars
<1>17. ASSUME (\E f \in Families : ServerIsUp(f)) \/ UNCHANGED vars PROVE CauseInv'
  <2>1. /\ UNCHANGED <<on, at, opts, attempt, FINAL_STATUS, adapters, replays>>
        /\ \A f \in Families : server[f] # "none" => server'[f] # "none"
    BY <1>17 DEF ServerIsUp, scriptVars, diskVars, historyVars, vars
  <2>2. phase_attempts(Here)' = phase_attempts(Here)
    BY <2>1 DEF phase_attempts, Here
  <2>. QED  BY <2>1, <2>2, <1>2 DEF CauseInv
<1>18. ASSUME NEW f \in Families, ServerEnds(f) PROVE FALSE
  BY <1>18, NoEnd
<1>. QED
  BY <1>5, <1>6, <1>7, <1>8, <1>9, <1>10, <1>11, <1>12, <1>13, <1>14, <1>15, <1>16, <1>17, <1>18
     DEF Next, Script, run_phase, Command

(***************************************************************************)
(* The inductive invariant of the failures: effects of phases hold over a  *)
(* directory without dry runs, the absence of partial adapters and the     *)
(* causes also without faults.                                             *)
(***************************************************************************)
FailureInv ==
    /\ ServerInv
    /\ ~rehearsed => SplitInv /\ TrainInv
    /\ ~rehearsed /\ ~fault => QuietInv /\ ReplayInv /\ CauseInv

(***************************************************************************)
(* It holds in the initial states.                                         *)
(***************************************************************************)
LEMMA FailureInvInit == Init => FailureInv
BY ServerInvInit, QuietInit, CauseInit DEF FailureInv

(***************************************************************************)
(* No step breaks it.                                                      *)
(***************************************************************************)
LEMMA FailureInvStep == FailureInv /\ [Next]_vars => FailureInv'
<1>. SUFFICES ASSUME FailureInv, [Next]_vars PROVE FailureInv'
  OBVIOUS
<1>1. ServerInv' /\ TypeInv /\ CountInv /\ OneServer
  BY ServerInvStep DEF FailureInv, ServerInv, NightInv
<1>2. ASSUME ~rehearsed'
      PROVE  ~rehearsed /\ EffectInv /\ LoopInv /\ ServeInv /\ SplitInv /\ TrainInv
  BY <1>1, <1>2, StaysRehearsed DEF FailureInv, ServerInv, NightInv
<1>3. ASSUME ~rehearsed' PROVE SplitInv' /\ TrainInv'
  BY <1>1, <1>2, <1>3, SplitStep, TrainStep
<1>4. ASSUME ~rehearsed', ~fault' PROVE QuietInv' /\ ReplayInv' /\ CauseInv'
  <2>1. QuietInv /\ ReplayInv /\ CauseInv
    BY <1>1, <1>2, <1>4, FaultStays DEF FailureInv
  <2>2. QuietInv'
    BY <1>1, <1>2, <1>4, <2>1, QuietStep
  <2>3. CauseInv'
    BY <1>1, <1>2, <1>4, <2>1, CauseStep
  <2>4. ASSUME InfraMaxRetries > 0, NEW f \in Families PROVE Replays(f)'
    <3>1. Replays(f)
      BY <2>1, <2>4 DEF ReplayInv
    <3>. QED  BY <1>1, <1>2, <1>4, <2>1, <2>4, <3>1, ReplayStep
  <2>. QED  BY <2>2, <2>3, <2>4 DEF ReplayInv
<1>. QED  BY <1>1, <1>3, <1>4 DEF FailureInv

(***************************************************************************)
(* run_phase: where no command, no signal and no container fails by        *)
(* itself, a night over a directory without dry runs fails only at a port  *)
(* the other family holds, at Qwen adapters that are missing and not to be *)
(* trained, or at a sweep replayed with its server and without its wait:   *)
(* a resumed or replayed loop never fails for a phase it wrongly skipped.  *)
(***************************************************************************)
THEOREM FailureAlwaysHasCause == Spec => []FailureHasCause
<1>1. FailureInv => FailureHasCause
  BY DEF FailureInv, CauseInv, Cause, FailureHasCause, TrainPhase
<1>. QED  BY <1>1, FailureInvInit, FailureInvStep, PTL DEF Spec
=============================================================================
