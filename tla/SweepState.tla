------------------------------ MODULE SweepState ------------------------------
(***************************************************************************)
(* A sweep, bench/sweep_state.py: execute_sweep runs the planned children  *)
(* one after the other, keeps sweep_status.json on disk and, when resumed, *)
(* skips the children whose run directory looks complete.                  *)
(*                                                                         *)
(* The operator may invoke the sweep again and again, with any options;    *)
(* the process may be killed between and inside any two writes, and files  *)
(* are written in place, so a kill can leave half a file.  A child is what *)
(* the runners do to its run directory (SequentialRun and ConcurrentRun    *)
(* model their inside).  Two children of one plan may name the same run    *)
(* directory: "multitask" children of two adapter counts do.               *)
(*                                                                         *)
(* An operator named X_Fault is X with a fault a programmer could make; no *)
(* specification uses it.                                                  *)
(***************************************************************************)
EXTENDS Naturals, Sequences

CONSTANTS
    ChildCount,         \* the number of planned children
    RunDirs,            \* the run directories of the plan
    RunDirOf,           \* RunDirOf[i]: the run directory of child i
    IdOf,               \* IdOf[i]: the child_id of child i
    MaxInvocations      \* bound: how often the operator starts the sweep

Children == 1 .. ChildCount

ASSUME ChildCountAssumption  == ChildCount \in Nat
ASSUME RunDirAssumption      == RunDirOf \in [Children -> RunDirs]
ASSUME InvocationsAssumption == MaxInvocations \in Nat

VARIABLES
    pc,                 \* what the sweep process does next, or "over"
    options,            \* the SweepOptions of the invocation
    index,              \* the child the loop is at
    records,            \* records[i]: the record of child i, in memory
    status_file,        \* sweep_status.json
    dirs,               \* dirs[d]: the files of run directory d
    invocations         \* how often the sweep was started

vars == <<pc, options, index, records, status_file, dirs, invocations>>

(***************************************************************************)
(* The steps of a child attempt, from run_child to its verdict.            *)
(***************************************************************************)
ChildSteps == {"starting", "prepared", "serving", "summarising", "verdict"}
SweepSteps == {"deciding", "recording", "failing"}

Options == [resume : BOOLEAN, continue_on_error : BOOLEAN, dry_run : BOOLEAN]

Records == [status : {"pending", "running", "complete", "skipped", "failed"}, attempts : Nat]

Directories ==
    [status  : {"absent", "running", "complete", "failed", "torn"},    \* status.json
     rows    : {"absent", "partial", "errors", "full"},                \* requests.jsonl
     summary : {"absent", "stale", "fresh", "torn"},                   \* summary.json
     cut     : BOOLEAN]         \* history: the last attempt was interrupted

TypeOK ==
    /\ pc \in ChildSteps \cup SweepSteps \cup {"over"}
    /\ options \in Options
    /\ index \in 1 .. ChildCount + 1
    /\ records \in [Children -> Records]
    /\ status_file.state \in {"absent", "torn", "dry_run", "running", "complete",
                              "complete_with_failures", "failed"}
    /\ status_file.records \in Seq(Records)
    /\ dirs \in [RunDirs -> Directories]
    /\ invocations \in 0 .. MaxInvocations
    /\ pc \notin {"deciding", "over"} => index \in Children

Init ==
    /\ pc = "over"
    /\ options = [resume |-> FALSE, continue_on_error |-> FALSE, dry_run |-> FALSE]
    /\ index = 1
    /\ records = [i \in Children |-> [status |-> "pending", attempts |-> 0]]
    /\ status_file = [state |-> "absent", records |-> <<>>]
    /\ dirs = [d \in RunDirs |->
                [status |-> "absent", rows |-> "absent", summary |-> "absent", cut |-> FALSE]]
    /\ invocations = 0
------------------------------------------------------------------------------
Dir == RunDirOf[index]

\* Trusts the verdict of any earlier attempt.
artifact_complete_IgnoresStatus(d) ==
    dirs[d].rows # "absent" /\ dirs[d].summary # "absent" /\ dirs[d].status # "failed"

(***************************************************************************)
(* All required artifacts exist (config and manifest are written before    *)
(* the status) and the status can be read and says "complete".             *)
(***************************************************************************)
artifact_complete(d) ==
    dirs[d].rows # "absent" /\ dirs[d].summary # "absent" /\ dirs[d].status = "complete"

(***************************************************************************)
(* What the files of a finished run are: all rows, without errors, and a   *)
(* summary of those rows.                                                  *)
(***************************************************************************)
Finished(d) == dirs[d].rows = "full" /\ dirs[d].summary = "fresh"

(***************************************************************************)
(* The attempts a resumed sweep carries over: those of the last record in  *)
(* the status file with the child's id; none if the file cannot be read.   *)
(***************************************************************************)
previous_attempts(i) ==
    LET old     == status_file.records
        last(j) == IdOf[j] = IdOf[i] /\ \A k \in j + 1 .. Len(old) : IdOf[k] # IdOf[i]
    IN  IF \E j \in 1 .. Len(old) : last(j)
        THEN old[CHOOSE j \in 1 .. Len(old) : last(j)].attempts
        ELSE 0

write_status(state, recs) == status_file' = [state |-> state, records |-> recs]

\* The loop was left by a failure, which becomes sweep_error.
Broken == ~options.continue_on_error /\ \E i \in Children : records[i].status = "failed"

LoopOver == Broken \/ index > ChildCount
------------------------------------------------------------------------------
\* Starts to count anew, although the sweep is resumed.
Invoke_CountsAnew(o) ==
    /\ pc = "over"
    /\ invocations < MaxInvocations
    /\ invocations' = invocations + 1
    /\ options' = o
    /\ index' = 1
    /\ records' = [i \in Children |-> [status |-> "pending", attempts |-> 0]]
    /\ write_status(IF o.dry_run THEN "dry_run" ELSE "running", records')
    /\ pc' = IF o.dry_run THEN "over" ELSE "deciding"
    /\ UNCHANGED dirs

(***************************************************************************)
(* The operator starts the sweep: a dry run stops after the first status.  *)
(***************************************************************************)
Invoke(o) ==
    /\ pc = "over"
    /\ invocations < MaxInvocations
    /\ invocations' = invocations + 1
    /\ options' = o
    /\ index' = 1
    /\ records' = [i \in Children |->
            [status |-> "pending", attempts |-> IF o.resume THEN previous_attempts(i) ELSE 0]]
    /\ write_status(IF o.dry_run THEN "dry_run" ELSE "running", records')
    /\ pc' = IF o.dry_run THEN "over" ELSE "deciding"
    /\ UNCHANGED dirs

\* validate_budget raises before anything but the plan is written.
RejectBudget ==
    /\ pc = "over"
    /\ invocations < MaxInvocations
    /\ invocations' = invocations + 1
    /\ UNCHANGED <<pc, options, index, records, status_file, dirs>>

\* Leaves the loop where it was.
Skip_StaysAtChild ==
    /\ pc = "deciding" /\ ~LoopOver
    /\ options.resume /\ artifact_complete(Dir)
    /\ records' = [records EXCEPT ![index].status = "skipped"]
    /\ write_status("running", records')
    /\ UNCHANGED <<pc, options, index, dirs, invocations>>

Skip ==
    /\ pc = "deciding" /\ ~LoopOver
    /\ options.resume /\ artifact_complete(Dir)
    /\ records' = [records EXCEPT ![index].status = "skipped"]
    /\ write_status("running", records')
    /\ index' = index + 1
    /\ UNCHANGED <<pc, options, dirs, invocations>>

\* Runs every child of a resumed sweep again.
StartChild_Always ==
    /\ pc = "deciding" /\ ~LoopOver
    /\ records' = [records EXCEPT ![index] = [status |-> "running", attempts |-> @.attempts + 1]]
    /\ write_status("running", records')
    /\ pc' = "starting"
    /\ UNCHANGED <<options, index, dirs, invocations>>

\* Counts the attempt in memory only.
StartChild_Unwritten ==
    /\ pc = "deciding" /\ ~LoopOver
    /\ ~(options.resume /\ artifact_complete(Dir))
    /\ records' = [records EXCEPT ![index] = [status |-> "running", attempts |-> @.attempts + 1]]
    /\ pc' = "starting"
    /\ UNCHANGED <<options, index, status_file, dirs, invocations>>

(***************************************************************************)
(* The attempt is on disk before the child runs.                           *)
(***************************************************************************)
StartChild ==
    /\ pc = "deciding" /\ ~LoopOver
    /\ ~(options.resume /\ artifact_complete(Dir))
    /\ records' = [records EXCEPT ![index] = [status |-> "running", attempts |-> @.attempts + 1]]
    /\ write_status("running", records')
    /\ pc' = "starting"
    /\ UNCHANGED <<options, index, dirs, invocations>>
------------------------------------------------------------------------------
(***************************************************************************)
(* What an attempt does to the run directory, in the order of the runners. *)
(***************************************************************************)
Child(step, next, files) ==
    /\ pc = step
    /\ pc' = next
    /\ dirs' = [dirs EXCEPT ![Dir] = files]
    /\ UNCHANGED <<options, index, records, status_file, invocations>>

\* Leaves the status of the earlier attempt until the verdict.
Initialize_KeepsStatus ==
    Child("starting", "prepared",
          IF dirs[Dir].status = "absent"
          THEN [dirs[Dir] EXCEPT !.status = "running", !.cut = FALSE]
          ELSE [dirs[Dir] EXCEPT !.cut = FALSE])

\* RunState.initialize: the old verdict goes before the old rows do.
Initialize ==
    Child("starting", "prepared", [dirs[Dir] EXCEPT !.status = "running", !.cut = FALSE])

\* requests.jsonl is truncated; a summary left by an earlier attempt stays.
OpenRows ==
    Child("prepared", "serving",
          [dirs[Dir] EXCEPT !.rows = "partial",
                            !.summary = IF @ = "absent" THEN "absent" ELSE "stale"])

\* The concurrent runner records failed requests and goes on.
FinishRows ==
    /\ pc = "serving"
    /\ \E rows \in {"full", "errors"} :
           Child("serving", "summarising", [dirs[Dir] EXCEPT !.rows = rows])

WriteChildSummary ==
    Child("summarising", "verdict", [dirs[Dir] EXCEPT !.summary = "fresh"])

\* A run with failed requests raises after its summary is written.
Judge ==
    /\ pc = "verdict"
    /\ \/ /\ dirs[Dir].rows = "full"
          /\ Child("verdict", "recording", [dirs[Dir] EXCEPT !.status = "complete"])
       \/ /\ dirs[Dir].rows = "errors"
          /\ Child("verdict", "failing", [dirs[Dir] EXCEPT !.status = "failed"])

\* The summary that was being written is left half written.
CutSummary(files) ==
    IF pc = "summarising" THEN {files, [files EXCEPT !.summary = "torn"]} ELSE {files}

(***************************************************************************)
(* run_child raises.  RunState.initialize is outside of the runner's try,  *)
(* so there the old status stays.                                          *)
(***************************************************************************)
ChildFails ==
    /\ pc \in ChildSteps
    /\ \E files \in CutSummary(IF pc = "starting" THEN dirs[Dir]
                               ELSE [dirs[Dir] EXCEPT !.status = "failed"]) :
           Child(pc, "failing", files)

(***************************************************************************)
(* Ctrl-C inside the runner's try: its finally clause writes "complete",   *)
(* and KeyboardInterrupt passes execute_sweep, which handles Exception.    *)
(***************************************************************************)
ChildInterrupted ==
    /\ pc \in ChildSteps \ {"starting"}
    /\ \E files \in CutSummary([dirs[Dir] EXCEPT !.status = "complete", !.cut = TRUE]) :
           Child(pc, "over", files)
------------------------------------------------------------------------------
(***************************************************************************)
(* The child's record is complete in memory; the next write of the status  *)
(* file will say so.                                                       *)
(***************************************************************************)
RecordComplete ==
    /\ pc = "recording"
    /\ records' = [records EXCEPT ![index].status = "complete"]
    /\ index' = index + 1
    /\ pc' = "deciding"
    /\ UNCHANGED <<options, status_file, dirs, invocations>>

\* record_sweep_dimensions raises inside the try.
RecordingFails ==
    /\ pc = "recording"
    /\ pc' = "failing"
    /\ UNCHANGED <<options, index, records, status_file, dirs, invocations>>

RecordFailure ==
    /\ pc = "failing"
    /\ records' = [records EXCEPT ![index].status = "failed"]
    /\ write_status("running", records')
    /\ index' = index + 1
    /\ pc' = "deciding"
    /\ UNCHANGED <<options, dirs, invocations>>

\* Reports a failure only if it ended the loop.
WriteFinal_IgnoresFailures ==
    /\ pc = "deciding" /\ LoopOver
    /\ write_status(IF Broken THEN "failed" ELSE "complete", records)
    /\ pc' = "over"
    /\ UNCHANGED <<options, index, records, dirs, invocations>>

WriteFinal ==
    /\ pc = "deciding" /\ LoopOver
    /\ write_status(CASE Broken -> "failed"
                      [] ~Broken /\ (\E i \in Children : records[i].status = "failed")
                            -> "complete_with_failures"
                      [] OTHER -> "complete",
                    records)
    /\ pc' = "over"
    /\ UNCHANGED <<options, index, records, dirs, invocations>>

(***************************************************************************)
(* The process is killed, or an exception or Ctrl-C leaves execute_sweep   *)
(* outside of a runner's try.  The file that was being written is left     *)
(* half written.                                                           *)
(***************************************************************************)
Killed ==
    /\ pc # "over"
    /\ pc' = "over"
    /\ \/ UNCHANGED <<status_file, dirs>>
       \/ /\ pc \in SweepSteps
          /\ status_file' = [state |-> "torn", records |-> <<>>]
          /\ UNCHANGED dirs
       \/ /\ pc \in ChildSteps
          /\ \E files \in CutSummary(dirs[Dir]) \cup {[dirs[Dir] EXCEPT !.status = "torn"]} :
                 dirs' = [dirs EXCEPT ![Dir] = files]
          /\ UNCHANGED status_file
    /\ UNCHANGED <<options, index, records, invocations>>
------------------------------------------------------------------------------
Progress ==
    \/ Skip \/ StartChild
    \/ Initialize \/ OpenRows \/ FinishRows \/ WriteChildSummary \/ Judge
    \/ RecordComplete \/ RecordFailure \/ WriteFinal

Next ==
    \/ \E o \in Options : Invoke(o)
    \/ RejectBudget
    \/ Progress
    \/ ChildFails
    \/ RecordingFails
    \/ ChildInterrupted
    \/ Killed

Spec == Init /\ [][Next]_vars

(***************************************************************************)
(* A started sweep runs on, and so do its children (SequentialRun and      *)
(* ConcurrentRun end); nobody has to start one, and nothing has to fail.   *)
(***************************************************************************)
FairSpec == Spec /\ WF_vars(Progress)
------------------------------------------------------------------------------
(***************************************************************************)
(* Properties.                                                             *)
(***************************************************************************)
(***************************************************************************)
(* What --resume skips is finished: whatever attempts failed or were       *)
(* killed before, a skipped child has all its rows and their own summary,  *)
(* unless its last attempt was interrupted.                                *)
(***************************************************************************)
SkippedIsFinished ==
    \A i \in Children :
        records[i].status = "skipped" => Finished(RunDirOf[i]) \/ dirs[RunDirOf[i]].cut

(***************************************************************************)
(* "use a stable --sweep-name and --resume so interrupted child runs are   *)
(* recovered" (docs/overnight_second_family.md): a resumed sweep does not  *)
(* skip a child whose last attempt was interrupted before it finished.     *)
(***************************************************************************)
InterruptedIsRecovered ==
    \A i \in Children : records[i].status = "skipped" => Finished(RunDirOf[i])

(***************************************************************************)
(* A resumed sweep never touches a run that has finished, however often it *)
(* is resumed and whatever its status file still says.                     *)
(***************************************************************************)
FinishedIsKept ==
    [][\A d \in RunDirs :
          options.resume /\ Finished(d) /\ dirs[d].status = "complete" => dirs'[d] = dirs[d]]_vars

(***************************************************************************)
(* The final status is sound: of a complete sweep every run directory is   *)
(* finished (or was interrupted), a sweep that is complete with failures   *)
(* has tried every child, and a failed one has tried none after the        *)
(* failure.                                                                *)
(***************************************************************************)
SweepVerdictSound ==
    LET status(i) == status_file.records[i].status
    IN  /\ status_file.state = "complete" =>
              \A i \in Children : Finished(RunDirOf[i]) \/ dirs[RunDirOf[i]].cut
        /\ status_file.state = "complete_with_failures" =>
              /\ \A i \in Children : status(i) \in {"complete", "skipped", "failed"}
              /\ \E i \in Children : status(i) = "failed"
        /\ status_file.state = "failed" =>
              \E i \in Children :
                  /\ status(i) = "failed"
                  /\ \A j \in Children : j < i => status(j) \in {"complete", "skipped"}
                  /\ \A j \in Children : j > i => status(j) = "pending"

(***************************************************************************)
(* While a child runs, the status file on disk names it and its attempt,   *)
(* and no other child as running: a killed sweep leaves a trace.           *)
(***************************************************************************)
AttemptIsOnRecord ==
    pc \in ChildSteps =>
        /\ status_file = [state |-> "running", records |-> records]
        /\ records[index].attempts > 0
        /\ \A i \in Children : records[i].status = "running" <=> i = index

(***************************************************************************)
(* A resumed sweep counts a child's attempts on from those on record, over *)
(* any number of invocations, skips, failures and kills; only a status     *)
(* file that was lost makes it start anew.  Of children that share an id   *)
(* the last one is counted: execute_sweep keeps one count for an id.       *)
(***************************************************************************)
AttemptsCountOn ==
    [][options'.resume /\ status_file.records # <<>> /\ status_file'.records # <<>> =>
          \A i \in Children :
              (\A j \in Children : j > i => IdOf[j] # IdOf[i]) =>
                  /\ status_file'.records[i].attempts >= status_file.records[i].attempts
                  /\ pc # "starting" /\ pc' = "starting" /\ i = index =>
                        status_file'.records[i].attempts > status_file.records[i].attempts]_vars

(***************************************************************************)
(* A started sweep comes to an end.                                        *)
(***************************************************************************)
InvocationEnds == pc # "over" ~> pc = "over"
=============================================================================
