----------------------------- MODULE HarnessRun -----------------------------
(***************************************************************************)
(* One durable development run and everybody who writes its record: the    *)
(* supervisor that drives it through its stages (run-supervisor.ts), the   *)
(* project owner who pauses, resumes and retries it (run-service.ts,       *)
(* run-store.ts), the operator who reconciles a stale run                  *)
(* (operator-reconciliation.ts), and, for an Idea Lab run, the recovery    *)
(* and preflight refresh its production driver performs (recovery.ts).     *)
(*                                                                         *)
(* Every read and every write of the record holds the run's mutation lock  *)
(* (DurableLock), so each is atomic; what happens between two of them is   *)
(* not.  The supervisor lock, and for Idea Lab the production lock around  *)
(* recovery and supervision, leave at most one supervisor at work.         *)
(***************************************************************************)
EXTENDS HarnessStages

CONSTANTS
  RunModes,      \* the modes a run may have; each has its completion profile
  NeedsBuild,    \* the purpose profile of the request demands BUILD evidence
  MaxSteps,      \* maxSteps of superviseHarnessRun (16 in the callers)
  MaxRetries,    \* bound: retry cycles of a behaviour
  MaxApprovals   \* bound: operator approvals issued in a behaviour

ASSUME HarnessAssumption ==
  /\ RunModes \subseteq Modes
  /\ NeedsBuild \in BOOLEAN
  /\ MaxSteps \in Nat \ {0}
  /\ MaxRetries \in Nat
  /\ MaxApprovals \in Nat

VARIABLES
  run,        \* the durable run record
  logged,     \* the stage of the last "stage-completed" event, or 0
  pc,         \* where the supervisor, or the recovery before it, is
  copy,       \* the record it holds in memory
  stage,      \* the stage the executor's result is for
  result,     \* the executor's result until it is applied
  steps,      \* steps of this supervision
  report,     \* the stage its next event reports as completed, or 0
  operator,   \* progress of an operator's reconciliation
  snapshot,   \* whether the record the operator inspected is still current
  approvals   \* approvals issued and not yet consumed

worker == <<pc, copy, stage, result, steps, report>>
operation == <<operator, snapshot, approvals>>
vars == <<run, logged, worker, operation>>

WorkerSteps == {"idle", "inspect", "recovered", "loop", "execute", "apply", "trace"}

(* Executor results: evidence of the stage's own kind, of kind "build", or  *)
(* of another stage; a stop is named by the status it leads to.             *)
Completions == [status : {"completed"}, evidence : SUBSET {"gate", "build"} \cup {{"foreign"}}]
Stops == [status : {"WAITING_EXTERNAL", "WAITING_AGENT", "BLOCKED_USER",
                    "FAILED_RETRYABLE", "FAILED_FINAL"},
          evidence : {{}}]
Results == Completions \cup Stops

(* The values of a worker's variables that hold nothing. *)
NoResult == [status |-> "FAILED_FINAL", evidence |-> {}]
NoCopy == InitialRun("project-workspace", "ready")
NoStage == PREFLIGHT

TypeOK ==
  /\ run \in Run /\ copy \in Run
  /\ logged \in Stages \cup {0}
  /\ pc \in WorkerSteps
  /\ stage \in Stages
  /\ result \in Results
  /\ steps \in 0 .. MaxSteps
  /\ report \in Stages \cup {0}
  /\ operator \in {"idle", "inspected", "approved"}
  /\ snapshot \in {"current", "outdated"}
  /\ approvals \in Nat

Init ==
  /\ run \in {InitialRun(mode, preflight) : mode \in RunModes, preflight \in {"ready", "blocked"}}
  /\ logged = 0
  /\ pc = "idle" /\ copy = NoCopy /\ stage = NoStage
  /\ result = NoResult /\ steps = 0 /\ report = 0
  /\ operator = "idle" /\ snapshot = "outdated" /\ approvals = MaxApprovals
----------------------------------------------------------------------------
(* The worker returns or dies, and with it goes what it had in memory.      *)
Leave ==
  /\ pc' = "idle" /\ copy' = NoCopy /\ stage' = NoStage
  /\ result' = NoResult /\ steps' = 0 /\ report' = 0

(* A write of the whole record.  The operator's compare-and-save compares   *)
(* the record, timestamps included, with the one that was inspected, so any *)
(* write in between makes it fail.                                          *)
Save(r) ==
  /\ run' = r
  /\ snapshot' = "outdated"
  /\ UNCHANGED <<operator, approvals>>

(* The supervisor's write: the record it built from its copy replaces       *)
(* whatever is on disk, then the event and the checkpoint follow.           *)
SaveCopy(r, completed) ==
  /\ Save(r) /\ copy' = r
  /\ report' = completed
  /\ pc' = "trace"

(* The Idea Lab driver recovers before it supervises.                       *)
NeedsRecovery ==
  /\ run.mode = "idea-lab"
  /\ \/ run.status = "WAITING_AGENT"
     \/ run.status = "RUNNING" /\ run.retry = "active"

(* superviseHarnessRun: load, check the preflight, leave stopped runs alone. *)
Supervise ==
  /\ pc = "recovered" \/ (pc = "idle" /\ ~NeedsRecovery)
  /\ run.preflight = "ready"
  /\ run.status \in Startable \cup {"RUNNING"}
  /\ copy' = run /\ steps' = 0 /\ pc' = "loop"
  /\ UNCHANGED <<run, logged, stage, result, report, operation>>

(* startIfNeeded writes the record it loaded as RUNNING.                    *)
Start ==
  /\ pc = "loop" /\ steps < MaxSteps
  /\ copy.status \in Startable
  /\ SaveCopy(WithStatus(copy, "RUNNING"), 0)
  /\ UNCHANGED <<logged, stage, result, steps>>

Skip ==
  /\ pc = "loop" /\ steps < MaxSteps
  /\ copy.status = "RUNNING"
  /\ copy.stage \in Skippable(copy.mode)
  /\ steps' = steps + 1
  /\ SaveCopy(WithStageSkipped(copy), 0)
  /\ UNCHANGED <<logged, stage, result>>

Execute ==
  /\ pc = "loop" /\ steps < MaxSteps
  /\ copy.status = "RUNNING"
  /\ copy.stage \notin Skippable(copy.mode)
  /\ pc' = "execute"
  /\ UNCHANGED <<run, logged, copy, stage, result, steps, report, operation>>

(* Fault: a discarded result is not counted as a step. *)
ReloadUncounted ==
  /\ pc = "execute"
  /\ \/ /\ run.status = "READY"
        /\ copy' = run /\ pc' = "loop"
        /\ UNCHANGED <<stage, result, report, steps>>
     \/ /\ run.status # "READY"
        /\ Leave
  /\ UNCHANGED <<run, logged, operation>>

(* The executor returned; the record is read again.  PAUSED or another stop *)
(* ends the supervision, READY (paused and resumed meanwhile) discards the  *)
(* result, RUNNING keeps it for the next step.                              *)
Reload ==
  /\ pc = "execute"
  /\ \/ /\ run.status = "READY"
        /\ steps' = steps + 1
        /\ copy' = run /\ pc' = "loop"
        /\ UNCHANGED <<stage, result, report>>
     \/ /\ run.status = "RUNNING"
        /\ steps' = steps + 1
        /\ stage' = copy.stage /\ result' \in Results
        /\ copy' = run /\ pc' = "apply"
        /\ UNCHANGED report
     \/ /\ run.status \notin {"READY", "RUNNING"}
        /\ Leave
  /\ UNCHANGED <<run, logged, operation>>

(* The executor, the inspector, a store or a lock threw: the run keeps the   *)
(* state that was written last, and an event still due is lost.             *)
Abort ==
  /\ pc # "idle"
  /\ Leave
  /\ UNCHANGED <<run, logged, operation>>

(* mergeEvidence rejects evidence of another stage than the reloaded one.   *)
Mismatched ==
  \/ "foreign" \in result.evidence
  \/ result.evidence # {} /\ stage # copy.stage

Produced ==
  (IF "gate" \in result.evidence /\ stage \in Gated THEN {stage} ELSE {})
  \cup (IF "build" \in result.evidence THEN {Build} ELSE {})

(* Fault: the last stage is checked like any other. *)
GatesPassStageOnly(evidence) == StageGate(stage, evidence)

GatesPass(evidence) ==
  /\ StageGate(stage, evidence)
  /\ stage + 1 = DONE => RunGate(copy.mode, NeedsBuild, evidence)

(* Fault: the stage is reported as completed whatever the gates say. *)
ApplyCompletionReported ==
  /\ pc = "apply" /\ result.status = "completed" /\ ~Mismatched
  /\ LET evidence == copy.evidence \cup Produced IN
       IF GatesPass(evidence)
       THEN SaveCopy(WithStageCompleted(copy, evidence), stage)
       ELSE SaveCopy([WithStatus(copy, "FAILED_FINAL") EXCEPT !.evidence = evidence], stage)
  /\ stage' = NoStage /\ result' = NoResult
  /\ UNCHANGED <<logged, steps>>

ApplyCompletion ==
  /\ pc = "apply" /\ result.status = "completed" /\ ~Mismatched
  /\ LET evidence == copy.evidence \cup Produced IN
       IF GatesPass(evidence)
       THEN SaveCopy(WithStageCompleted(copy, evidence), stage)
       ELSE SaveCopy([WithStatus(copy, "FAILED_FINAL") EXCEPT !.evidence = evidence], 0)
  /\ stage' = NoStage /\ result' = NoResult
  /\ UNCHANGED <<logged, steps>>

RejectEvidence ==
  /\ pc = "apply" /\ result.status = "completed" /\ Mismatched
  /\ Leave
  /\ UNCHANGED <<run, logged, operation>>

ApplyStop ==
  /\ pc = "apply" /\ result.status # "completed"
  /\ SaveCopy(WithStatus(copy, result.status), 0)
  /\ stage' = NoStage /\ result' = NoResult
  /\ UNCHANGED <<logged, steps>>

BudgetExhausted ==
  /\ pc = "loop" /\ steps = MaxSteps
  /\ SaveCopy(WithStatus(copy, "FAILED_RETRYABLE"), 0)
  /\ UNCHANGED <<logged, stage, result, steps>>

(* The event and the checkpoint of the last write.                          *)
Trace ==
  /\ pc = "trace"
  /\ logged' = IF report = 0 THEN logged ELSE report
  /\ \/ /\ copy.status = "RUNNING"
        /\ pc' = "loop" /\ report' = 0
        /\ UNCHANGED <<copy, stage, result, steps>>
     \/ /\ copy.status # "RUNNING"
        /\ Leave
  /\ UNCHANGED <<run, operation>>
----------------------------------------------------------------------------
(* recoverHarnessRun, phase one: the record becomes RECOVERING if it is     *)
(* still the one that was loaded.                                           *)
BeginRecovery ==
  /\ pc = "idle" /\ NeedsRecovery
  /\ Save(WithStatus(run, "RECOVERING")) /\ copy' = WithStatus(run, "RECOVERING")
  /\ pc' = "inspect"
  /\ UNCHANGED <<logged, stage, result, steps, report>>

(* Phase two, after the inspection of Git, pull request and deployment: the *)
(* compare-and-save against the RECOVERING record.  The driver supervises   *)
(* the run next unless it waits for the Desktop Agent.                      *)
PersistRecovery(r) ==
  /\ pc = "inspect"
  /\ IF run = copy THEN Save(r) ELSE UNCHANGED <<run, operation>>
  /\ UNCHANGED logged

AgentUnavailable == PersistRecovery(WithStatus(copy, "WAITING_AGENT")) /\ Leave

Supervisable ==
  /\ pc' = "recovered" /\ copy' = NoCopy
  /\ UNCHANGED <<stage, result, steps, report>>

ResumeStage == PersistRecovery(WithStatus(copy, "RUNNING")) /\ Supervisable

(* The commit, pull request or deployment of the current stage exists.      *)
ReconcileStage ==
  /\ copy.stage \in {COMMIT, PR, DEPLOY}
  /\ PersistRecovery(WithStageCompleted(copy, copy.evidence \cup {copy.stage}))
  /\ Supervisable

(* The sandbox adapter refreshes the preflight of a run that has not begun; *)
(* the refresh that succeeds changes timestamps only.                       *)
RefreshPreflight ==
  /\ run.mode = "idea-lab" /\ pc = "idle"
  /\ run.stage = CONTEXT /\ run.status = "READY"
  /\ Save(PreflightBlocked(run))
  /\ UNCHANGED <<logged, worker>>
----------------------------------------------------------------------------
(* The owner's pause and resume exist for Project Workspace runs only.      *)
Pause ==
  /\ run.mode = "project-workspace"
  /\ run.status \in {"READY", "RUNNING"}
  /\ Save(WithStatus(run, "PAUSED"))
  /\ UNCHANGED <<logged, worker>>

Resume ==
  /\ run.mode = "project-workspace"
  /\ run.status \in Resumable
  /\ Save(WithStatus(run, "READY"))
  /\ UNCHANGED <<logged, worker>>

RequestRetry ==
  /\ run.retry # "active" /\ run.status = "FAILED_FINAL"
  /\ run.cycle < MaxRetries
  /\ Save(Retried(run))
  /\ UNCHANGED <<logged, worker>>

(* The operator pauses a RUNNING run nobody supervises: inspect, consume    *)
(* the approval bound to the inspected revision, compare and save.          *)
Inspect ==
  /\ run.mode = "project-workspace" /\ operator = "idle"
  /\ run.status = "RUNNING" /\ pc = "idle"
  /\ operator' = "inspected" /\ snapshot' = "current"
  /\ UNCHANGED <<run, logged, worker, approvals>>

ConsumeApproval ==
  /\ operator = "inspected" /\ approvals > 0
  /\ operator' = "approved" /\ approvals' = approvals - 1
  /\ UNCHANGED <<run, logged, worker, snapshot>>

Reconcile ==
  /\ operator = "approved" /\ operator' = "idle"
  /\ run' = IF snapshot = "current" THEN WithStatus(run, "PAUSED") ELSE run
  /\ snapshot' = "outdated"
  /\ UNCHANGED <<logged, worker, approvals>>

RejectApproval ==
  /\ operator = "inspected" /\ operator' = "idle"
  /\ snapshot' = "outdated"
  /\ UNCHANGED <<run, logged, worker, approvals>>

(* The Runtime process ends; its locks are reclaimed by the next one.       *)
Crash ==
  /\ pc # "idle" \/ operator # "idle"
  /\ Leave
  /\ operator' = "idle" /\ snapshot' = "outdated"
  /\ UNCHANGED <<run, logged, approvals>>

Supervision ==
  \/ Start \/ Skip \/ Execute \/ Reload \/ ApplyCompletion \/ RejectEvidence
  \/ ApplyStop \/ BudgetExhausted \/ Trace

Recovery == AgentUnavailable \/ ResumeStage \/ ReconcileStage

Others ==
  \/ RefreshPreflight \/ Pause \/ Resume \/ RequestRetry
  \/ Inspect \/ ConsumeApproval \/ Reconcile \/ RejectApproval

Next ==
  \/ Supervise \/ Supervision \/ BeginRecovery \/ Recovery \/ Abort \/ Crash \/ Others

Spec == Init /\ [][Next]_vars

(* The executor answers and the driver comes back to every run it may       *)
(* supervise or recover; owners and operators need not act.                 *)
Fairness ==
  /\ WF_vars(Supervise) /\ WF_vars(Supervision)
  /\ WF_vars(BeginRecovery) /\ WF_vars(Recovery)

FairSpec == Spec /\ Fairness
----------------------------------------------------------------------------
(* Every stage before the current one was completed or, in the profile of   *)
(* the run's mode, skipped, never both, whichever of the supervisor, the    *)
(* recovery, the owner and the operator wrote the record last.              *)
StagesAccounted ==
  /\ run.completed \cup run.skipped = 1 .. (run.stage - 1)
  /\ run.completed \cap run.skipped = {}
  /\ run.skipped \subseteq Skippable(run.mode)

(* A completed stage that needs evidence has it, and a run is DONE only     *)
(* with all the evidence its mode requires, BUILD included when the purpose *)
(* profile asks for it.                                                     *)
EvidenceComplete ==
  /\ run.completed \cap Gated \subseteq run.evidence
  /\ run.status = "DONE" => RunGate(run.mode, NeedsBuild, run.evidence)

(* A run that failed for good can be retried: no active retry is left that  *)
(* would answer every further request with "already-active".                *)
RetryPossible == run.status = "FAILED_FINAL" => run.retry # "active"

(* The events never report a stage as completed that the record has not     *)
(* completed, although the record can be overwritten from a stale copy.     *)
EventsBacked == logged \in run.completed \cup {0}

(* No stage after PREFLIGHT is reached without a resolved policy.           *)
PolicyResolved == run.preflight = "blocked" => run.stage = PREFLIGHT

(* Seen from outside, the run goes through its life cycle stage by stage.   *)
Outcome ==
  IF run.status = "DONE" THEN "done"
  ELSE IF run.status = "FAILED_FINAL" THEN "failed" ELSE "open"

Lifecycle == INSTANCE RunLifecycle WITH
  LastStage <- DONE, stage <- run.stage, outcome <- Outcome, attempts <- run.cycle

ImplementsLifecycle == Lifecycle!Spec

(* A supervision ends within its step budget, also when the owner pauses    *)
(* and resumes the run again and again while the executor works.            *)
SupervisionEnds == pc = "execute" ~> pc = "idle"

(* "its stale result cannot overwrite the user pause": while the owner's    *)
(* pause is in force, the supervisor that holds an executor's result does   *)
(* not write the record; a run leaves PAUSED only for READY, by a resume.   *)
(* The code does not keep it: a pause between Reload and the write is lost. *)
PauseHolds ==
  [][run.status = "PAUSED" /\ pc = "apply" => run'.status \in {"PAUSED", "READY"}]_vars

(* "Process crashes ... are recoverable conditions": a recovery that was    *)
(* interrupted does not leave the run RECOVERING for ever.                  *)
RecoveryEnds == run.status = "RECOVERING" ~> run.status # "RECOVERING"
=============================================================================
