--------------------------- MODULE HarnessStages ---------------------------
(***************************************************************************)
(* The stages of a development run and the pure transitions of its record  *)
(* (src/harness/state-machine.ts, src/harness/completion-gates.ts,         *)
(* src/idea-lab/completion-profile.ts).  A stage is its position in        *)
(* HARNESS_STAGE_ORDER.  Each stage has at most one required kind of       *)
(* evidence, so evidence is the set of the stages whose required kind is   *)
(* recorded, plus Build for evidence of kind "build".                      *)
(***************************************************************************)
EXTENDS Naturals

PREFLIGHT == 1
CONTEXT == 2
TEST == 6
SELF_REVIEW == 7
COMMIT == 8
PR == 9
CI == 10
MERGE == 11
DEPLOY == 12
PRODUCTION_VERIFY == 13
DONE == 14

Stages == PREFLIGHT .. DONE
Build == 0

Modes == {"project-workspace", "idea-lab"}

Statuses == {"READY", "RUNNING", "WAITING_EXTERNAL", "WAITING_AGENT", "RECOVERING",
             "BLOCKED_USER", "FAILED_RETRYABLE", "FAILED_FINAL", "PAUSED", "DONE"}

(* Fault: a run that failed for good can be resumed. *)
ResumableAfterFailure ==
  {"PAUSED", "WAITING_EXTERNAL", "WAITING_AGENT", "BLOCKED_USER", "RECOVERING", "FAILED_FINAL"}

Resumable == {"PAUSED", "WAITING_EXTERNAL", "WAITING_AGENT", "BLOCKED_USER", "RECOVERING"}

Startable == {"READY", "FAILED_RETRYABLE"}

Gated == {TEST, SELF_REVIEW, COMMIT, PR, CI, DEPLOY, PRODUCTION_VERIFY}

Skippable(mode) == IF mode = "idea-lab" THEN {PR, CI, MERGE} ELSE {}

RequiredEvidence(mode) == Gated \ Skippable(mode)

Run == [mode      : Modes,
        stage     : Stages,
        status    : Statuses,
        completed : SUBSET Stages,
        skipped   : SUBSET Stages,
        evidence  : SUBSET (Gated \cup {Build}),
        preflight : {"ready", "blocked"},
        cycle     : Nat,
        retry     : {"none", "active", "completed"}]

(* createInitialRunState for a preflight that found its policy or not. *)
InitialRun(mode, preflight) ==
  LET ready == preflight = "ready" IN
  [mode      |-> mode,
   stage     |-> IF ready THEN CONTEXT ELSE PREFLIGHT,
   status    |-> IF ready THEN "READY" ELSE "BLOCKED_USER",
   completed |-> IF ready THEN {PREFLIGHT} ELSE {},
   skipped   |-> {},
   evidence  |-> {},
   preflight |-> preflight,
   cycle     |-> 0,
   retry     |-> "none"]

(* Fault: a retry is not closed when the run fails again. *)
WithStatusRetryOpen(r, s) == [r EXCEPT !.status = s]

(* transitionRunState for the commands that only change the status; the     *)
(* supervisor's updateRun closes an active retry when the run fails again.  *)
WithStatus(r, s) ==
  [r EXCEPT !.status = s,
            !.retry = IF s = "FAILED_FINAL" /\ @ = "active" THEN "completed" ELSE @]

StatusAt(stage) == IF stage = DONE THEN "DONE" ELSE "RUNNING"

(* complete-stage, with the evidence recorded by then. *)
WithStageCompleted(r, evidence) ==
  [r EXCEPT !.stage = @ + 1,
            !.status = StatusAt(r.stage + 1),
            !.completed = @ \cup {r.stage},
            !.evidence = evidence]

(* skip-stage *)
WithStageSkipped(r) ==
  [r EXCEPT !.stage = @ + 1,
            !.status = StatusAt(r.stage + 1),
            !.skipped = @ \cup {r.stage}]

(* assertStageCompletionEvidence and assertRunCompletionEvidence. *)
StageGate(stage, evidence) == stage \in Gated => stage \in evidence

RunGate(mode, needsBuild, evidence) ==
  /\ RequiredEvidence(mode) \subseteq evidence
  /\ needsBuild => Build \in evidence

(* requestHarnessRunRetry of a run that failed for good. *)
Retried(r) ==
  [r EXCEPT !.status = "READY", !.cycle = @ + 1, !.retry = "active"]

(* Faults: the refresh keeps the completed stages, or the stage. *)
PreflightBlockedLate(r) ==
  [r EXCEPT !.stage = PREFLIGHT, !.status = "BLOCKED_USER", !.preflight = "blocked"]

PreflightBlockedInPlace(r) ==
  [r EXCEPT !.status = "BLOCKED_USER", !.preflight = "blocked"]

(* refreshDevelopmentRunPreflight when the policy cannot be resolved. *)
PreflightBlocked(r) ==
  [r EXCEPT !.stage = PREFLIGHT, !.status = "BLOCKED_USER",
            !.completed = {}, !.skipped = {}, !.preflight = "blocked"]
=============================================================================
