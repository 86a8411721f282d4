-------------------------- MODULE HarnessRunProofs --------------------------
(***************************************************************************)
(* Proofs about a development run, for any mode, step budget and number of *)
(* retries and approvals.                                                  *)
(***************************************************************************)
EXTENDS HarnessRun, TLAPS

(* What is true of a record by itself, in memory or on disk.                *)
Accounted(r) ==
  /\ r.completed \cup r.skipped = 1 .. (r.stage - 1)
  /\ r.completed \cap r.skipped = {}
  /\ r.skipped \subseteq Skippable(r.mode)

Evidenced(r) ==
  /\ r.completed \cap Gated \subseteq r.evidence
  /\ r.status = "DONE" => RunGate(r.mode, NeedsBuild, r.evidence)

Sound(r) ==
  /\ Accounted(r)
  /\ Evidenced(r)
  /\ r.status = "DONE" <=> r.stage = DONE
  /\ r.status = "FAILED_FINAL" => r.retry # "active"
  /\ r.preflight = "blocked" <=> r.stage = PREFLIGHT

(* The record on disk and the one in memory differ in the status only.      *)
SameProgress(r, q) ==
  /\ r.mode = q.mode /\ r.stage = q.stage
  /\ r.completed = q.completed /\ r.skipped = q.skipped
  /\ r.evidence = q.evidence /\ r.preflight = q.preflight

Live == {"READY", "RUNNING", "PAUSED", "FAILED_RETRYABLE"}

(* While a worker may still write its copy, nobody else has moved the run.  *)
Writing ==
  \/ pc \in {"loop", "execute", "apply"}
  \/ pc = "trace" /\ copy.status = "RUNNING"

Supervised ==
  Writing =>
    /\ SameProgress(run, copy)
    /\ run.cycle = copy.cycle /\ run.retry = copy.retry
    /\ run.status \in Live
    /\ copy.status \in Startable \cup {"RUNNING"}
    /\ copy.stage # PREFLIGHT

WorkerInv ==
  /\ Supervised
  /\ pc \in {"execute", "apply"} => copy.status = "RUNNING"
  /\ pc = "execute" => steps < MaxSteps
  /\ pc = "apply" => stage = copy.stage
  /\ pc = "inspect" => copy.status = "RECOVERING"
  /\ report \in (run.completed \ {PREFLIGHT}) \cup {0}
  /\ logged \in (run.completed \ {PREFLIGHT}) \cup {0}

(* What the operator's compare-and-save relies on.                          *)
OperatorInv == snapshot = "current" => run.status = "RUNNING"

RunInv == Sound(run) /\ Sound(copy) /\ WorkerInv /\ OperatorInv
----------------------------------------------------------------------------
(* What each transition does to a record, field by field.                   *)
LEMMA StatusChanges ==
  ASSUME NEW r \in Run, NEW s \in Statuses
  PROVE  LET q == WithStatus(r, s) IN
         /\ q \in Run /\ SameProgress(q, r) /\ q.cycle = r.cycle /\ q.status = s
         /\ s # "FAILED_FINAL" => q.retry = r.retry
         /\ s = "FAILED_FINAL" => q.retry # "active"
  BY DEF WithStatus, Run, SameProgress

LEMMA SoundStatus ==
  ASSUME NEW r \in Run, Sound(r), NEW s \in Statuses \ {"DONE"}, r.status # "DONE"
  PROVE  Sound(WithStatus(r, s))
<1> DEFINE q == WithStatus(r, s)
<1>1. /\ SameProgress(q, r) /\ q.status = s
      /\ s = "FAILED_FINAL" => q.retry # "active"
  BY StatusChanges
<1> HIDE DEF q
<1>2. Sound(q)
  BY <1>1 DEF Sound, Accounted, Evidenced, SameProgress
<1> QED
  BY <1>2 DEF q

LEMMA StageOrder ==
  /\ PREFLIGHT = 1 /\ CONTEXT = 2 /\ DONE = 14 /\ Stages = 1 .. 14
  /\ \A mode : Skippable(mode) \subseteq {9, 10, 11}
  /\ Gated = {6, 7, 8, 9, 10, 12, 13}
  BY DEF PREFLIGHT, CONTEXT, DONE, Stages, Skippable, Gated, PR, CI, MERGE, TEST,
         SELF_REVIEW, COMMIT, DEPLOY, PRODUCTION_VERIFY

LEMMA StageCompletes ==
  ASSUME NEW r \in Run, r.stage # DONE, NEW evidence \in SUBSET (Gated \cup {Build})
  PROVE  LET q == WithStageCompleted(r, evidence) IN
         /\ q \in Run /\ q.mode = r.mode
         /\ q.stage = r.stage + 1 /\ q.status = StatusAt(r.stage + 1)
         /\ q.completed = r.completed \cup {r.stage} /\ q.skipped = r.skipped
         /\ q.evidence = evidence
         /\ q.preflight = r.preflight /\ q.cycle = r.cycle /\ q.retry = r.retry
<1>1. r.stage + 1 \in Stages /\ StatusAt(r.stage + 1) \in Statuses
  BY StageOrder DEF Run, StatusAt, Statuses
<1> QED
  BY <1>1 DEF WithStageCompleted, Run

LEMMA StageSkipped ==
  ASSUME NEW r \in Run, r.stage # DONE
  PROVE  LET q == WithStageSkipped(r) IN
         /\ q \in Run /\ q.mode = r.mode
         /\ q.stage = r.stage + 1 /\ q.status = StatusAt(r.stage + 1)
         /\ q.completed = r.completed /\ q.skipped = r.skipped \cup {r.stage}
         /\ q.evidence = r.evidence
         /\ q.preflight = r.preflight /\ q.cycle = r.cycle /\ q.retry = r.retry
<1>1. r.stage + 1 \in Stages /\ StatusAt(r.stage + 1) \in Statuses
  BY StageOrder DEF Run, StatusAt, Statuses
<1> QED
  BY <1>1 DEF WithStageSkipped, Run

LEMMA SoundCompletion ==
  ASSUME NEW r \in Run, Sound(r), r.stage # DONE, r.stage # PREFLIGHT,
         NEW evidence \in SUBSET (Gated \cup {Build}), r.evidence \subseteq evidence,
         StageGate(r.stage, evidence),
         r.stage + 1 = DONE => RunGate(r.mode, NeedsBuild, evidence)
  PROVE  Sound(WithStageCompleted(r, evidence))
<1> DEFINE q == WithStageCompleted(r, evidence)
<1>1. /\ q.mode = r.mode /\ q.stage = r.stage + 1 /\ q.status = StatusAt(r.stage + 1)
      /\ q.completed = r.completed \cup {r.stage} /\ q.skipped = r.skipped
      /\ q.evidence = evidence /\ q.preflight = r.preflight
  BY StageCompletes
<1> HIDE DEF q
<1>2. r.stage \in 2 .. 13
  BY StageOrder DEF Run
<1>3. Accounted(q)
  BY <1>1, <1>2 DEF Sound, Accounted
<1>4. Evidenced(q)
  BY <1>1, <1>2 DEF Sound, Evidenced, StageGate, StatusAt
<1>5. Sound(q)
  BY <1>1, <1>2, <1>3, <1>4, StageOrder DEF Sound, StatusAt
<1> QED
  BY <1>5 DEF q

LEMMA SoundSkip ==
  ASSUME NEW r \in Run, Sound(r), r.stage \in Skippable(r.mode)
  PROVE  Sound(WithStageSkipped(r))
<1> DEFINE q == WithStageSkipped(r)
<1>1. r.stage \in 9 .. 11
  BY StageOrder
<1>2. /\ q.mode = r.mode /\ q.stage = r.stage + 1 /\ q.status = StatusAt(r.stage + 1)
      /\ q.completed = r.completed /\ q.skipped = r.skipped \cup {r.stage}
      /\ q.evidence = r.evidence /\ q.preflight = r.preflight
  BY <1>1, StageSkipped, StageOrder
<1> HIDE DEF q
<1>3. Accounted(q)
  BY <1>1, <1>2 DEF Sound, Accounted
<1>4. Sound(q)
  BY <1>1, <1>2, <1>3, StageOrder DEF Sound, Evidenced, StatusAt
<1> QED
  BY <1>4 DEF q
----------------------------------------------------------------------------
LEMMA InitialRuns ==
  /\ NoCopy \in Run /\ Sound(NoCopy)
  /\ \A mode \in Modes, preflight \in {"ready", "blocked"} :
       InitialRun(mode, preflight) \in Run /\ Sound(InitialRun(mode, preflight))
<1>1. ASSUME NEW mode \in Modes, NEW preflight \in {"ready", "blocked"}
      PROVE  InitialRun(mode, preflight) \in Run /\ Sound(InitialRun(mode, preflight))
  <2> DEFINE q == InitialRun(mode, preflight)
  <2>1. q \in Run
    BY StageOrder DEF InitialRun, Run, Statuses
  <2>2. /\ q.stage = IF preflight = "ready" THEN 2 ELSE 1
        /\ q.status = IF preflight = "ready" THEN "READY" ELSE "BLOCKED_USER"
        /\ q.completed = IF preflight = "ready" THEN {1} ELSE {}
        /\ q.skipped = {} /\ q.retry = "none" /\ q.preflight = preflight
    BY StageOrder DEF InitialRun
  <2> HIDE DEF q
  <2>3. 1 .. (2 - 1) = {1} /\ 1 .. (1 - 1) = {}
    OBVIOUS
  <2>6. Accounted(q)
    BY <2>2, <2>3, StageOrder DEF Accounted
  <2>4. Evidenced(q)
    BY <2>2, StageOrder DEF Evidenced
  <2>5. Sound(q)
    BY <2>2, <2>4, <2>6, StageOrder DEF Sound
  <2> QED
    BY <2>1, <2>5 DEF q
<1> QED
  BY <1>1 DEF NoCopy, Modes

LEMMA ResultTypes ==
  /\ NoResult \in Results
  /\ \A r \in Results : r.status # "completed" => r.status \in Statuses \ {"DONE"}
BY DEF NoResult, Results, Stops, Completions, Statuses

LEMMA WorkerLeaves ==
  ASSUME Leave
  PROVE  /\ pc' = "idle" /\ copy' \in Run /\ Sound(copy') /\ stage' \in Stages
         /\ result' \in Results /\ steps' \in 0 .. MaxSteps /\ report' = 0
BY InitialRuns, ResultTypes, StageOrder, HarnessAssumption DEF Leave, NoStage

LEMMA PreflightBlocks ==
  ASSUME NEW r \in Run, Sound(r)
  PROVE  LET q == PreflightBlocked(r) IN
         /\ q \in Run /\ Sound(q) /\ q.completed = {} /\ q.stage = PREFLIGHT
         /\ q.status = "BLOCKED_USER" /\ q.cycle = r.cycle
<1> DEFINE q == PreflightBlocked(r)
<1>1. /\ q \in Run /\ q.stage = 1 /\ q.status = "BLOCKED_USER" /\ q.completed = {}
      /\ q.skipped = {} /\ q.preflight = "blocked" /\ q.cycle = r.cycle
  <2>1. PREFLIGHT \in Stages /\ {} \in SUBSET Stages /\ "BLOCKED_USER" \in Statuses
    BY StageOrder DEF Statuses
  <2>2. q \in Run
    BY <2>1 DEF PreflightBlocked, Run
  <2>3. /\ q.stage = 1 /\ q.status = "BLOCKED_USER" /\ q.completed = {}
        /\ q.skipped = {} /\ q.preflight = "blocked" /\ q.cycle = r.cycle
    BY StageOrder DEF PreflightBlocked, Run
  <2> QED
    BY <2>2, <2>3
<1> HIDE DEF q
<1>2. Sound(q)
  BY <1>1, StageOrder DEF Sound, Accounted, Evidenced
<1> QED
  BY <1>1, <1>2, StageOrder DEF q

LEMMA RetryReopens ==
  ASSUME NEW r \in Run, Sound(r), r.status = "FAILED_FINAL"
  PROVE  LET q == Retried(r) IN
         /\ q \in Run /\ Sound(q) /\ SameProgress(q, r)
         /\ q.status = "READY" /\ q.cycle = r.cycle + 1
<1> DEFINE q == Retried(r)
<1>1. q \in Run /\ SameProgress(q, r) /\ q.status = "READY" /\ q.cycle = r.cycle + 1
  <2>1. r.cycle + 1 \in Nat /\ "READY" \in Statuses
    BY DEF Run, Statuses
  <2>2. q \in Run
    BY <2>1 DEF Retried, Run
  <2>3. SameProgress(q, r) /\ q.status = "READY" /\ q.cycle = r.cycle + 1
    BY DEF Retried, Run, SameProgress
  <2> QED
    BY <2>2, <2>3
<1> HIDE DEF q
<1>2. Sound(q)
  BY <1>1 DEF Sound, Accounted, Evidenced, SameProgress
<1> QED
  BY <1>1, <1>2 DEF q
----------------------------------------------------------------------------
Inv == TypeOK /\ RunInv

OperationTyped ==
  /\ operator \in {"idle", "inspected", "approved"}
  /\ snapshot \in {"current", "outdated"}
  /\ approvals \in Nat

(* The three ways a step can end: the worker wrote its copy, somebody else  *)
(* wrote the record, or the worker left.                                    *)
LEMMA CopySaved ==
  ASSUME Inv, NEW r \in Run, Sound(r), NEW completed, SaveCopy(r, completed),
         r.stage # PREFLIGHT, run.completed \subseteq r.completed,
         completed \in (r.completed \ {PREFLIGHT}) \cup {0},
         logged' = logged, stage' \in Stages, result' \in Results, steps' \in 0 .. MaxSteps
  PROVE  Inv'
<1>1. /\ run' = r /\ copy' = r /\ report' = completed /\ pc' = "trace"
      /\ snapshot' = "outdated" /\ operator' = operator /\ approvals' = approvals
  BY DEF SaveCopy, Save
<1>2. r.completed \subseteq Stages
  BY DEF Run
<1>3. TypeOK'
  BY <1>1, <1>2 DEF Inv, TypeOK, WorkerSteps
<1>4. Supervised'
  BY <1>1 DEF Supervised, Writing, SameProgress, Live, Startable
<1>5. WorkerInv'
  BY <1>1, <1>4 DEF Inv, RunInv, WorkerInv
<1>6. Sound(run)' /\ Sound(copy)'
  BY <1>1 DEF Sound, Accounted, Evidenced
<1> QED
  BY <1>1, <1>3, <1>5, <1>6 DEF Inv, RunInv, OperatorInv

LEMMA RunSaved ==
  ASSUME Inv, NEW r \in Run, Sound(r), run' = r, UNCHANGED <<logged, worker>>,
         OperationTyped', OperatorInv', SameProgress(r, run),
         Writing => r.status \in Live /\ r.cycle = run.cycle /\ r.retry = run.retry
  PROVE  Inv'
<1>1. TypeOK'
  BY DEF Inv, TypeOK, OperationTyped, worker
<1>2. Supervised'
  BY DEF Inv, RunInv, WorkerInv, Supervised, Writing, SameProgress, worker
<1>3. WorkerInv'
  BY <1>2 DEF Inv, RunInv, WorkerInv, SameProgress, worker
<1>4. Sound(run)' /\ Sound(copy)'
  BY DEF Inv, RunInv, Sound, Accounted, Evidenced, worker
<1> QED
  BY <1>1, <1>3, <1>4 DEF Inv, RunInv

LEMMA WorkerLeft ==
  ASSUME Inv, Leave, run' \in Run, Sound(run)', run.completed \subseteq run'.completed,
         logged' \in (run'.completed \ {PREFLIGHT}) \cup {0},
         OperationTyped', OperatorInv'
  PROVE  Inv'
<1>1. /\ pc' = "idle" /\ copy' \in Run /\ Sound(copy') /\ stage' \in Stages
      /\ result' \in Results /\ steps' \in 0 .. MaxSteps /\ report' = 0
  BY WorkerLeaves
<1>2. run'.completed \subseteq Stages /\ PREFLIGHT \in Stages
  BY StageOrder DEF Run
<1>3. TypeOK'
  BY <1>1, <1>2 DEF TypeOK, WorkerSteps, OperationTyped
<1>4. WorkerInv'
  BY <1>1 DEF WorkerInv, Supervised, Writing
<1>5. Sound(copy)'
  BY <1>1 DEF Sound, Accounted, Evidenced
<1> QED
  BY <1>3, <1>4, <1>5 DEF Inv, RunInv
----------------------------------------------------------------------------
(* The steps of the supervisor.                                             *)
LEMMA Executable ==
  ASSUME Inv, Writing
  PROVE  /\ copy \in Run /\ Sound(copy) /\ copy.stage # DONE /\ copy.stage # PREFLIGHT
         /\ copy.status # "DONE" /\ run.completed = copy.completed
         /\ run.stage = copy.stage /\ run.cycle = copy.cycle
         /\ run.status \in Live /\ copy.status \in Startable \cup {"RUNNING"}
BY DEF Inv, TypeOK, RunInv, WorkerInv, Supervised, SameProgress, Startable, Sound

LEMMA StatusSaved ==
  ASSUME Inv, Writing, NEW s \in Statuses \ {"DONE"}, SaveCopy(WithStatus(copy, s), 0),
         logged' = logged, stage' \in Stages, result' \in Results, steps' \in 0 .. MaxSteps
  PROVE  Inv'
<1> DEFINE r == WithStatus(copy, s)
<1>1. r \in Run /\ Sound(r) /\ r.stage = copy.stage /\ r.completed = copy.completed
  BY Executable, StatusChanges, SoundStatus DEF SameProgress
<1>2. SaveCopy(r, 0)
  OBVIOUS
<1> HIDE DEF r
<1> QED
  BY <1>1, <1>2, Executable, CopySaved

LEMMA Supervising == ASSUME Inv, Supervise PROVE Inv'
<1>1. /\ run.preflight = "ready" /\ run.status \in Startable \cup {"RUNNING"}
      /\ copy' = run /\ steps' = 0 /\ pc' = "loop" /\ run' = run /\ logged' = logged
      /\ UNCHANGED <<stage, result, report, operator, snapshot, approvals>>
  BY DEF Supervise, operation
<1>2. TypeOK'
  BY <1>1, HarnessAssumption DEF Inv, TypeOK, WorkerSteps
<1>3. run.stage # PREFLIGHT
  BY <1>1 DEF Inv, RunInv, Sound
<1>4. Supervised'
  BY <1>1, <1>3 DEF Supervised, SameProgress, Live, Startable
<1>5. WorkerInv'
  BY <1>1, <1>4 DEF Inv, RunInv, WorkerInv
<1>6. Sound(run)' /\ Sound(copy)' /\ OperatorInv'
  BY <1>1 DEF Inv, RunInv, Sound, Accounted, Evidenced, OperatorInv
<1> QED
  BY <1>2, <1>5, <1>6 DEF Inv, RunInv

LEMMA Starting == ASSUME Inv, Start PROVE Inv'
<1>1. Writing /\ "RUNNING" \in Statuses \ {"DONE"}
  BY DEF Start, Writing, Statuses
<1>2. /\ SaveCopy(WithStatus(copy, "RUNNING"), 0) /\ logged' = logged
      /\ stage' \in Stages /\ result' \in Results /\ steps' \in 0 .. MaxSteps
  BY DEF Start, Inv, TypeOK
<1> QED
  BY <1>1, <1>2, StatusSaved

LEMMA Exhausting == ASSUME Inv, BudgetExhausted PROVE Inv'
<1>1. Writing /\ "FAILED_RETRYABLE" \in Statuses \ {"DONE"}
  BY DEF BudgetExhausted, Writing, Statuses
<1>2. /\ SaveCopy(WithStatus(copy, "FAILED_RETRYABLE"), 0) /\ logged' = logged
      /\ stage' \in Stages /\ result' \in Results /\ steps' \in 0 .. MaxSteps
  BY DEF BudgetExhausted, Inv, TypeOK
<1> QED
  BY <1>1, <1>2, StatusSaved

LEMMA Stopping == ASSUME Inv, ApplyStop PROVE Inv'
<1>1. Writing /\ result.status \in Statuses \ {"DONE"}
  BY ResultTypes DEF ApplyStop, Writing, Inv, TypeOK
<1>2. /\ SaveCopy(WithStatus(copy, result.status), 0) /\ logged' = logged
      /\ stage' \in Stages /\ result' \in Results /\ steps' \in 0 .. MaxSteps
  BY ResultTypes, StageOrder DEF ApplyStop, Inv, TypeOK, NoStage
<1> QED
  BY <1>1, <1>2, StatusSaved

LEMMA Skipping == ASSUME Inv, Skip PROVE Inv'
<1> DEFINE r == WithStageSkipped(copy)
<1>1. Writing /\ copy.stage \in Skippable(copy.mode) /\ SaveCopy(r, 0)
  BY DEF Skip, Writing
<1>2. r \in Run /\ Sound(r) /\ r.stage = copy.stage + 1 /\ r.completed = copy.completed
  BY <1>1, Executable, StageSkipped, SoundSkip
<1> HIDE DEF r
<1>3. r.stage # PREFLIGHT
  BY <1>1, <1>2, Executable, StageOrder DEF Run
<1>4. /\ logged' = logged /\ stage' \in Stages /\ result' \in Results
      /\ steps' \in 0 .. MaxSteps
  BY HarnessAssumption DEF Skip, Inv, TypeOK
<1> QED
  BY <1>1, <1>2, <1>3, <1>4, Executable, CopySaved

LEMMA Completing == ASSUME Inv, ApplyCompletion PROVE Inv'
<1> DEFINE evidence == copy.evidence \cup Produced
<1>1. /\ Writing /\ stage = copy.stage /\ pc = "apply" /\ copy.status = "RUNNING"
  BY DEF ApplyCompletion, Writing, Inv, RunInv, WorkerInv
<1>2. evidence \in SUBSET (Gated \cup {Build}) /\ copy.evidence \subseteq evidence
  BY Executable, <1>1 DEF Produced, Run
<1>3. /\ logged' = logged /\ stage' \in Stages /\ result' \in Results
      /\ steps' \in 0 .. MaxSteps
  BY ResultTypes, StageOrder DEF ApplyCompletion, Inv, TypeOK, NoStage
<1>4. CASE GatesPass(evidence)
  <2> DEFINE r == WithStageCompleted(copy, evidence)
  <2>1. SaveCopy(r, stage)
    BY <1>4 DEF ApplyCompletion
  <2>2. r \in Run /\ r.stage = copy.stage + 1 /\ r.completed = copy.completed \cup {stage}
    BY <1>1, <1>2, Executable, StageCompletes
  <2>3. Sound(r)
    BY <1>1, <1>2, <1>4, Executable, SoundCompletion DEF GatesPass
  <2> HIDE DEF r, evidence
  <2>4. r.stage # PREFLIGHT
    BY <1>1, <2>2, Executable, StageOrder DEF Run
  <2> QED
    BY <1>1, <1>3, <2>1, <2>2, <2>3, <2>4, Executable, CopySaved
<1>5. CASE ~GatesPass(evidence)
  <2> DEFINE q == WithStatus(copy, "FAILED_FINAL")
             r == [q EXCEPT !.evidence = evidence]
  <2>1. SaveCopy(r, 0)
    BY <1>5 DEF ApplyCompletion
  <2>2. q \in Run /\ SameProgress(q, copy) /\ q.status = "FAILED_FINAL" /\ q.retry # "active"
    BY <1>1, Executable, StatusChanges DEF Statuses
  <2> HIDE DEF q, evidence
  <2>3. /\ r \in Run /\ r.mode = copy.mode /\ r.stage = copy.stage /\ r.status = "FAILED_FINAL"
        /\ r.completed = copy.completed /\ r.skipped = copy.skipped /\ r.evidence = evidence
        /\ r.preflight = copy.preflight /\ r.retry # "active"
    BY <1>2, <2>2 DEF Run, SameProgress
  <2> HIDE DEF r
  <2>4. Accounted(r)
    BY <1>1, <2>3, Executable DEF Sound, Accounted
  <2>5. Evidenced(r)
    BY <1>1, <1>2, <2>3, Executable DEF Sound, Evidenced
  <2>6. Sound(r)
    BY <1>1, <2>3, <2>4, <2>5, Executable DEF Sound
  <2> QED
    BY <1>1, <1>3, <2>1, <2>3, <2>6, Executable, CopySaved
<1> QED
  BY <1>4, <1>5

LEMMA Executing == ASSUME Inv, Execute PROVE Inv'
<1>1. /\ pc = "loop" /\ steps < MaxSteps /\ copy.status = "RUNNING" /\ pc' = "execute"
      /\ UNCHANGED <<run, logged, copy, stage, result, steps, report, operator, snapshot,
                     approvals>>
  BY DEF Execute, operation
<1>2. TypeOK'
  BY <1>1 DEF Inv, TypeOK, WorkerSteps
<1>3. WorkerInv'
  BY <1>1 DEF Inv, RunInv, WorkerInv, Supervised, Writing, SameProgress
<1>4. Sound(run)' /\ Sound(copy)' /\ OperatorInv'
  BY <1>1 DEF Inv, RunInv, Sound, Accounted, Evidenced, OperatorInv
<1> QED
  BY <1>2, <1>3, <1>4 DEF Inv, RunInv

LEMMA Reloading == ASSUME Inv, Reload PROVE Inv'
<1>1. /\ pc = "execute" /\ run' = run /\ logged' = logged
      /\ UNCHANGED <<operator, snapshot, approvals>>
  BY DEF Reload, operation
<1>2. Writing /\ copy.status = "RUNNING" /\ copy.stage = run.stage /\ copy.stage # PREFLIGHT
  BY <1>1, Executable DEF Writing, Inv, RunInv, WorkerInv
<1>3. OperationTyped' /\ OperatorInv' /\ Sound(run)'
  BY <1>1 DEF Inv, TypeOK, RunInv, OperationTyped, OperatorInv, Sound, Accounted, Evidenced
<1>4. ASSUME run.status \in {"READY", "RUNNING"}, copy' = run, report' = report,
             steps' \in 0 .. MaxSteps, stage' \in Stages, result' \in Results,
             \/ run.status = "READY" /\ pc' = "loop"
             \/ run.status = "RUNNING" /\ pc' = "apply" /\ stage' = run.stage
      PROVE  Inv'
  <2>1. TypeOK'
    BY <1>1, <1>3, <1>4 DEF Inv, TypeOK, WorkerSteps, OperationTyped
  <2>2. WorkerInv'
    BY <1>1, <1>2, <1>4
    DEF Inv, RunInv, WorkerInv, Supervised, Writing, SameProgress, Live, Startable
  <2>3. Sound(copy)'
    BY <1>4 DEF Inv, RunInv, Sound, Accounted, Evidenced
  <2> QED
    BY <1>3, <2>1, <2>2, <2>3 DEF Inv, RunInv
<1>5. CASE Leave
  <2>1. run' \in Run /\ run.completed \subseteq run'.completed
        /\ logged' \in (run'.completed \ {PREFLIGHT}) \cup {0}
    BY <1>1 DEF Inv, TypeOK, RunInv, WorkerInv
  <2> QED
    BY <1>3, <1>5, <2>1, WorkerLeft
<1>6. steps + 1 \in 0 .. MaxSteps
  BY <1>1, HarnessAssumption DEF Inv, TypeOK, RunInv, WorkerInv
<1>7. CASE run.status = "READY" /\ steps' = steps + 1 /\ copy' = run /\ pc' = "loop"
           /\ UNCHANGED <<stage, result, report>>
  <2> QED
    BY <1>4, <1>6, <1>7 DEF Inv, TypeOK
<1>8. CASE run.status = "RUNNING" /\ steps' = steps + 1 /\ stage' = copy.stage
           /\ result' \in Results /\ copy' = run /\ pc' = "apply" /\ UNCHANGED report
  <2>1. stage' = run.stage /\ stage' \in Stages
    BY <1>2, <1>8 DEF Inv, TypeOK, Run
  <2> QED
    BY <1>4, <1>6, <1>8, <2>1
<1> QED
  BY <1>5, <1>7, <1>8 DEF Reload

(* The worker leaves and the record stays as it is.                         *)
LEMMA Leaving ==
  ASSUME Inv, Leave, run' = run, logged' \in (run.completed \ {PREFLIGHT}) \cup {0},
         OperationTyped', OperatorInv'
  PROVE  Inv'
<1>1. run' \in Run /\ Sound(run)'
  BY DEF Inv, TypeOK, RunInv, Sound, Accounted, Evidenced
<1> QED
  BY <1>1, WorkerLeft

LEMMA Aborting == ASSUME Inv, Abort \/ RejectEvidence \/ Crash PROVE Inv'
<1>1. Leave /\ run' = run /\ logged' = logged
  BY DEF Abort, RejectEvidence, Crash
<1>2. OperationTyped' /\ OperatorInv'
  BY DEF Abort, RejectEvidence, Crash, operation, Inv, TypeOK, OperationTyped, RunInv,
         OperatorInv
<1> QED
  BY <1>1, <1>2, Leaving DEF Inv, RunInv, WorkerInv

LEMMA Tracing == ASSUME Inv, Trace PROVE Inv'
<1>1. /\ pc = "trace" /\ run' = run /\ UNCHANGED <<operator, snapshot, approvals>>
      /\ logged' = IF report = 0 THEN logged ELSE report
  BY DEF Trace, operation
<1>2. OperationTyped' /\ OperatorInv' /\ Sound(run)'
  BY <1>1 DEF Inv, TypeOK, RunInv, OperationTyped, OperatorInv, Sound, Accounted, Evidenced
<1>3. logged' \in (run.completed \ {PREFLIGHT}) \cup {0}
  BY <1>1 DEF Inv, RunInv, WorkerInv
<1>4. CASE Leave
  BY <1>1, <1>2, <1>3, <1>4, Leaving
<1>5. CASE /\ copy.status = "RUNNING" /\ pc' = "loop" /\ report' = 0
           /\ UNCHANGED <<copy, stage, result, steps>>
  <2>1. logged' \in Stages \cup {0}
    BY <1>1 DEF Inv, TypeOK
  <2>2. TypeOK'
    BY <1>1, <1>2, <1>5, <2>1 DEF Inv, TypeOK, WorkerSteps, OperationTyped
  <2>3. WorkerInv'
    BY <1>1, <1>3, <1>5 DEF Inv, RunInv, WorkerInv, Supervised, Writing, SameProgress
  <2>4. Sound(copy)'
    BY <1>5 DEF Inv, RunInv, Sound, Accounted, Evidenced
  <2> QED
    BY <1>2, <2>2, <2>3, <2>4 DEF Inv, RunInv
<1> QED
  BY <1>4, <1>5 DEF Trace
----------------------------------------------------------------------------
(* The steps of the recovery.                                               *)
LEMMA Recovering == ASSUME Inv, BeginRecovery PROVE Inv'
<1> DEFINE r == WithStatus(run, "RECOVERING")
<1>1. /\ pc = "idle" /\ run.status # "DONE" /\ run' = r /\ copy' = r /\ pc' = "inspect"
      /\ snapshot' = "outdated"
      /\ UNCHANGED <<operator, approvals, logged, stage, result, steps, report>>
  BY DEF BeginRecovery, NeedsRecovery, Save
<1>2. r \in Run /\ SameProgress(r, run) /\ r.status = "RECOVERING" /\ Sound(r)
  BY <1>1, StatusChanges, SoundStatus DEF Inv, TypeOK, RunInv, Statuses
<1> HIDE DEF r
<1>3. TypeOK'
  BY <1>1, <1>2 DEF Inv, TypeOK, WorkerSteps
<1>4. WorkerInv'
  BY <1>1, <1>2 DEF Inv, RunInv, WorkerInv, Supervised, Writing, SameProgress
<1>5. Sound(run)' /\ Sound(copy)' /\ OperatorInv'
  BY <1>1, <1>2 DEF Sound, Accounted, Evidenced, OperatorInv
<1> QED
  BY <1>3, <1>4, <1>5 DEF Inv, RunInv

(* The second write of a recovery, whichever record it decided on.          *)
LEMMA Recovered ==
  ASSUME Inv, NEW r \in Run, Sound(r), PersistRecovery(r), copy.completed \subseteq r.completed,
         Leave \/ Supervisable
  PROVE  Inv'
<1>1. /\ pc = "inspect" /\ run' \in Run /\ Sound(run') /\ logged' = logged
      /\ run.completed \subseteq run'.completed
      /\ OperationTyped' /\ OperatorInv'
  BY DEF PersistRecovery, Save, operation, Inv, TypeOK, RunInv, OperationTyped, OperatorInv
<1>2. Sound(run)'
  BY <1>1 DEF Sound, Accounted, Evidenced
<1>3. CASE Leave
  BY <1>1, <1>2, <1>3, WorkerLeft DEF Inv, RunInv, WorkerInv
<1>4. CASE Supervisable
  <2>1. TypeOK'
    BY <1>1, <1>4, InitialRuns DEF Inv, TypeOK, Supervisable, WorkerSteps, OperationTyped
  <2>2. WorkerInv'
    BY <1>1, <1>4 DEF Supervisable, Inv, RunInv, WorkerInv, Supervised, Writing
  <2>3. Sound(copy)'
    BY <1>4, InitialRuns DEF Supervisable, Sound, Accounted, Evidenced
  <2> QED
    BY <1>1, <1>2, <2>1, <2>2, <2>3 DEF Inv, RunInv
<1> QED
  BY <1>3, <1>4

LEMMA Concluding ==
  ASSUME Inv, AgentUnavailable \/ ResumeStage \/ ReconcileStage
  PROVE  Inv'
<1>1. copy \in Run /\ Sound(copy) /\ pc = "inspect" /\ copy.status = "RECOVERING"
  BY DEF AgentUnavailable, ResumeStage, ReconcileStage, PersistRecovery, Inv, TypeOK,
         RunInv, WorkerInv
<1>2. ASSUME NEW s \in {"WAITING_AGENT", "RUNNING"}, PersistRecovery(WithStatus(copy, s)),
             Leave \/ Supervisable
      PROVE  Inv'
  <2>1. WithStatus(copy, s) \in Run /\ Sound(WithStatus(copy, s))
        /\ WithStatus(copy, s).completed = copy.completed
    BY <1>1, StatusChanges, SoundStatus DEF Statuses, SameProgress
  <2> QED
    BY <1>2, <2>1, Recovered
<1>3. ASSUME ReconcileStage PROVE Inv'
  <2> DEFINE evidence == copy.evidence \cup {copy.stage}
             r == WithStageCompleted(copy, evidence)
  <2>1. copy.stage \in {8, 9, 12} /\ PersistRecovery(r) /\ Supervisable
    BY <1>3 DEF ReconcileStage, COMMIT, PR, DEPLOY
  <2>2. evidence \in SUBSET (Gated \cup {Build}) /\ copy.evidence \subseteq evidence
    BY <1>1, <2>1, StageOrder DEF Run
  <2>3. StageGate(copy.stage, evidence) /\ copy.stage + 1 # DONE
        /\ copy.stage # DONE /\ copy.stage # PREFLIGHT
    BY <2>1, StageOrder DEF StageGate
  <2> HIDE DEF evidence
  <2>4. r \in Run /\ Sound(r) /\ copy.completed \subseteq r.completed
    BY <1>1, <2>2, <2>3, StageCompletes, SoundCompletion
  <2> QED
    BY <2>1, <2>4, Recovered
<1> QED
  BY <1>2, <1>3 DEF AgentUnavailable, ResumeStage
----------------------------------------------------------------------------
(* The steps of everybody else.                                             *)
LEMMA StatusSet ==
  ASSUME Inv, NEW s \in Statuses \ {"DONE", "FAILED_FINAL"}, run.status # "DONE",
         run' = WithStatus(run, s), UNCHANGED <<logged, worker>>,
         OperationTyped', OperatorInv', Writing => s \in Live
  PROVE  Inv'
<1> DEFINE r == WithStatus(run, s)
<1>1. r \in Run /\ Sound(r) /\ SameProgress(r, run) /\ r.cycle = run.cycle
      /\ r.status = s /\ r.retry = run.retry
  BY StatusChanges, SoundStatus DEF Inv, TypeOK, RunInv
<1>2. run' = r
  OBVIOUS
<1> HIDE DEF r
<1> QED
  BY <1>1, <1>2, RunSaved

LEMMA Owning == ASSUME Inv, Pause \/ Resume PROVE Inv'
<1>1. OperationTyped' /\ OperatorInv' /\ UNCHANGED <<logged, worker>>
  BY DEF Pause, Resume, Save, Inv, TypeOK, OperationTyped, OperatorInv
<1>2. run.status # "DONE"
  BY DEF Pause, Resume, Resumable
<1>3. run' = WithStatus(run, "PAUSED") \/ run' = WithStatus(run, "READY")
  BY DEF Pause, Resume, Save
<1> QED
  BY <1>1, <1>2, <1>3, StatusSet DEF Statuses, Live

LEMMA Retrying == ASSUME Inv, RequestRetry PROVE Inv'
<1> DEFINE r == Retried(run)
<1>1. run.status = "FAILED_FINAL" /\ run' = r /\ UNCHANGED <<logged, worker>>
      /\ OperationTyped' /\ OperatorInv'
  BY DEF RequestRetry, Save, Inv, TypeOK, OperationTyped, OperatorInv
<1>2. r \in Run /\ Sound(r) /\ SameProgress(r, run)
  BY <1>1, RetryReopens DEF Inv, TypeOK, RunInv
<1>3. ~Writing
  BY <1>1, Executable DEF Live
<1> HIDE DEF r
<1> QED
  BY <1>1, <1>2, <1>3, RunSaved

LEMMA Refreshing == ASSUME Inv, RefreshPreflight PROVE Inv'
<1> DEFINE r == PreflightBlocked(run)
<1>1. /\ pc = "idle" /\ run.stage = 2 /\ run' = r /\ snapshot' = "outdated"
      /\ UNCHANGED <<operator, approvals, logged, pc, copy, stage, result, steps, report>>
  BY StageOrder DEF RefreshPreflight, Save, worker
<1>2. run \in Run /\ Sound(run) /\ r \in Run /\ Sound(r) /\ r.completed = {}
  BY PreflightBlocks DEF Inv, TypeOK, RunInv
<1> HIDE DEF r
<1>3. run.completed \subseteq {1}
  <2>1. 1 .. (2 - 1) = {1}
    OBVIOUS
  <2> QED
    BY <1>1, <1>2, <2>1 DEF Sound, Accounted
<1>4. logged = 0 /\ report = 0
  BY <1>3, StageOrder DEF Inv, RunInv, WorkerInv
<1>5. TypeOK'
  BY <1>1, <1>2 DEF Inv, TypeOK
<1>6. WorkerInv'
  BY <1>1, <1>2, <1>4 DEF WorkerInv, Supervised, Writing
<1>7. Sound(run)' /\ Sound(copy)' /\ OperatorInv'
  BY <1>1, <1>2 DEF Inv, RunInv, Sound, Accounted, Evidenced, OperatorInv
<1> QED
  BY <1>5, <1>6, <1>7 DEF Inv, RunInv

(* A step that leaves the record and the worker alone.                      *)
LEMMA Untouched ==
  ASSUME Inv, run' = run, UNCHANGED <<logged, worker>>, OperationTyped', OperatorInv'
  PROVE  Inv'
<1>1. TypeOK'
  BY DEF Inv, TypeOK, OperationTyped, worker
<1>2. WorkerInv'
  BY DEF Inv, RunInv, WorkerInv, Supervised, Writing, SameProgress, worker
<1>3. Sound(run)' /\ Sound(copy)'
  BY DEF Inv, RunInv, Sound, Accounted, Evidenced, worker
<1> QED
  BY <1>1, <1>2, <1>3 DEF Inv, RunInv

LEMMA Operating ==
  ASSUME Inv, Inspect \/ ConsumeApproval \/ Reconcile \/ RejectApproval
  PROVE  Inv'
<1>1. /\ UNCHANGED <<logged, worker>> /\ OperationTyped'
  BY DEF Inspect, ConsumeApproval, Reconcile, RejectApproval, Inv, TypeOK, OperationTyped
<1>2. CASE run' = run /\ OperatorInv'
  BY <1>1, <1>2, Untouched
<1>3. CASE Reconcile /\ snapshot = "current"
  <2>1. run.status = "RUNNING" /\ run' = WithStatus(run, "PAUSED") /\ OperatorInv'
    BY <1>3 DEF Reconcile, Inv, RunInv, OperatorInv
  <2> QED
    BY <1>1, <2>1, StatusSet DEF Statuses, Live
<1>4. CASE Inspect \/ ConsumeApproval \/ RejectApproval
  <2>1. run' = run /\ OperatorInv'
    BY <1>4 DEF Inspect, ConsumeApproval, RejectApproval, Inv, RunInv, OperatorInv
  <2> QED
    BY <1>2, <2>1
<1>5. CASE Reconcile /\ snapshot # "current"
  <2>1. run' = run /\ OperatorInv'
    BY <1>5 DEF Reconcile, OperatorInv
  <2> QED
    BY <1>2, <2>1
<1> QED
  BY <1>3, <1>4, <1>5

LEMMA RunInvInductive ==
  /\ Init => Inv
  /\ Inv /\ [Next]_vars => Inv'
<1>1. ASSUME Init PROVE Inv
  <2>1. /\ run \in Run /\ Sound(run) /\ copy \in Run /\ Sound(copy)
        /\ logged = 0 /\ report = 0 /\ pc = "idle" /\ snapshot = "outdated"
    BY <1>1, InitialRuns, HarnessAssumption DEF Init
  <2>2. TypeOK
    BY <1>1, <2>1, ResultTypes, StageOrder, HarnessAssumption
    DEF Init, TypeOK, WorkerSteps, NoStage
  <2>3. WorkerInv
    BY <2>1 DEF WorkerInv, Supervised, Writing
  <2> QED
    BY <2>1, <2>2, <2>3 DEF Inv, RunInv, OperatorInv
<1>2. ASSUME Inv, Next PROVE Inv'
  <2>1. CASE Supervision
    BY <1>2, <2>1, Starting, Skipping, Executing, Reloading, Completing, Aborting, Stopping,
       Exhausting, Tracing DEF Supervision
  <2>2. CASE Others
    BY <1>2, <2>2, Refreshing, Owning, Retrying, Operating DEF Others
  <2> QED
    BY <1>2, <2>1, <2>2, Supervising, Recovering, Concluding, Aborting DEF Next, Recovery
<1>3. ASSUME Inv, UNCHANGED vars PROVE Inv'
  <2>1. run' = run /\ UNCHANGED <<logged, worker>> /\ OperationTyped' /\ OperatorInv'
    BY <1>3 DEF vars, worker, operation, Inv, TypeOK, RunInv, OperationTyped, OperatorInv
  <2> QED
    BY <1>3, <2>1, Untouched
<1> QED
  BY <1>1, <1>2, <1>3

LEMMA RunInvariant == Spec => []Inv
  BY RunInvInductive, PTL DEF Spec
----------------------------------------------------------------------------
(* The record, the supervisor's copy and the operation have their types.    *)
THEOREM RunTyped == Spec => []TypeOK
<1>1. Inv => TypeOK
  BY DEF Inv
<1> QED
  BY <1>1, RunInvariant, PTL

(* No stage is passed over: whoever writes last, the stages before the      *)
(* current one are the completed and the skippable ones.                    *)
THEOREM NoStageLost == Spec => []StagesAccounted
<1>1. Inv => StagesAccounted
  BY DEF Inv, RunInv, Sound, Accounted, StagesAccounted
<1> QED
  BY <1>1, RunInvariant, PTL

(* A run is DONE only with all the evidence its mode requires.              *)
THEOREM NoEvidenceMissing == Spec => []EvidenceComplete
<1>1. Inv => EvidenceComplete
  BY DEF Inv, RunInv, Sound, Evidenced, EvidenceComplete
<1> QED
  BY <1>1, RunInvariant, PTL

(* A run that failed for good can always be retried.                        *)
THEOREM FailureRetriable == Spec => []RetryPossible
<1>1. Inv => RetryPossible
  BY DEF Inv, RunInv, Sound, RetryPossible
<1> QED
  BY <1>1, RunInvariant, PTL

(* The event log claims no completion the record does not have.             *)
THEOREM EventsTrue == Spec => []EventsBacked
<1>1. Inv => EventsBacked
  BY DEF Inv, RunInv, WorkerInv, EventsBacked
<1> QED
  BY <1>1, RunInvariant, PTL

(* A run whose policy is unresolved stays in PREFLIGHT.                     *)
THEOREM PolicyFirst == Spec => []PolicyResolved
<1>1. Inv => PolicyResolved
  BY DEF Inv, RunInv, Sound, PolicyResolved
<1> QED
  BY <1>1, RunInvariant, PTL
----------------------------------------------------------------------------
(* The steps of the life cycle, by what they do to the record.              *)
LifecycleStep == [Lifecycle!Next]_<<run.stage, Outcome, run.cycle>>

Open == {"READY", "RUNNING", "WAITING_EXTERNAL", "WAITING_AGENT", "RECOVERING",
         "BLOCKED_USER", "FAILED_RETRYABLE", "PAUSED"}

LEMMA RecordKept == ASSUME run' = run PROVE LifecycleStep
  BY DEF LifecycleStep, Outcome

LEMMA StatusMoves ==
  ASSUME run.status \in Open, run'.status \in Open \cup {"FAILED_FINAL"},
         run'.stage = run.stage, run'.cycle = run.cycle
  PROVE  LifecycleStep
<1>1. CASE run'.status \in Open
  BY <1>1 DEF LifecycleStep, Outcome, Open
<1>2. CASE run'.status = "FAILED_FINAL"
  <2>1. Lifecycle!Fail
    BY <1>2 DEF Lifecycle!Fail, Outcome, Open
  <2> QED
    BY <2>1 DEF LifecycleStep, Lifecycle!Next
<1> QED
  BY <1>1, <1>2

LEMMA StageMoves ==
  ASSUME run.status \in Open, run.stage \in 1 .. 13, run'.stage = run.stage + 1,
         run'.status = StatusAt(run.stage + 1), run'.cycle = run.cycle
  PROVE  LifecycleStep
<1>1. Lifecycle!Advance
  BY StageOrder DEF Lifecycle!Advance, Outcome, StatusAt, Open
<1> QED
  BY <1>1 DEF LifecycleStep, Lifecycle!Next

LEMMA OpenStatuses ==
  /\ Live \subseteq Open /\ Open = Statuses \ {"DONE", "FAILED_FINAL"}
  /\ \A r \in Results : r.status # "completed" => r.status \in Open \cup {"FAILED_FINAL"}
BY DEF Live, Open, Statuses, Results, Completions, Stops

(* A worker's write of its copy.                                            *)
LEMMA CopyStatusMoves ==
  ASSUME Inv, Writing, NEW s \in Open \cup {"FAILED_FINAL"}, run' = WithStatus(copy, s)
  PROVE  LifecycleStep
<1>1. copy \in Run /\ run.stage = copy.stage /\ run.cycle = copy.cycle /\ run.status \in Open
  BY Executable, OpenStatuses
<1>2. run'.stage = copy.stage /\ run'.cycle = copy.cycle /\ run'.status = s
  BY <1>1, StatusChanges, OpenStatuses DEF Statuses, SameProgress
<1> QED
  BY <1>1, <1>2, StatusMoves

LEMMA CopyStageMoves ==
  ASSUME Inv, Writing,
         \/ run' = WithStageSkipped(copy)
         \/ \E evidence \in SUBSET (Gated \cup {Build}) : run' = WithStageCompleted(copy, evidence)
  PROVE  LifecycleStep
<1>1. copy \in Run /\ run.stage = copy.stage /\ run.cycle = copy.cycle /\ run.status \in Open
      /\ copy.stage \in 1 .. 13
  BY Executable, OpenStatuses, StageOrder DEF Run
<1>2. run'.stage = copy.stage + 1 /\ run'.status = StatusAt(copy.stage + 1)
      /\ run'.cycle = copy.cycle
  BY <1>1, StageSkipped, StageCompletes, StageOrder
<1> QED
  BY <1>1, <1>2, StageMoves

LEMMA SupervisionMoves == ASSUME Inv, Supervision PROVE LifecycleStep
<1>1. CASE Start \/ BudgetExhausted \/ ApplyStop
  <2>1. Writing
    BY <1>1 DEF Start, BudgetExhausted, ApplyStop, Writing
  <2>2. PICK s \in Open \cup {"FAILED_FINAL"} : run' = WithStatus(copy, s)
    BY <1>1, OpenStatuses
    DEF Start, BudgetExhausted, ApplyStop, SaveCopy, Save, Open, Inv, TypeOK
  <2> QED
    BY <2>1, <2>2, CopyStatusMoves
<1>2. CASE Skip
  BY <1>2, CopyStageMoves DEF Skip, Writing, SaveCopy, Save
<1>3. CASE ApplyCompletion
  <2> DEFINE evidence == copy.evidence \cup Produced
  <2>1. Writing /\ copy \in Run
    BY <1>3 DEF ApplyCompletion, Writing, Inv, TypeOK
  <2>2. evidence \in SUBSET (Gated \cup {Build})
    BY <2>1 DEF Produced, Run
  <2>3. CASE run' = WithStageCompleted(copy, evidence)
    BY <2>1, <2>2, <2>3, CopyStageMoves
  <2>4. CASE run' = [WithStatus(copy, "FAILED_FINAL") EXCEPT !.evidence = evidence]
    <3> DEFINE q == WithStatus(copy, "FAILED_FINAL")
    <3>1. q \in Run /\ q.stage = copy.stage /\ q.cycle = copy.cycle
          /\ q.status = "FAILED_FINAL"
      BY <2>1, StatusChanges DEF Statuses, SameProgress
    <3> HIDE DEF q, evidence
    <3>2. run'.stage = q.stage /\ run'.cycle = q.cycle /\ run'.status = q.status
      BY <2>4, <3>1 DEF Run, q
    <3> QED
      BY <2>1, <3>1, <3>2, Executable, OpenStatuses, StatusMoves
  <2> QED
    BY <1>3, <2>3, <2>4 DEF ApplyCompletion, SaveCopy, Save
<1>4. CASE Execute \/ Reload \/ RejectEvidence \/ Trace
  BY <1>4, RecordKept DEF Execute, Reload, RejectEvidence, Trace
<1> QED
  BY <1>1, <1>2, <1>3, <1>4 DEF Supervision

LEMMA RecoveryMoves == ASSUME Inv, BeginRecovery \/ Recovery PROVE LifecycleStep
<1>1. CASE BeginRecovery
  <2>1. run.status \in Open /\ run \in Run /\ run' = WithStatus(run, "RECOVERING")
    BY <1>1 DEF BeginRecovery, NeedsRecovery, Save, Open, Inv, TypeOK
  <2>2. run'.stage = run.stage /\ run'.cycle = run.cycle /\ run'.status \in Open
    BY <2>1, StatusChanges DEF Statuses, Open, SameProgress
  <2> QED
    BY <2>1, <2>2, StatusMoves
<1>2. CASE Recovery /\ run # copy
  BY <1>2, RecordKept
  DEF Recovery, AgentUnavailable, ResumeStage, ReconcileStage, PersistRecovery
<1>3. CASE Recovery /\ run = copy
  <2>1. run \in Run /\ run.status \in Open
    BY <1>3 DEF Recovery, AgentUnavailable, ResumeStage, ReconcileStage, PersistRecovery,
                Inv, TypeOK, RunInv, WorkerInv, Open
  <2>2. CASE AgentUnavailable \/ ResumeStage
    <3>1. PICK s \in {"WAITING_AGENT", "RUNNING"} : run' = WithStatus(run, s)
      BY <1>3, <2>2 DEF AgentUnavailable, ResumeStage, PersistRecovery, Save
    <3>2. run'.stage = run.stage /\ run'.cycle = run.cycle /\ run'.status \in Open
      BY <2>1, <3>1, StatusChanges DEF Statuses, Open, SameProgress
    <3> QED
      BY <2>1, <3>2, StatusMoves
  <2>3. CASE ReconcileStage
    <3> DEFINE evidence == run.evidence \cup {run.stage}
    <3>1. run.stage \in {8, 9, 12} /\ run' = WithStageCompleted(run, evidence)
      BY <1>3, <2>3 DEF ReconcileStage, PersistRecovery, Save, COMMIT, PR, DEPLOY
    <3>2. evidence \in SUBSET (Gated \cup {Build}) /\ run.stage # DONE
      BY <2>1, <3>1, StageOrder DEF Run
    <3> HIDE DEF evidence
    <3>3. run'.stage = run.stage + 1 /\ run'.status = StatusAt(run.stage + 1)
          /\ run'.cycle = run.cycle
      BY <2>1, <3>1, <3>2, StageCompletes
    <3> QED
      BY <2>1, <3>1, <3>3, StageMoves
  <2> QED
    BY <1>3, <2>2, <2>3 DEF Recovery
<1> QED
  BY <1>1, <1>2, <1>3

LEMMA OthersMove == ASSUME Inv, Others PROVE LifecycleStep
<1>1. run \in Run
  BY DEF Inv, TypeOK
<1>2. ASSUME NEW s \in {"READY", "PAUSED"}, run' = WithStatus(run, s), run.status \in Open
      PROVE  LifecycleStep
  <2>1. run'.stage = run.stage /\ run'.cycle = run.cycle /\ run'.status \in Open
    BY <1>1, <1>2, StatusChanges DEF Statuses, Open, SameProgress
  <2> QED
    BY <1>2, <2>1, StatusMoves
<1>3. CASE Pause \/ Resume
  BY <1>2, <1>3 DEF Pause, Resume, Resumable, Save, Open
<1>4. CASE Reconcile
  BY <1>2, <1>4, RecordKept DEF Reconcile, Inv, RunInv, OperatorInv, Open
<1>5. CASE RequestRetry
  <2>1. run.status = "FAILED_FINAL" /\ run'.stage = run.stage /\ run'.cycle = run.cycle + 1
        /\ run'.status = "READY"
    BY <1>1, <1>5, RetryReopens DEF RequestRetry, Save, Inv, RunInv, SameProgress
  <2>2. Lifecycle!Retry
    BY <2>1 DEF Lifecycle!Retry, Outcome
  <2> QED
    BY <2>2 DEF LifecycleStep, Lifecycle!Next
<1>6. CASE RefreshPreflight
  <2>1. run.status = "READY" /\ run.stage = 2 /\ run'.stage = 1 /\ run'.cycle = run.cycle
        /\ run'.status = "BLOCKED_USER"
    BY <1>1, <1>6, PreflightBlocks, StageOrder DEF RefreshPreflight, Save, Inv, RunInv
  <2>2. Lifecycle!Withdraw
    BY <2>1 DEF Lifecycle!Withdraw, Outcome
  <2> QED
    BY <2>2 DEF LifecycleStep, Lifecycle!Next
<1>7. CASE Inspect \/ ConsumeApproval \/ RejectApproval
  BY <1>7, RecordKept DEF Inspect, ConsumeApproval, RejectApproval
<1> QED
  BY <1>3, <1>4, <1>5, <1>6, <1>7 DEF Others

LEMMA LifecycleSimulated ==
  /\ Init => Lifecycle!Init
  /\ Inv /\ [Next]_vars => LifecycleStep
<1>1. ASSUME Init PROVE Lifecycle!Init
  BY <1>1, StageOrder DEF Init, InitialRun, Lifecycle!Init, Outcome
<1>2. ASSUME Inv, Next PROVE LifecycleStep
  <2>1. CASE Supervise \/ Abort \/ Crash
    BY <2>1, RecordKept DEF Supervise, Abort, Crash
  <2> QED
    BY <1>2, <2>1, SupervisionMoves, RecoveryMoves, OthersMove DEF Next
<1>3. ASSUME UNCHANGED vars PROVE LifecycleStep
  BY <1>3, RecordKept DEF vars
<1> QED
  BY <1>1, <1>2, <1>3

(* Stages in order and once each, a final end, and progress after a final   *)
(* failure only through a retry, whoever overwrites whose record.           *)
THEOREM RunImplementsLifecycle == Spec => ImplementsLifecycle
<1>1. Init => Lifecycle!Init
  BY LifecycleSimulated
<1>2. Inv /\ [Next]_vars => [Lifecycle!Next]_<<run.stage, Outcome, run.cycle>>
  BY LifecycleSimulated DEF LifecycleStep
<1> QED
  BY <1>1, <1>2, RunInvariant, PTL DEF Spec, ImplementsLifecycle, Lifecycle!Spec
=============================================================================
