---------------------------- MODULE ProjectQueue ----------------------------
(***************************************************************************)
(* The work requests of one project, the runs started for them and the     *)
(* runtime that supervises those runs.  The owner starts, schedules,       *)
(* cancels, pauses, resumes and retries requests                           *)
(* (project-model/user-project-service.ts); every reading of the project   *)
(* projects the state of the runs onto the requests                        *)
(* (project-model/work-request.ts); a run is handed to the runtime with    *)
(* enqueueProjectRun (runtime/iseol-runtime-services.ts).                  *)
(*                                                                         *)
(* A call holds the durable lock of its work request, a reading holds the  *)
(* lock of the workspace, a schedule that of the schedule; each read or    *)
(* write of one record is atomic and nothing between two of them is.  The  *)
(* supervisor of HarnessRun is abstracted to the statuses it writes.       *)
(***************************************************************************)
EXTENDS Naturals, FiniteSets

CONSTANTS
  N,              \* work requests of the project, in the order of creation
  Dependencies,   \* the earlier requests each request waits for
  MaxRuns,        \* bound: runs created in a behaviour
  Preflights,     \* what the preflight of a new run may find
  Operations,     \* the calls the owner makes, and visits of the project page
  MaxConcurrent,  \* the slots the owner asks the scheduler for (1..8)
  MaxRetries,     \* bound: retry cycles of a run
  MaxFaults       \* bound: calls or executors that throw, and crashes

Requests == 1 .. N
Runs == 1 .. MaxRuns
NoRun == 0

(* A dependency exists when the request that names it is created.          *)
ASSUME QueueAssumption ==
  /\ N \in Nat \ {0} /\ MaxRuns \in Nat \ {0}
  /\ Dependencies \in [Requests -> SUBSET Requests]
  /\ \A r \in Requests : \A d \in Dependencies[r] : d < r
  /\ Preflights \subseteq {"ready", "blocked"}
  /\ Operations \subseteq {"start", "cancel", "pause", "resume", "retry", "schedule", "visit"}
  /\ MaxConcurrent \in 1 .. 8
  /\ MaxRetries \in Nat /\ MaxFaults \in Nat

VARIABLES
  request,     \* the work request records
  run,         \* the run records
  supervisor,  \* progress of the supervision the runtime tracks for a run
  runtime,     \* whether this process has a project runtime
  handler,     \* the call that holds the lock of a work request
  view,        \* the reading that holds the lock of the workspace
  scheduler,   \* the call that holds the lock of the schedule
  pending,     \* scheduled starts that wait for the lock of their request
  faults       \* faults so far

vars == <<request, run, supervisor, runtime, handler, view, scheduler, pending, faults>>

RequestStatuses == {"queued", "running", "waiting", "completed", "failed", "cancelled"}
WorkRequest == [status : RequestStatuses, run : Runs \cup {NoRun}]

(* WAITING stands for WAITING_EXTERNAL, WAITING_AGENT and BLOCKED_USER.     *)
RunStatuses == {"absent", "READY", "RUNNING", "WAITING", "PAUSED",
                "FAILED_RETRYABLE", "FAILED_FINAL", "DONE"}
Retries == {"none", "active", "completed"}
RunRecord == [status : RunStatuses, retry : Retries, cycle : Nat,
              preflight : {"ready", "blocked"}, for : Requests]

Runnable == {"READY", "RUNNING", "FAILED_RETRYABLE"}
Startable == {"READY", "FAILED_RETRYABLE"}
EndedRun == {"DONE", "FAILED_FINAL"}
EndedRequest == {"completed", "failed", "cancelled"}

SupervisorSteps == {"none", "called", "starting", "working", "applying", "exhausted", "leaving"}
Outcomes == {"accepted", "already-active", "not-configured"}
HandlerSteps == {"idle", "view", "decide", "change", "enqueue", "load", "owner",
                 "dispatch", "rollback", "record"}

(* The schedule a selected request belongs to: one that is still there, or  *)
(* one that a start which threw has ended.                                  *)
Schedules == {"current", "past"}

(* Whoever reads the project: a call, the scheduler or a visitor.          *)
Nobody == 0
Visitor == N + 1
Scheduler == N + 2

Queued == [status |-> "queued", run |-> NoRun]
NoSaved == [status |-> "absent", retry |-> "none"]
Idle == [op |-> "start", at |-> "idle", mine |-> Queued, missing |-> {}, run |-> NoRun,
         saved |-> NoSaved, outcome |-> "accepted", caller |-> "owner"]
NoView == [by |-> Nobody, at |-> "request", next |-> 1,
           seen |-> [r \in Requests |-> Queued], found |-> "absent"]

HandlerRecord ==
  [op : {"start", "cancel", "pause", "resume", "retry"}, at : HandlerSteps, mine : WorkRequest,
   missing : SUBSET Requests, run : Runs \cup {NoRun},
   saved : [status : RunStatuses, retry : Retries],
   outcome : Outcomes, caller : {"owner", "schedule"}]

ViewRecord ==
  [by : 0 .. N + 2, at : {"request", "run", "write"}, next : 1 .. N + 1,
   seen : [Requests -> WorkRequest], found : RunStatuses]

TypeOK ==
  /\ request \in [Requests -> WorkRequest]
  /\ run \in [Runs -> RunRecord]
  /\ supervisor \in [Runs -> SupervisorSteps]
  /\ runtime \in {"available", "unavailable"}
  /\ handler \in [Requests -> HandlerRecord]
  /\ view \in ViewRecord
  /\ scheduler \in {"idle", "view", "starting", "rejected"}
  /\ pending \subseteq Requests \X Schedules
  /\ faults \in 0 .. MaxFaults

Init ==
  /\ request = [r \in Requests |-> Queued]
  /\ run = [n \in Runs |-> [status |-> "absent", retry |-> "none", cycle |-> 0,
                            preflight |-> "ready", for |-> 1]]
  /\ supervisor = [n \in Runs |-> "none"]
  /\ runtime \in {"available", "unavailable"}
  /\ handler = [r \in Requests |-> Idle]
  /\ view = NoView
  /\ scheduler = "idle"
  /\ pending = {}
  /\ faults = 0
----------------------------------------------------------------------------
(* getProject: every request is read, then its run, then the request is     *)
(* written when the run says something else.                                *)

(* Faults: a run that failed counts as completed; the status is kept raw.   *)
StatusForRunEnded(status) ==
  CASE status \in EndedRun -> "completed"
    [] status \in {"WAITING", "PAUSED"} -> "waiting"
    [] OTHER -> "running"

(* workStatusForRun *)
StatusForRun(status) ==
  CASE status = "DONE" -> "completed"
    [] status = "FAILED_FINAL" -> "failed"
    [] status \in {"WAITING", "PAUSED"} -> "waiting"
    [] OTHER -> "running"

(* Whether a reading replaces the status of a request: never an ended one,  *)
(* but a failed one whose run was retried and completed.                    *)
Projects(status, next) ==
  /\ status # next
  /\ status \in EndedRequest => status = "failed" /\ next = "completed"

BeginReading(who) ==
  /\ view.by = Nobody
  /\ view' = [NoView EXCEPT !.by = who, !.seen = request]

ReadRequest ==
  LET i == view.next IN
  /\ view.by # Nobody /\ view.at = "request" /\ i <= N
  /\ view' = [view EXCEPT !.seen[i] = request[i],
                          !.at = IF request[i].run = NoRun THEN @ ELSE "run",
                          !.next = IF request[i].run = NoRun THEN @ + 1 ELSE @]
  /\ UNCHANGED <<request, run, supervisor, runtime, handler, scheduler, pending, faults>>

ReadRun ==
  LET i == view.next
      found == run[view.seen[i].run].status
      stale == Projects(view.seen[i].status, StatusForRun(found))
  IN
  /\ view.at = "run"
  /\ view' = [view EXCEPT !.at = IF stale THEN "write" ELSE "request",
                          !.found = IF stale THEN found ELSE @,
                          !.next = IF stale THEN @ ELSE @ + 1]
  /\ UNCHANGED <<request, run, supervisor, runtime, handler, scheduler, pending, faults>>

Project ==
  LET i == view.next
      projected == [status |-> StatusForRun(view.found), run |-> view.seen[i].run]
  IN
  /\ view.at = "write"
  /\ request' = [request EXCEPT ![i] = projected]
  /\ view' = [view EXCEPT !.at = "request", !.next = i + 1,
                          !.seen[i] = projected, !.found = "absent"]
  /\ UNCHANGED <<run, supervisor, runtime, handler, scheduler, pending, faults>>

EndReading ==
  /\ view.by # Nobody /\ view.next = N + 1
  /\ view' = NoView

(* Fault: a cancelled or failed dependency counts. *)
Unended(r, seen) == {d \in Dependencies[r] : seen[d].status \notin EndedRequest}

Incomplete(r, seen) == {d \in Dependencies[r] : seen[d].status # "completed"}

(* A visitor opens the project page.                                        *)
Visit ==
  /\ "visit" \in Operations
  /\ BeginReading(Visitor)
  /\ UNCHANGED <<request, run, supervisor, runtime, handler, scheduler, pending, faults>>

VisitEnds ==
  /\ view.by = Visitor
  /\ EndReading
  /\ UNCHANGED <<request, run, supervisor, runtime, handler, scheduler, pending, faults>>
----------------------------------------------------------------------------
(* A call takes the lock of its work request and reads the project.         *)
Go(r, step) == handler' = [handler EXCEPT ![r].at = step]

(* Bound: no call retries a run more than MaxRetries times.                 *)
Retriable(r) == \A n \in Runs : run[n].for = r => run[n].cycle < MaxRetries

Call(r, op) ==
  /\ op \in Operations \ {"schedule", "visit"}
  /\ op = "retry" => Retriable(r)
  /\ handler[r].at = "idle"
  /\ handler' = [handler EXCEPT ![r] = [Idle EXCEPT !.op = op, !.at = "view"]]
  /\ UNCHANGED <<request, run, supervisor, runtime, view, scheduler, pending, faults>>

CallReads(r) ==
  /\ handler[r].at = "view"
  /\ BeginReading(r)
  /\ UNCHANGED <<request, run, supervisor, runtime, handler, scheduler, pending, faults>>

CallHasRead(r) ==
  /\ view.by = r
  /\ EndReading
  /\ handler' = [handler EXCEPT ![r].at = "decide", ![r].mine = view.seen[r],
                                ![r].missing = Incomplete(r, view.seen)]
  /\ UNCHANGED <<request, run, supervisor, runtime, scheduler, pending, faults>>

(* The call returns a result, or throws; both release its lock.             *)
Return(r) ==
  /\ handler' = [handler EXCEPT ![r] = Idle]
  /\ UNCHANGED scheduler

Reject(r) ==
  /\ handler' = [handler EXCEPT ![r] = Idle]
  /\ scheduler' = IF handler[r].caller = "schedule" THEN "rejected" ELSE scheduler

(* The lock of the workspace stays taken for longer than the call waits.    *)
CallGivesUp(r) ==
  /\ handler[r].at = "view" /\ view.by \notin {r, Nobody}
  /\ Reject(r)
  /\ UNCHANGED <<request, run, supervisor, runtime, view, pending, faults>>

Deciding(r, op) == handler[r].at = "decide" /\ handler[r].op = op
Mine(r) == handler[r].mine
Linked(r) == Mine(r).run # NoRun

Wait(r) == request' = [request EXCEPT ![r].status = "waiting"]
----------------------------------------------------------------------------
(* Faults: the status is not checked; the link is not checked. *)
MayStartCancelled(r) == Mine(r).status \in {"queued", "waiting", "cancelled"} /\ ~Linked(r)
MayStartLinked(r) == Mine(r).status \in {"queued", "waiting"}

(* startProjectRun *)
MayStart(r) ==
  \/ Mine(r).status = "queued"
  \/ Mine(r).status = "waiting" /\ ~Linked(r)

StartRefused(r) ==
  /\ Deciding(r, "start") /\ ~MayStart(r)
  /\ IF Linked(r) /\ Mine(r).status \in {"running", "waiting"} THEN Return(r) ELSE Reject(r)
  /\ UNCHANGED <<request, run, supervisor, runtime, view, pending, faults>>

(* The dependencies are not completed, or this process has no runtime.      *)
StartWaits(r) ==
  /\ Deciding(r, "start") /\ MayStart(r)
  /\ handler[r].missing # {} \/ runtime = "unavailable"
  /\ Wait(r)
  /\ Return(r)
  /\ UNCHANGED <<run, supervisor, runtime, view, pending, faults>>

(* startProjectWorkspaceRun creates the run.                                *)
Create(r, n, preflight) ==
  /\ Deciding(r, "start") /\ MayStart(r)
  /\ handler[r].missing = {} /\ runtime = "available"
  /\ run[n].status = "absent" /\ \A m \in 1 .. n - 1 : run[m].status # "absent"
  /\ run' = [run EXCEPT ![n] = [status |-> IF preflight = "ready" THEN "READY" ELSE "WAITING",
                                retry |-> "none", cycle |-> 0,
                                preflight |-> preflight, for |-> r]]
  /\ handler' = [handler EXCEPT ![r].at = "enqueue", ![r].run = n,
                                ![r].mine = Queued]
  /\ UNCHANGED <<request, supervisor, runtime, view, scheduler, pending, faults>>

(* cancelWorkRequest *)
Cancel(r) ==
  /\ Deciding(r, "cancel")
  /\ \/ Mine(r).status = "queued"
        /\ request' = [request EXCEPT ![r].status = "cancelled"] /\ Return(r)
     \/ Mine(r).status # "queued" /\ Reject(r) /\ UNCHANGED request
  /\ UNCHANGED <<run, supervisor, runtime, view, pending, faults>>

(* pauseProjectRun, resumeProjectRun and retryProjectRun check the request, *)
(* then read its run and remember what a rollback would restore.            *)
MayChange(r) ==
  /\ Linked(r)
  /\ CASE handler[r].op = "pause" -> run[Mine(r).run].status \in {"RUNNING", "READY"}
       [] handler[r].op = "resume" -> Mine(r).status = "waiting" /\ runtime = "available"
       [] handler[r].op = "retry" -> Mine(r).status = "failed" /\ runtime = "available"

Prepare(r) ==
  LET n == Mine(r).run IN
  /\ handler[r].at = "decide" /\ handler[r].op \in {"pause", "resume", "retry"}
  /\ MayChange(r)
  /\ handler' = [handler EXCEPT ![r].at = "change", ![r].run = n, ![r].mine = Queued,
                                ![r].missing = {},
                                ![r].saved = IF handler[r].op = "resume"
                                             THEN [status |-> run[n].status, retry |-> run[n].retry]
                                             ELSE NoSaved]
  /\ UNCHANGED <<request, run, supervisor, runtime, view, scheduler, pending, faults>>

ChangeRefused(r) ==
  /\ handler[r].at = "decide" /\ handler[r].op \in {"pause", "resume", "retry"}
  /\ ~MayChange(r)
  /\ Reject(r)
  /\ UNCHANGED <<request, run, supervisor, runtime, view, pending, faults>>

Changing(r, op) == handler[r].at = "change" /\ handler[r].op = op

(* pauseHarnessRun, resumeHarnessRun and requestHarnessRunRetry each read,  *)
(* check and write the run under its mutation lock.                         *)
Pause(r) ==
  LET n == handler[r].run IN
  /\ Changing(r, "pause") /\ run[n].status \in {"RUNNING", "READY"}
  /\ run' = [run EXCEPT ![n].status = "PAUSED"]
  /\ Go(r, "record")
  /\ UNCHANGED <<request, supervisor, runtime, view, scheduler, pending, faults>>

Resume(r) ==
  LET n == handler[r].run IN
  /\ Changing(r, "resume") /\ run[n].status \in {"PAUSED", "WAITING"}
  /\ run' = [run EXCEPT ![n].status = "READY"]
  /\ Go(r, "enqueue")
  /\ UNCHANGED <<request, supervisor, runtime, view, scheduler, pending, faults>>

Retry(r) ==
  LET n == handler[r].run IN
  /\ Changing(r, "retry") /\ run[n].status = "FAILED_FINAL" /\ run[n].retry # "active"
  /\ run' = [run EXCEPT ![n].status = "READY", ![n].retry = "active", ![n].cycle = @ + 1]
  /\ handler' = [handler EXCEPT ![r].at = "enqueue",
                                ![r].saved = [status |-> "WAITING", retry |-> "completed"]]
  /\ UNCHANGED <<request, supervisor, runtime, view, scheduler, pending, faults>>

(* The run is no longer in a status the change allows, or, for a retry,     *)
(* another retry is active.                                                 *)
ChangeFails(r) ==
  LET n == handler[r].run IN
  /\ \/ Changing(r, "pause") /\ run[n].status \notin {"RUNNING", "READY"}
     \/ Changing(r, "resume") /\ run[n].status \notin {"PAUSED", "WAITING"}
     \/ Changing(r, "retry") /\ (run[n].status # "FAILED_FINAL" \/ run[n].retry = "active")
  /\ Reject(r)
  /\ UNCHANGED <<request, run, supervisor, runtime, view, pending, faults>>
----------------------------------------------------------------------------
(* enqueueProjectRun: four looks at the world, each later than the other.   *)
Answer(r, outcome) ==
  handler' = [handler EXCEPT ![r].outcome = outcome,
                             ![r].at = IF outcome = "not-configured" /\ handler[r].op # "start"
                                       THEN "rollback" ELSE "record"]

Enqueue(r) ==
  /\ handler[r].at = "enqueue"
  /\ IF supervisor[handler[r].run] # "none" THEN Answer(r, "already-active") ELSE Go(r, "load")
  /\ UNCHANGED <<request, run, supervisor, runtime, view, scheduler, pending, faults>>

Load(r) ==
  /\ handler[r].at = "load"
  /\ IF run[handler[r].run].status \in Runnable THEN Go(r, "owner") ELSE Answer(r, "not-configured")
  /\ UNCHANGED <<request, run, supervisor, runtime, view, scheduler, pending, faults>>

(* hasProjectRuntimeOwner *)
OtherRunning(n) == \E m \in Runs \ {n} : run[m].status = "RUNNING"

LookForOwner(r) ==
  /\ handler[r].at = "owner"
  /\ IF OtherRunning(handler[r].run) THEN Answer(r, "already-active") ELSE Go(r, "dispatch")
  /\ UNCHANGED <<request, run, supervisor, runtime, view, scheduler, pending, faults>>

Dispatch(r) ==
  /\ handler[r].at = "dispatch"
  /\ supervisor' = [supervisor EXCEPT ![handler[r].run] = "called"]
  /\ Answer(r, "accepted")
  /\ UNCHANGED <<request, run, runtime, view, scheduler, pending, faults>>

(* A resume writes back the record it loaded, a retry blocks its own copy;  *)
(* neither looks at what is on disk by now.                                 *)
RollBack(r) ==
  LET n == handler[r].run IN
  /\ handler[r].at = "rollback"
  /\ run' = [run EXCEPT ![n].status = handler[r].saved.status, ![n].retry = handler[r].saved.retry]
  /\ Go(r, "record")
  /\ UNCHANGED <<request, supervisor, runtime, view, scheduler, pending, faults>>

(* Fault: a run that is active already is not recorded. *)
RecordAccepted(r) ==
  LET waits == handler[r].op = "pause" \/ handler[r].outcome = "not-configured" IN
  /\ handler[r].at = "record"
  /\ request' = IF handler[r].outcome = "already-active" THEN request
                ELSE [request EXCEPT ![r] = [status |-> IF waits THEN "waiting" ELSE "running",
                                             run |-> handler[r].run]]
  /\ Return(r)
  /\ UNCHANGED <<run, supervisor, runtime, view, pending, faults>>

(* The request is linked to its run and the call returns.                   *)
Record(r) ==
  LET waits == handler[r].op = "pause" \/ handler[r].outcome = "not-configured" IN
  /\ handler[r].at = "record"
  /\ request' = [request EXCEPT ![r] = [status |-> IF waits THEN "waiting" ELSE "running",
                                        run |-> handler[r].run]]
  /\ Return(r)
  /\ UNCHANGED <<run, supervisor, runtime, view, pending, faults>>
----------------------------------------------------------------------------
(* scheduleProjectRuns *)
Schedule ==
  /\ "schedule" \in Operations
  /\ scheduler = "idle"
  /\ scheduler' = "view"
  /\ UNCHANGED <<request, run, supervisor, runtime, handler, view, pending, faults>>

ScheduleReads ==
  /\ scheduler = "view"
  /\ BeginReading(Scheduler)
  /\ UNCHANGED <<request, run, supervisor, runtime, handler, scheduler, pending, faults>>

ScheduleGivesUp ==
  /\ scheduler = "view" /\ view.by \notin {Nobody, Scheduler}
  /\ scheduler' = "idle"
  /\ UNCHANGED <<request, run, supervisor, runtime, handler, view, pending, faults>>

(* Fault: the running requests are not subtracted.                          *)
SelectedAnew(seen) ==
  LET ready == {r \in Requests : seen[r].status = "queued" /\ Incomplete(r, seen) = {}}
  IN {r \in ready : Cardinality({q \in ready : q < r}) < MaxConcurrent}

(* The oldest ready requests, as many as the running ones leave room for.   *)
Selected(seen) ==
  LET occupied == Cardinality({r \in Requests : seen[r].status = "running" /\ seen[r].run # NoRun})
      ready == {r \in Requests : seen[r].status = "queued" /\ Incomplete(r, seen) = {}}
  IN {r \in ready : Cardinality({q \in ready : q < r}) + occupied < MaxConcurrent}

ScheduleSelects ==
  /\ view.by = Scheduler
  /\ EndReading
  /\ pending' = pending \cup (Selected(view.seen) \X {"current"})
  /\ scheduler' = "starting"
  /\ UNCHANGED <<request, run, supervisor, runtime, handler, faults>>

Started(of) == [Idle EXCEPT !.at = "view", !.caller = IF of = "current" THEN "schedule" ELSE "owner"]

(* Fault: the scheduled start waits without a deadline. *)
ScheduledStartPatient(r) ==
  \E of \in Schedules :
    /\ <<r, of>> \in pending /\ handler[r].at = "idle"
    /\ pending' = pending \ {<<r, of>>}
    /\ handler' = [handler EXCEPT ![r] = Started(of)]
    /\ UNCHANGED <<request, run, supervisor, runtime, view, scheduler, faults>>

(* A selected request is started by a call of its own, which waits for the  *)
(* lock of the request.                                                     *)
ScheduledStart(r) ==
  \E of \in Schedules :
    /\ <<r, of>> \in pending
    /\ pending' = pending \ {<<r, of>>}
    /\ \/ /\ handler[r].at = "idle"
          /\ handler' = [handler EXCEPT ![r] = Started(of)]
          /\ UNCHANGED scheduler
       \/ /\ handler[r].at # "idle"
          /\ scheduler' = IF of = "current" THEN "rejected" ELSE scheduler
          /\ UNCHANGED handler
    /\ UNCHANGED <<request, run, supervisor, runtime, view, faults>>

(* Promise.all ends with the last start, or with the first that throws; the *)
(* starts it leaves behind go on for nobody.                                *)
ScheduleReturns ==
  /\ \/ scheduler = "rejected"
     \/ /\ scheduler = "starting"
        /\ \A r \in Requests : <<r, "current">> \notin pending /\ handler[r].caller = "owner"
  /\ scheduler' = "idle"
  /\ pending' = {r \in Requests : \E of \in Schedules : <<r, of>> \in pending} \X {"past"}
  /\ handler' = [r \in Requests |-> [handler[r] EXCEPT !.caller = "owner"]]
  /\ UNCHANGED <<request, run, supervisor, runtime, view, faults>>
----------------------------------------------------------------------------
(* superviseHarnessRun, reduced to what the project sees of it.             *)
Supervised(n, step) ==
  /\ supervisor' = [supervisor EXCEPT ![n] = step]
  /\ UNCHANGED <<request, runtime, handler, view, scheduler, pending, faults>>

Supervise(n) ==
  /\ supervisor[n] = "called"
  /\ Supervised(n, IF run[n].preflight = "blocked" \/ run[n].status \notin Runnable THEN "leaving"
                   ELSE IF run[n].status \in Startable THEN "starting" ELSE "working")
  /\ UNCHANGED run

(* The supervisor writes its copy, whatever is on disk by now.              *)
Write(n, status) ==
  run' = [run EXCEPT ![n].status = status,
                     ![n].retry = IF status = "FAILED_FINAL" /\ @ = "active" THEN "completed" ELSE @]

StartRun(n) ==
  /\ supervisor[n] = "starting"
  /\ Write(n, "RUNNING")
  /\ Supervised(n, "working")

(* The executor returned and the record is read again; its result is        *)
(* applied to the run that was RUNNING then.                                *)
Reload(n) ==
  /\ supervisor[n] = "working"
  /\ \/ run[n].status = "RUNNING" /\ Supervised(n, "applying")
     \/ run[n].status = "READY" /\ \E step \in {"starting", "exhausted"} : Supervised(n, step)
     \/ run[n].status \notin {"READY", "RUNNING"} /\ Supervised(n, "leaving")
  /\ UNCHANGED run

Advance(n) ==
  /\ supervisor[n] = "applying"
  /\ Write(n, "RUNNING")
  /\ Supervised(n, "working")

Conclude(n) ==
  /\ supervisor[n] = "applying"
  /\ \E status \in {"DONE", "WAITING", "FAILED_RETRYABLE", "FAILED_FINAL"} : Write(n, status)
  /\ Supervised(n, "leaving")

(* The step budget is exhausted.                                            *)
Exhaust(n) ==
  /\ supervisor[n] = "exhausted"
  /\ Write(n, "FAILED_RETRYABLE")
  /\ Supervised(n, "leaving")

(* The promise settles and the runtime forgets it.                          *)
Leave(n) ==
  /\ supervisor[n] = "leaving"
  /\ Supervised(n, "none")
  /\ UNCHANGED run
----------------------------------------------------------------------------
(* A store, a lock or an executor throws; what was written stays.           *)
CallThrows(r) ==
  /\ faults < MaxFaults /\ faults' = faults + 1
  /\ handler[r].at \notin {"idle", "view"}
  /\ Reject(r)
  /\ UNCHANGED <<request, run, supervisor, runtime, view, pending>>

(* The reading of a call, of the schedule or of a visitor throws.           *)
ReadingThrows ==
  /\ faults < MaxFaults /\ faults' = faults + 1
  /\ view.by # Nobody /\ view' = NoView
  /\ \/ view.by \in Requests /\ Reject(view.by)
     \/ view.by = Scheduler /\ scheduler' = "idle" /\ UNCHANGED handler
     \/ view.by = Visitor /\ UNCHANGED <<scheduler, handler>>
  /\ UNCHANGED <<request, run, supervisor, runtime, pending>>

SupervisorThrows(n) ==
  /\ faults < MaxFaults /\ faults' = faults + 1
  /\ supervisor[n] \notin {"none", "leaving"}
  /\ supervisor' = [supervisor EXCEPT ![n] = "leaving"]
  /\ UNCHANGED <<request, run, runtime, handler, view, scheduler, pending>>

(* The process ends and another starts; no run is enqueued at startup.      *)
Crash ==
  /\ faults < MaxFaults /\ faults' = faults + 1
  /\ supervisor' = [n \in Runs |-> "none"]
  /\ runtime' \in {"available", "unavailable"}
  /\ handler' = [r \in Requests |-> Idle]
  /\ view' = NoView
  /\ scheduler' = "idle"
  /\ pending' = {}
  /\ UNCHANGED <<request, run>>
----------------------------------------------------------------------------
ReadingStep == ReadRequest \/ ReadRun \/ Project \/ VisitEnds

CallStep(r) ==
  \/ CallReads(r) \/ CallHasRead(r) \/ CallGivesUp(r)
  \/ StartRefused(r) \/ StartWaits(r)
  \/ \E n \in Runs, preflight \in Preflights : Create(r, n, preflight)
  \/ Cancel(r) \/ Prepare(r) \/ ChangeRefused(r)
  \/ Pause(r) \/ Resume(r) \/ Retry(r) \/ ChangeFails(r)
  \/ Enqueue(r) \/ Load(r) \/ LookForOwner(r) \/ Dispatch(r) \/ RollBack(r) \/ Record(r)

ScheduleStep == ScheduleReads \/ ScheduleGivesUp \/ ScheduleSelects \/ ScheduleReturns

SupervisorStep(n) ==
  Supervise(n) \/ StartRun(n) \/ Reload(n) \/ Advance(n) \/ Conclude(n) \/ Exhaust(n) \/ Leave(n)

Next ==
  \/ Visit \/ ReadingStep \/ ReadingThrows
  \/ \E r \in Requests : CallStep(r) \/ ScheduledStart(r) \/ CallThrows(r)
                         \/ \E op \in Operations : Call(r, op)
  \/ Schedule \/ ScheduleStep
  \/ \E n \in Runs : SupervisorStep(n) \/ SupervisorThrows(n)
  \/ Crash

Spec == Init /\ [][Next]_vars

(* The machine keeps working; nobody is obliged to call, visit or fail.  A   *)
(* run has finitely many stages, so a supervision does not advance for ever. *)
FairSpec ==
  /\ Spec
  /\ WF_vars(ReadingStep)
  /\ \A r \in Requests : WF_vars(CallStep(r)) /\ WF_vars(ScheduledStart(r))
  /\ WF_vars(ScheduleStep)
  /\ \A n \in Runs : WF_vars(SupervisorStep(n)) /\ SF_vars(Conclude(n))
----------------------------------------------------------------------------
Created(n) == run[n].status # "absent"

(* A request the owner cancelled never gets a run, although the scheduler    *)
(* may have selected it before: the start reads it again under its lock.     *)
CancelledNeverRuns ==
  \A r \in Requests, n \in Runs : request[r].status = "cancelled" /\ Created(n) => run[n].for # r

(* A run is created only when every request it depends on is completed by   *)
(* a run that is done, and neither is taken back afterwards.                *)
DependenciesFirst ==
  \A n \in Runs : \A d \in Dependencies[run[n].for] :
    Created(n) => request[d].status = "completed" /\ run[request[d].run].status = "DONE"

(* Direct and scheduled starts of one request create one run between them.  *)
OneRunPerRequest ==
  \A m, n \in Runs :
    faults = 0 /\ Created(m) /\ Created(n) /\ run[m].for = run[n].for => m = n

(* Where scheduleProjectRuns alone starts requests, no more of them run than *)
(* it was given slots, although it counts the running ones in a reading that *)
(* is old when it starts others.  So with one slot, and with more as long as *)
(* no start is rejected, which releases the schedule before the others end.  *)
SlotsRespected ==
  Cardinality({r \in Requests : request[r].status = "running"}) <= MaxConcurrent

(* Without faults a request is completed only while its run is done, or     *)
(* done and put back to PAUSED by the rollback that DoneIsFinal is about.   *)
CompletedTruthful ==
  \A r \in Requests :
    faults = 0 /\ request[r].status = "completed"
      => run[request[r].run].status \in {"DONE", "PAUSED"}

(* Without faults, between calls, a failed request has a run that ended, or  *)
(* was put back to PAUSED like that: a failed request whose run is active    *)
(* could be neither retried nor resumed.                                    *)
FailedTruthful ==
  \A r \in Requests :
    faults = 0 /\ request[r].status = "failed" /\ handler[r].at = "idle"
      => run[request[r].run].status \in EndedRun \cup {"PAUSED"}

(* A request that is linked to a run stays linked to it.                    *)
LinkKept ==
  [][\A r \in Requests : request[r].run # NoRun => request'[r].run = request[r].run]_request

(* Every call returns, whoever holds the locks it needs.                    *)
EveryCallReturns ==
  /\ \A r \in Requests : handler[r].at # "idle" ~> handler[r].at = "idle"
  /\ scheduler # "idle" ~> scheduler = "idle"

(* The run store's terminal status: a run that is done stays done.          *)
DoneIsFinal ==
  [][\A n \in Runs : run[n].status = "DONE" => run'[n].status = "DONE"]_run
=============================================================================
