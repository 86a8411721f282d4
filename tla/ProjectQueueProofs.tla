------------------------- MODULE ProjectQueueProofs -------------------------
(***************************************************************************)
(* Proofs about ProjectQueue, for every project, every set of operations   *)
(* and every number of faults: the types, and that a work request is never *)
(* taken from the run it was linked to.  While nothing has failed: one run *)
(* for a request, a request is completed or failed only while its run is,  *)
(* and, in a behaviour without faults, a cancelled request has none.       *)
(* Where the owner only schedules and cancels: the dependencies of a run   *)
(* come first, and no more requests run than the scheduler has slots.      *)
(***************************************************************************)
EXTENDS ProjectQueue, FiniteSetTheorems, WellFoundedInduction, TLAPS

(* What a reading has seen of a link still holds when it writes: a link is  *)
(* only ever set by the call that has the lock of the request.             *)
SeenLinks ==
  \A r \in Requests : view.seen[r].run # NoRun => view.seen[r].run = request[r].run

ReadingInv ==
  /\ SeenLinks
  /\ view.at # "request" =>
       view.by # Nobody /\ view.next \in Requests /\ view.seen[view.next].run # NoRun
  /\ view.by \in Requests =>
       /\ handler[view.by].at = "view"
       /\ view.by < view.next => view.seen[view.by].run = request[view.by].run

(* A call that has decided knows the link of its request, and one that has  *)
(* chosen a run is the only one that can link the request.                  *)
Chosen == {"change", "enqueue", "load", "owner", "dispatch", "rollback", "record"}

CallInv ==
  \A r \in Requests :
    /\ handler[r].at = "decide" => handler[r].mine.run = request[r].run
    /\ handler[r].at \in Chosen =>
         handler[r].run # NoRun /\ request[r].run \in {NoRun, handler[r].run}

LinkInv == ReadingInv /\ CallInv

(* A queued request has no run, in the record and in what has been read of  *)
(* it: a start of a queued request does not look at the link.              *)
Free(w) == w.status = "queued" => w.run = NoRun

QueuedFree ==
  \A r \in Requests : Free(request[r]) /\ Free(view.seen[r]) /\ Free(handler[r].mine)

Inv == TypeOK /\ LinkInv
----------------------------------------------------------------------------
LEMMA Constants ==
  /\ NoRun \notin Runs
  /\ N \in Nat \ {0}
  /\ Nobody \notin Requests /\ Visitor \notin Requests /\ Scheduler \notin Requests
  /\ \A r \in Requests : r \in 1 .. N + 1 /\ r + 1 \in 1 .. N + 1 /\ r # N + 1
BY QueueAssumption DEF Runs, NoRun, Nobody, Visitor, Scheduler, Requests

LEMMA Defaults ==
  /\ Queued \in WorkRequest
  /\ Idle \in HandlerRecord
  /\ NoView \in ViewRecord
<1>1. "queued" \in RequestStatuses /\ NoRun \in Runs \cup {NoRun}
  BY DEF RequestStatuses
<1>2. Queued \in WorkRequest
  BY <1>1 DEF Queued, WorkRequest
<1>3. "idle" \in HandlerSteps /\ "accepted" \in Outcomes
  BY DEF HandlerSteps, Outcomes
<1>4. NoSaved \in [status : RunStatuses, retry : Retries]
  BY DEF NoSaved, RunStatuses, Retries
<1>5. Idle \in HandlerRecord
  BY <1>1, <1>2, <1>3, <1>4 DEF Idle, HandlerRecord
<1>6. [r \in Requests |-> Queued] \in [Requests -> WorkRequest]
  BY <1>2
<1>7. Nobody \in 0 .. N + 2 /\ 1 \in 1 .. N + 1 /\ "absent" \in RunStatuses
  BY Constants DEF Nobody, RunStatuses
<1>8. NoView \in ViewRecord
  BY <1>6, <1>7 DEF NoView, ViewRecord
<1> QED BY <1>2, <1>5, <1>8

(* The record of one call is replaced, the others keep theirs.              *)
Others(r) == \A q \in Requests \ {r} : handler'[q] = handler[q]

LEMMA HandlerSet ==
  ASSUME TypeOK, NEW r \in Requests, NEW h \in HandlerRecord,
         handler' = [handler EXCEPT ![r] = h]
  PROVE  handler' \in [Requests -> HandlerRecord] /\ handler'[r] = h /\ Others(r)
BY DEF TypeOK, Others

LEMMA HandlerGoes ==
  ASSUME TypeOK, NEW r \in Requests, NEW step \in HandlerSteps, Go(r, step)
  PROVE  /\ handler' \in [Requests -> HandlerRecord] /\ Others(r)
         /\ handler'[r].at = step /\ handler'[r].run = handler[r].run
         /\ handler'[r].mine = handler[r].mine
<1> DEFINE h == [handler[r] EXCEPT !.at = step]
<1>1. handler[r] \in HandlerRecord
  BY DEF TypeOK
<1>2. h \in HandlerRecord
  BY <1>1 DEF HandlerRecord
<1>3. h.at = step /\ h.run = handler[r].run /\ h.mine = handler[r].mine
  BY <1>1 DEF HandlerRecord
<1>4. handler' = [handler EXCEPT ![r] = h]
  BY DEF Go
<1> HIDE DEF h
<1> QED BY <1>2, <1>3, <1>4, HandlerSet

(* A call that moves on without touching a link keeps the invariant.        *)
LEMMA CallMoves ==
  ASSUME Inv, NEW r \in Requests, view' = view, Others(r),
         \A q \in Requests : request'[q].run = request[q].run,
         handler[r].at # "view" \/ view.by # r,
         handler'[r].at = "decide" => handler'[r].mine.run = request[r].run,
         handler'[r].at \in Chosen =>
           handler'[r].run # NoRun /\ request[r].run \in {NoRun, handler'[r].run}
  PROVE  LinkInv'
<1>1. ReadingInv'
  <2>1. view.by \in Requests => view.by # r
    BY DEF Inv, LinkInv, ReadingInv
  <2>2. view.by \in Requests => handler'[view.by] = handler[view.by]
    BY <2>1 DEF Others
  <2> QED BY <2>2 DEF Inv, LinkInv, ReadingInv, SeenLinks
<1>2. CallInv'
  <2> SUFFICES ASSUME NEW q \in Requests
               PROVE  /\ handler'[q].at = "decide" => handler'[q].mine.run = request'[q].run
                      /\ handler'[q].at \in Chosen =>
                           handler'[q].run # NoRun /\ request'[q].run \in {NoRun, handler'[q].run}
    BY DEF CallInv, Chosen
  <2>1. CASE q = r
    BY <2>1
  <2>2. CASE q # r
    BY <2>2 DEF Inv, LinkInv, CallInv, Others
  <2> QED BY <2>1, <2>2
<1> QED BY <1>1, <1>2 DEF LinkInv

(* A call that leaves its request, by a result or a throw.                  *)
LEMMA Releases ==
  ASSUME Inv, NEW r \in Requests, Return(r) \/ Reject(r), view' = view,
         \A q \in Requests : request'[q].run = request[q].run,
         handler[r].at # "view" \/ view.by # r
  PROVE  /\ handler' \in [Requests -> HandlerRecord]
         /\ scheduler' \in {"idle", "view", "starting", "rejected"}
         /\ LinkInv'
<1>1. handler' = [handler EXCEPT ![r] = Idle]
  BY DEF Return, Reject
<1>2. handler' \in [Requests -> HandlerRecord] /\ handler'[r] = Idle /\ Others(r)
  BY <1>1, HandlerSet, Defaults DEF Inv
<1>3. scheduler' \in {"idle", "view", "starting", "rejected"}
  BY DEF Return, Reject, Inv, TypeOK
<1>4. Idle.at \notin Chosen \cup {"decide"}
  BY DEF Idle, Chosen
<1>5. LinkInv'
  BY <1>2, <1>4, CallMoves
<1> QED BY <1>2, <1>3, <1>5

LEMMA StatusSet ==
  ASSUME TypeOK, NEW r \in Requests, NEW status \in RequestStatuses,
         request' = [request EXCEPT ![r].status = status]
  PROVE  /\ request' \in [Requests -> WorkRequest]
         /\ \A q \in Requests : request'[q].run = request[q].run
BY DEF TypeOK, WorkRequest

Ends(r) ==
  \/ CallGivesUp(r) \/ StartRefused(r) \/ StartWaits(r) \/ Cancel(r)
  \/ ChangeRefused(r) \/ ChangeFails(r) \/ CallThrows(r)

LEMMA CallEnds == ASSUME Inv, NEW r \in Requests, Ends(r) PROVE Inv'
<1>1. Return(r) \/ Reject(r)
  BY DEF Ends, CallGivesUp, StartRefused, StartWaits, Cancel, ChangeRefused, ChangeFails, CallThrows
<1>2. view' = view /\ UNCHANGED <<run, supervisor, runtime, pending>>
  BY DEF Ends, CallGivesUp, StartRefused, StartWaits, Cancel, ChangeRefused, ChangeFails, CallThrows
<1>3. faults' \in 0 .. MaxFaults
  <2>1. CASE CallThrows(r)
    BY <2>1, QueueAssumption DEF CallThrows, Inv, TypeOK
  <2>2. CASE ~CallThrows(r)
    BY <2>2 DEF Ends, CallGivesUp, StartRefused, StartWaits, Cancel, ChangeRefused, ChangeFails,
                Inv, TypeOK
  <2> QED BY <2>1, <2>2
<1>4. /\ request' \in [Requests -> WorkRequest]
      /\ \A q \in Requests : request'[q].run = request[q].run
  <2>1. CASE UNCHANGED request
    BY <2>1 DEF Inv, TypeOK
  <2>2. CASE \E status \in {"waiting", "cancelled"} : request' = [request EXCEPT ![r].status = status]
    BY <2>2, StatusSet DEF RequestStatuses, Inv
  <2> QED BY <2>1, <2>2 DEF Ends, CallGivesUp, StartRefused, StartWaits, Wait, Cancel,
                            ChangeRefused, ChangeFails, CallThrows
<1>5. handler[r].at # "view" \/ view.by # r
  BY DEF Ends, CallGivesUp, StartRefused, StartWaits, Cancel, ChangeRefused, ChangeFails, CallThrows,
         Deciding, Changing
<1> QED BY <1>1, <1>2, <1>3, <1>4, <1>5, Releases DEF Inv, TypeOK
----------------------------------------------------------------------------
(* The run a call has chosen exists.                                        *)
LEMMA ChosenRun ==
  ASSUME Inv, NEW r \in Requests, handler[r].at \in Chosen
  PROVE  handler[r].run \in Runs /\ request[r].run \in {NoRun, handler[r].run}
<1>1. handler[r].run \in Runs \cup {NoRun}
  BY DEF Inv, TypeOK, HandlerRecord
<1> QED BY <1>1 DEF Inv, LinkInv, CallInv

LEMMA HandlerAnswers ==
  ASSUME TypeOK, NEW r \in Requests, NEW outcome \in Outcomes, Answer(r, outcome)
  PROVE  /\ handler' \in [Requests -> HandlerRecord] /\ Others(r)
         /\ handler'[r].at \in {"record", "rollback"} /\ handler'[r].run = handler[r].run
<1> DEFINE step == IF outcome = "not-configured" /\ handler[r].op # "start"
                   THEN "rollback" ELSE "record"
           h == [handler[r] EXCEPT !.outcome = outcome, !.at = step]
<1>1. handler[r] \in HandlerRecord
  BY DEF TypeOK
<1>2. step \in HandlerSteps /\ step \in {"record", "rollback"}
  BY DEF HandlerSteps
<1>3. handler' = [handler EXCEPT ![r] = h]
  BY DEF Answer
<1> HIDE DEF step
<1>4. h \in HandlerRecord
  BY <1>1, <1>2 DEF HandlerRecord
<1>5. h.at = step /\ h.run = handler[r].run
  BY <1>1 DEF HandlerRecord
<1> HIDE DEF h
<1> QED BY <1>2, <1>3, <1>4, <1>5, HandlerSet

LEMMA RunSet ==
  ASSUME TypeOK, NEW n \in Runs, NEW status \in RunStatuses, NEW retry \in Retries,
         NEW cycle \in Nat,
         run' = [run EXCEPT ![n].status = status, ![n].retry = retry, ![n].cycle = cycle]
  PROVE  run' \in [Runs -> RunRecord]
<1> DEFINE x == [run[n] EXCEPT !.status = status, !.retry = retry, !.cycle = cycle]
<1>1. x \in RunRecord
  BY DEF TypeOK, RunRecord
<1>2. run' = [run EXCEPT ![n] = x]
  OBVIOUS
<1> HIDE DEF x
<1> QED BY <1>1, <1>2 DEF TypeOK

LEMMA RunStatusSet ==
  ASSUME TypeOK, NEW n \in Runs, NEW status \in RunStatuses, NEW retry \in Retries,
         \/ run' = [run EXCEPT ![n].status = status]
         \/ run' = [run EXCEPT ![n].status = status, ![n].retry = retry]
  PROVE  run' \in [Runs -> RunRecord]
BY DEF TypeOK, RunRecord

(* The steps of a call after it has chosen its run.                         *)
Proceeds(r) ==
  \/ Pause(r) \/ Resume(r) \/ Retry(r) \/ Enqueue(r) \/ Load(r) \/ LookForOwner(r)
  \/ Dispatch(r) \/ RollBack(r)

LEMMA CallProceeds == ASSUME Inv, NEW r \in Requests, Proceeds(r) PROVE Inv'
<1> DEFINE n == handler[r].run
<1>1. handler[r].at \in Chosen
  BY DEF Proceeds, Pause, Resume, Retry, Enqueue, Load, LookForOwner, Dispatch, RollBack,
         Changing, Chosen
<1>2. n \in Runs /\ request[r].run \in {NoRun, n}
  BY <1>1, ChosenRun
<1>3. UNCHANGED <<request, runtime, view, scheduler, pending, faults>>
  BY DEF Proceeds, Pause, Resume, Retry, Enqueue, Load, LookForOwner, Dispatch, RollBack
<1>4. /\ handler' \in [Requests -> HandlerRecord] /\ Others(r)
      /\ handler'[r].at \in Chosen /\ handler'[r].run = n
  <2>1. CASE \E step \in {"record", "enqueue", "load", "owner", "dispatch"} : Go(r, step)
    BY <2>1, HandlerGoes DEF HandlerSteps, Chosen, Inv
  <2>2. CASE \E outcome \in Outcomes : Answer(r, outcome)
    BY <2>2, HandlerAnswers DEF Chosen, Inv
  <2>3. CASE Retry(r)
    <3> DEFINE h == [handler[r] EXCEPT !.at = "enqueue",
                                       !.saved = [status |-> "WAITING", retry |-> "completed"]]
    <3>1. handler[r] \in HandlerRecord
      BY DEF Inv, TypeOK
    <3>2. [status |-> "WAITING", retry |-> "completed"] \in [status : RunStatuses, retry : Retries]
      BY DEF RunStatuses, Retries
    <3>3. h \in HandlerRecord
      BY <3>1, <3>2 DEF HandlerRecord, HandlerSteps
    <3>4. h.at = "enqueue" /\ h.run = n
      BY <3>1 DEF HandlerRecord
    <3>5. handler' = [handler EXCEPT ![r] = h]
      BY <2>3 DEF Retry
    <3> HIDE DEF h
    <3> QED BY <3>3, <3>4, <3>5, HandlerSet DEF Inv, Chosen
  <2> QED BY <2>1, <2>2, <2>3 DEF Proceeds, Pause, Resume, Enqueue, Load, LookForOwner, Dispatch,
                                  RollBack, Outcomes
<1>5. run' \in [Runs -> RunRecord]
  <2>1. CASE Pause(r) \/ Resume(r)
    <3>1. \E status \in {"PAUSED", "READY"} : run' = [run EXCEPT ![n].status = status]
      BY <2>1 DEF Pause, Resume
    <3> QED BY <3>1, <1>2, RunStatusSet DEF Inv, RunStatuses, Retries
  <2>2. CASE Retry(r)
    <3>1. run[n].cycle \in Nat
      BY <1>2 DEF Inv, TypeOK, RunRecord
    <3>2. run' = [run EXCEPT ![n].status = "READY", ![n].retry = "active",
                             ![n].cycle = run[n].cycle + 1]
      BY <2>2 DEF Retry
    <3>3. "READY" \in RunStatuses /\ "active" \in Retries /\ run[n].cycle + 1 \in Nat
      BY <3>1 DEF RunStatuses, Retries
    <3> HIDE DEF n
    <3> QED BY <3>2, <3>3, <1>2, RunSet DEF Inv
  <2>3. CASE RollBack(r)
    <3>1. handler[r].saved.status \in RunStatuses /\ handler[r].saved.retry \in Retries
      BY DEF Inv, TypeOK, HandlerRecord
    <3>2. run' = [run EXCEPT ![n].status = handler[r].saved.status,
                             ![n].retry = handler[r].saved.retry]
      BY <2>3 DEF RollBack
    <3> QED BY <3>1, <3>2, <1>2, RunStatusSet DEF Inv
  <2>4. CASE UNCHANGED run
    BY <2>4 DEF Inv, TypeOK
  <2> QED BY <2>1, <2>2, <2>3, <2>4 DEF Proceeds, Enqueue, Load, LookForOwner, Dispatch
<1>6. supervisor' \in [Runs -> SupervisorSteps]
  BY <1>2 DEF Proceeds, Pause, Resume, Retry, Enqueue, Load, LookForOwner, Dispatch, RollBack,
              Inv, TypeOK, SupervisorSteps
<1>7. handler[r].at # "view"
  BY <1>1 DEF Chosen
<1>8. n # NoRun
  BY <1>2, Constants
<1>9. LinkInv'
  <2>1. handler'[r].at # "decide"
    BY <1>4 DEF Chosen
  <2> HIDE DEF n
  <2> QED BY <1>2, <1>3, <1>4, <1>7, <1>8, <2>1, CallMoves
<1> QED BY <1>3, <1>4, <1>5, <1>6, <1>9 DEF Inv, TypeOK

(* A call chooses the run of its request, or creates one for a request that *)
(* has none.                                                                *)
LEMMA PrepareKeeps == ASSUME Inv, NEW r \in Requests, Prepare(r) PROVE Inv'
<1> DEFINE n == handler[r].mine.run
           saved == IF handler[r].op = "resume"
                    THEN [status |-> run[n].status, retry |-> run[n].retry] ELSE NoSaved
           h == [handler[r] EXCEPT !.at = "change", !.run = n, !.mine = Queued,
                                   !.missing = {}, !.saved = saved]
<1>1. handler[r] \in HandlerRecord /\ handler[r].mine \in WorkRequest
  BY DEF Inv, TypeOK, HandlerRecord
<1>2. n \in Runs /\ n # NoRun
  BY <1>1 DEF Prepare, MayChange, Linked, Mine, WorkRequest
<1>3. n = request[r].run
  BY DEF Prepare, Inv, LinkInv, CallInv
<1>4. saved \in [status : RunStatuses, retry : Retries]
  BY <1>2 DEF Inv, TypeOK, RunRecord, NoSaved, RunStatuses, Retries
<1>5. handler' = [handler EXCEPT ![r] = h]
  BY DEF Prepare, Mine
<1> HIDE DEF saved, n
<1>6. h \in HandlerRecord
  BY <1>1, <1>2, <1>4, Defaults DEF HandlerRecord, HandlerSteps
<1>7. h.at = "change" /\ h.run = n
  BY <1>1 DEF HandlerRecord
<1> HIDE DEF h
<1>8. handler' \in [Requests -> HandlerRecord] /\ handler'[r] = h /\ Others(r)
  BY <1>5, <1>6, HandlerSet DEF Inv
<1>9. handler[r].at # "view" /\ UNCHANGED <<request, run, supervisor, runtime, view, scheduler, pending, faults>>
  BY DEF Prepare
<1>10. LinkInv'
  BY <1>2, <1>3, <1>7, <1>8, <1>9, CallMoves DEF Chosen
<1> QED BY <1>8, <1>9, <1>10 DEF Inv, TypeOK

LEMMA CreateKeeps ==
  ASSUME Inv, QueuedFree, NEW r \in Requests, NEW n \in Runs, NEW preflight \in Preflights,
         Create(r, n, preflight)
  PROVE  Inv'
<1> DEFINE h == [handler[r] EXCEPT !.at = "enqueue", !.run = n, !.mine = Queued]
           created == [status |-> IF preflight = "ready" THEN "READY" ELSE "WAITING",
                       retry |-> "none", cycle |-> 0, preflight |-> preflight, for |-> r]
<1>1. handler[r] \in HandlerRecord
  BY DEF Inv, TypeOK
<1>2. request[r].run = NoRun
  <2>1. handler[r].mine.run = NoRun
    BY DEF Create, Deciding, MayStart, Linked, Mine, QueuedFree, Free
  <2> QED BY <2>1 DEF Create, Deciding, Inv, LinkInv, CallInv
<1>3. handler' = [handler EXCEPT ![r] = h] /\ run' = [run EXCEPT ![n] = created]
  BY DEF Create
<1>4. h \in HandlerRecord
  BY <1>1, Defaults DEF HandlerRecord, HandlerSteps
<1>5. h.at = "enqueue" /\ h.run = n
  BY <1>1 DEF HandlerRecord
<1>6. created \in RunRecord
  BY QueueAssumption DEF RunRecord, RunStatuses, Retries
<1> HIDE DEF h, created
<1>7. handler' \in [Requests -> HandlerRecord] /\ handler'[r] = h /\ Others(r)
  BY <1>3, <1>4, HandlerSet DEF Inv
<1>8. run' \in [Runs -> RunRecord]
  BY <1>3, <1>6 DEF Inv, TypeOK
<1>9. handler[r].at # "view" /\ UNCHANGED <<request, supervisor, runtime, view, scheduler, pending, faults>>
  BY DEF Create, Deciding
<1>10. n # NoRun
  BY Constants
<1>11. LinkInv'
  BY <1>2, <1>5, <1>7, <1>9, <1>10, CallMoves DEF Chosen
<1> QED BY <1>7, <1>8, <1>9, <1>11 DEF Inv, TypeOK

(* A call begins, for the owner or for the scheduler.                       *)
LEMMA CallBegins ==
  ASSUME Inv, NEW r \in Requests, NEW h \in HandlerRecord, h.at = "view",
         handler' = [handler EXCEPT ![r] = h], handler[r].at = "idle",
         UNCHANGED <<request, view>>
  PROVE  handler' \in [Requests -> HandlerRecord] /\ LinkInv'
<1>1. handler' \in [Requests -> HandlerRecord] /\ handler'[r] = h /\ Others(r)
  BY HandlerSet DEF Inv
<1>2. LinkInv'
  BY <1>1, CallMoves DEF Chosen
<1> QED BY <1>1, <1>2

LEMMA CallKeeps ==
  ASSUME Inv, NEW r \in Requests, NEW op \in Operations, Call(r, op)
  PROVE  Inv'
<1> DEFINE h == [Idle EXCEPT !.op = op, !.at = "view"]
<1>1. op \in {"start", "cancel", "pause", "resume", "retry"}
  BY QueueAssumption DEF Call
<1>2. h \in HandlerRecord /\ h.at = "view"
  BY <1>1, Defaults DEF HandlerRecord, HandlerSteps
<1>3. handler' = [handler EXCEPT ![r] = h]
  BY DEF Call
<1> HIDE DEF h
<1>4. handler[r].at = "idle" /\ UNCHANGED <<request, run, supervisor, runtime, view, scheduler, pending, faults>>
  BY DEF Call
<1>5. handler' \in [Requests -> HandlerRecord] /\ LinkInv'
  BY <1>2, <1>3, <1>4, CallBegins
<1> QED BY <1>4, <1>5 DEF Inv, TypeOK

LEMMA ScheduledStartKeeps == ASSUME Inv, NEW r \in Requests, ScheduledStart(r) PROVE Inv'
<1>1. UNCHANGED <<request, run, supervisor, runtime, view, faults>>
  BY DEF ScheduledStart
<1>2. pending' \subseteq Requests \X Schedules
  BY DEF ScheduledStart, Inv, TypeOK
<1>3. scheduler' \in {"idle", "view", "starting", "rejected"}
  BY DEF ScheduledStart, Inv, TypeOK
<1>4. handler' \in [Requests -> HandlerRecord] /\ LinkInv'
  <2>1. CASE UNCHANGED handler
    BY <1>1, <2>1 DEF Inv, TypeOK, LinkInv, ReadingInv, SeenLinks, CallInv
  <2>2. CASE handler[r].at = "idle" /\ \E of \in Schedules : handler' = [handler EXCEPT ![r] = Started(of)]
    <3>1. PICK of \in Schedules : handler' = [handler EXCEPT ![r] = Started(of)]
      BY <2>2
    <3>2. Started(of) \in HandlerRecord /\ Started(of).at = "view"
      BY Defaults DEF Started, HandlerRecord, HandlerSteps
    <3> QED BY <1>1, <2>2, <3>1, <3>2, CallBegins
  <2> QED BY <2>1, <2>2 DEF ScheduledStart
<1> QED BY <1>1, <1>2, <1>3, <1>4 DEF Inv, TypeOK

(* The call writes the link of its request: a reading that is under way has *)
(* not seen one, or has seen this one.                                      *)
LEMMA RecordKeeps == ASSUME Inv, NEW r \in Requests, Record(r) PROVE Inv'
<1> DEFINE n == handler[r].run
           x == [status |-> IF handler[r].op = "pause" \/ handler[r].outcome = "not-configured"
                            THEN "waiting" ELSE "running", run |-> n]
<1>1. n \in Runs /\ request[r].run \in {NoRun, n} /\ handler[r].at = "record"
  BY ChosenRun DEF Record, Chosen
<1>2. request' = [request EXCEPT ![r] = x] /\ x.run = n
  BY DEF Record
<1>3. x \in WorkRequest
  BY <1>1 DEF WorkRequest, RequestStatuses
<1> HIDE DEF x, n
<1>4. /\ request' \in [Requests -> WorkRequest] /\ request'[r].run = n
      /\ \A q \in Requests \ {r} : request'[q] = request[q]
  BY <1>2, <1>3 DEF Inv, TypeOK
<1>5. handler' = [handler EXCEPT ![r] = Idle]
  BY DEF Record, Return
<1>6. handler' \in [Requests -> HandlerRecord] /\ handler'[r] = Idle /\ Others(r)
  BY <1>5, HandlerSet, Defaults DEF Inv
<1>7. UNCHANGED <<run, supervisor, runtime, view, scheduler, pending, faults>>
  BY DEF Record, Return
<1>8. ReadingInv'
  <2>1. SeenLinks'
    BY <1>1, <1>4, <1>7 DEF Inv, LinkInv, ReadingInv, SeenLinks
  <2>2. view.by # r
    BY <1>1 DEF Inv, LinkInv, ReadingInv
  <2> QED BY <1>4, <1>6, <1>7, <2>1, <2>2 DEF Others, Inv, LinkInv, ReadingInv
<1>9. CallInv'
  <2>1. Idle.at \notin Chosen \cup {"decide"}
    BY DEF Idle, Chosen
  <2> QED BY <1>4, <1>6, <2>1 DEF Others, Inv, LinkInv, CallInv
<1> QED BY <1>4, <1>6, <1>7, <1>8, <1>9 DEF Inv, TypeOK, LinkInv
----------------------------------------------------------------------------
(* A reading begins with the requests as they are.                          *)
LEMMA Begins ==
  ASSUME Inv, NEW who \in 1 .. N + 2, BeginReading(who),
         who \in Requests => handler[who].at = "view",
         UNCHANGED <<request, run, supervisor, runtime, handler, scheduler, pending, faults>>
  PROVE  Inv'
<1> DEFINE v == [NoView EXCEPT !.by = who, !.seen = request]
<1>1. view' = v
  BY DEF BeginReading
<1>2. who \in 0 .. N + 2 /\ who # Nobody
  BY Constants DEF Nobody
<1>3. v \in ViewRecord
  BY <1>2, Defaults DEF ViewRecord, Inv, TypeOK
<1>4. v.by = who /\ v.seen = request /\ v.at = "request"
  BY DEF NoView
<1> HIDE DEF v
<1>5. LinkInv'
  BY <1>1, <1>2, <1>4 DEF Inv, LinkInv, ReadingInv, SeenLinks, CallInv
<1> QED BY <1>1, <1>3, <1>5 DEF Inv, TypeOK

LEMMA BeginsKeep ==
  ASSUME Inv, Visit \/ ScheduleReads \/ \E r \in Requests : CallReads(r)
  PROVE  Inv'
<1>1. Visitor \in 1 .. N + 2 /\ Scheduler \in 1 .. N + 2 /\ Requests \subseteq 1 .. N + 2
  BY QueueAssumption DEF Visitor, Scheduler, Requests
<1>2. CASE Visit
  BY <1>1, <1>2, Begins, Constants DEF Visit
<1>3. CASE ScheduleReads
  BY <1>1, <1>3, Begins, Constants DEF ScheduleReads
<1>4. ASSUME NEW r \in Requests, CallReads(r) PROVE Inv'
  <2>1. r \in 1 .. N + 2
    BY <1>1
  <2> QED BY <1>4, <2>1, Begins DEF CallReads
<1> QED BY <1>2, <1>3, <1>4

(* A reading ends.                                                          *)
LEMMA NoReading ==
  ASSUME view' = NoView
  PROVE  view' \in ViewRecord /\ ReadingInv'
<1>1. NoView.by = Nobody /\ NoView.at = "request"
  BY DEF NoView
<1>2. \A r \in Requests : NoView.seen[r].run = NoRun
  BY DEF NoView, Queued
<1> QED BY <1>1, <1>2, Defaults, Constants DEF ReadingInv, SeenLinks

LEMMA VisitEndsKeeps == ASSUME Inv, VisitEnds PROVE Inv'
<1>1. view' = NoView /\ UNCHANGED <<request, run, supervisor, runtime, handler, scheduler, pending, faults>>
  BY DEF VisitEnds, EndReading
<1>2. CallInv'
  BY <1>1 DEF Inv, LinkInv, CallInv
<1> QED BY <1>1, <1>2, NoReading DEF Inv, TypeOK, LinkInv

LEMMA ScheduleSelectsKeeps == ASSUME Inv, ScheduleSelects PROVE Inv'
<1>1. view' = NoView /\ scheduler' = "starting"
      /\ UNCHANGED <<request, run, supervisor, runtime, handler, faults>>
  BY DEF ScheduleSelects, EndReading
<1>2. CallInv'
  BY <1>1 DEF Inv, LinkInv, CallInv
<1>3. Selected(view.seen) \subseteq Requests
  BY DEF Selected
<1>4. pending' \subseteq Requests \X Schedules
  BY <1>3 DEF ScheduleSelects, Inv, TypeOK, Schedules
<1> QED BY <1>1, <1>2, <1>4, NoReading DEF Inv, TypeOK, LinkInv

(* A call that has read the project knows the link of its own request.      *)
LEMMA CallHasReadKeeps == ASSUME Inv, NEW r \in Requests, CallHasRead(r) PROVE Inv'
<1> DEFINE missing == Incomplete(r, view.seen)
           h == [handler[r] EXCEPT !.at = "decide", !.mine = view.seen[r], !.missing = missing]
<1>1. view.by = r /\ view.next = N + 1 /\ view' = NoView
      /\ UNCHANGED <<request, run, supervisor, runtime, scheduler, pending, faults>>
  BY DEF CallHasRead, EndReading
<1>2. handler[r].at = "view" /\ view.seen[r].run = request[r].run
  <2>1. r < N + 1
    BY Constants DEF Requests
  <2> QED BY <1>1, <2>1 DEF Inv, LinkInv, ReadingInv
<1>3. missing \in SUBSET Requests
  BY QueueAssumption DEF Incomplete
<1>4. view.seen[r] \in WorkRequest
  BY DEF Inv, TypeOK, ViewRecord
<1>5. handler' = [handler EXCEPT ![r] = h]
  BY DEF CallHasRead
<1>6. handler[r] \in HandlerRecord
  BY DEF Inv, TypeOK
<1> HIDE DEF missing
<1>7. h \in HandlerRecord
  BY <1>3, <1>4, <1>6 DEF HandlerRecord, HandlerSteps
<1>8. h.at = "decide" /\ h.mine = view.seen[r]
  BY <1>6 DEF HandlerRecord
<1> HIDE DEF h
<1>9. handler' \in [Requests -> HandlerRecord] /\ handler'[r] = h /\ Others(r)
  BY <1>5, <1>7, HandlerSet DEF Inv
<1>10. CallInv'
  BY <1>1, <1>2, <1>8, <1>9 DEF Inv, LinkInv, CallInv, Chosen, Others
<1> QED BY <1>1, <1>9, <1>10, NoReading DEF Inv, TypeOK, LinkInv
----------------------------------------------------------------------------
LEMMA Projection == ASSUME NEW status PROVE StatusForRun(status) \in RequestStatuses
BY DEF StatusForRun, RequestStatuses

LEMMA ReadRequestKeeps == ASSUME Inv, ReadRequest PROVE Inv'
<1> DEFINE i == view.next
           v == [view EXCEPT !.seen[i] = request[i],
                             !.at = IF request[i].run = NoRun THEN @ ELSE "run",
                             !.next = IF request[i].run = NoRun THEN @ + 1 ELSE @]
<1>1. view' = v /\ view.by # Nobody /\ view.at = "request" /\ i <= N
      /\ UNCHANGED <<request, run, supervisor, runtime, handler, scheduler, pending, faults>>
  BY DEF ReadRequest
<1>2. view \in ViewRecord
  BY DEF Inv, TypeOK
<1>3. i \in Requests
  BY <1>1, <1>2, Constants DEF ViewRecord, Requests
<1>4. request[i] \in WorkRequest /\ view.seen \in [Requests -> WorkRequest]
  BY <1>2, <1>3 DEF Inv, TypeOK, ViewRecord
<1>5. v.by = view.by /\ v.seen = [view.seen EXCEPT ![i] = request[i]]
      /\ v.found = view.found
      /\ v.at = (IF request[i].run = NoRun THEN "request" ELSE "run")
      /\ v.next = (IF request[i].run = NoRun THEN i + 1 ELSE i)
  BY <1>1, <1>2 DEF ViewRecord
<1>6. v \in ViewRecord
  <2>1. v.seen \in [Requests -> WorkRequest] /\ v.at \in {"request", "run", "write"}
    BY <1>4, <1>5
  <2>2. v.next \in 1 .. N + 1
    BY <1>3, <1>5, Constants
  <2> QED BY <1>2, <2>1, <2>2 DEF ViewRecord
<1> HIDE DEF v, i
<1>7. \A q \in Requests : v.seen[q] = IF q = i THEN request[i] ELSE view.seen[q]
  BY <1>4, <1>5
<1>8. ReadingInv'
  <2>1. SeenLinks'
    BY <1>1, <1>7 DEF Inv, LinkInv, ReadingInv, SeenLinks
  <2>2. v.at # "request" => v.by # Nobody /\ v.next \in Requests /\ v.seen[v.next].run # NoRun
    BY <1>1, <1>3, <1>5, <1>7
  <2>3. v.by \in Requests =>
          /\ handler[v.by].at = "view"
          /\ v.by < v.next => v.seen[v.by].run = request[v.by].run
    <3> SUFFICES ASSUME v.by \in Requests
                 PROVE  /\ handler[v.by].at = "view"
                        /\ v.by < v.next => v.seen[v.by].run = request[v.by].run
      OBVIOUS
    <3>1. v.by < v.next => v.by = i \/ v.by < i
      BY <1>3, <1>5 DEF Requests
    <3> QED BY <1>5, <1>7, <3>1 DEF Inv, LinkInv, ReadingInv, i
  <2> QED BY <1>1, <2>1, <2>2, <2>3 DEF ReadingInv
<1>9. CallInv'
  BY <1>1 DEF Inv, LinkInv, CallInv
<1> QED BY <1>1, <1>6, <1>8, <1>9 DEF Inv, TypeOK, LinkInv

LEMMA ReadRunKeeps == ASSUME Inv, ReadRun PROVE Inv'
<1> DEFINE i == view.next
           found == run[view.seen[i].run].status
           stale == Projects(view.seen[i].status, StatusForRun(found))
           v == [view EXCEPT !.at = IF stale THEN "write" ELSE "request",
                             !.found = IF stale THEN found ELSE @,
                             !.next = IF stale THEN @ ELSE @ + 1]
<1>1. view' = v /\ view.at = "run"
      /\ UNCHANGED <<request, run, supervisor, runtime, handler, scheduler, pending, faults>>
  BY DEF ReadRun
<1>2. view \in ViewRecord
  BY DEF Inv, TypeOK
<1>3. i \in Requests /\ view.by # Nobody /\ view.seen[i].run # NoRun
  BY <1>1 DEF Inv, LinkInv, ReadingInv
<1>4. view.seen[i] \in WorkRequest
  BY <1>2, <1>3 DEF ViewRecord
<1>5. found \in RunStatuses
  BY <1>3, <1>4 DEF WorkRequest, Inv, TypeOK, RunRecord
<1> HIDE DEF stale, found
<1>6. /\ v.by = view.by /\ v.seen = view.seen
      /\ v.at \in {"request", "write"} /\ v.found \in RunStatuses
      /\ \/ v.next = i
         \/ v.next = i + 1 /\ v.at = "request"
  BY <1>2, <1>5 DEF ViewRecord
<1>7. v \in ViewRecord
  <2>1. i \in 1 .. N + 1 /\ i + 1 \in 1 .. N + 1
    BY <1>3, Constants
  <2>2. CASE stale
    <3>1. v = [view EXCEPT !.at = "write", !.found = found]
      BY <1>2, <2>2 DEF ViewRecord
    <3> HIDE DEF v
    <3> QED BY <1>2, <1>5, <3>1 DEF ViewRecord
  <2>3. CASE ~stale
    <3>1. v = [view EXCEPT !.at = "request", !.next = i + 1]
      BY <1>2, <2>3 DEF ViewRecord
    <3> HIDE DEF v
    <3> QED BY <1>2, <2>1, <3>1 DEF ViewRecord
  <2> QED BY <2>2, <2>3
<1> HIDE DEF v
<1>8. ReadingInv'
  <2>1. SeenLinks'
    BY <1>1, <1>6 DEF Inv, LinkInv, ReadingInv, SeenLinks
  <2>2. v.at # "request" => v.by # Nobody /\ v.next \in Requests /\ v.seen[v.next].run # NoRun
    BY <1>3, <1>6
  <2>3. v.by \in Requests =>
          /\ handler[v.by].at = "view"
          /\ v.by < v.next => v.seen[v.by].run = request[v.by].run
    <3> SUFFICES ASSUME v.by \in Requests
                 PROVE  /\ handler[v.by].at = "view"
                        /\ v.by < v.next => v.seen[v.by].run = request[v.by].run
      OBVIOUS
    <3>1. v.by < v.next => v.by = i \/ v.by < i
      BY <1>3, <1>6 DEF Requests
    <3>2. view.seen[i].run = request[i].run
      BY <1>3 DEF Inv, LinkInv, ReadingInv, SeenLinks
    <3> QED BY <1>6, <3>1, <3>2 DEF Inv, LinkInv, ReadingInv
  <2> QED BY <1>1, <2>1, <2>2, <2>3 DEF ReadingInv
<1>9. CallInv'
  BY <1>1 DEF Inv, LinkInv, CallInv
<1> QED BY <1>1, <1>7, <1>8, <1>9 DEF Inv, TypeOK, LinkInv

(* The write of a reading puts back the link the reading has seen.          *)
LEMMA ProjectKeeps == ASSUME Inv, Project PROVE Inv' /\ \A q \in Requests : request'[q].run = request[q].run
<1> DEFINE i == view.next
           x == [status |-> StatusForRun(view.found), run |-> view.seen[i].run]
           v == [view EXCEPT !.at = "request", !.next = i + 1, !.seen[i] = x, !.found = "absent"]
<1>1. view' = v /\ view.at = "write" /\ request' = [request EXCEPT ![i] = x]
      /\ UNCHANGED <<run, supervisor, runtime, handler, scheduler, pending, faults>>
  BY DEF Project
<1>2. view \in ViewRecord
  BY DEF Inv, TypeOK
<1>3. i \in Requests /\ view.by # Nobody /\ view.seen[i].run # NoRun
  BY <1>1 DEF Inv, LinkInv, ReadingInv
<1>4. view.seen[i].run = request[i].run
  BY <1>3 DEF Inv, LinkInv, ReadingInv, SeenLinks
<1>5. x \in WorkRequest /\ x.run = view.seen[i].run
  <2>1. view.seen[i] \in WorkRequest
    BY <1>2, <1>3 DEF ViewRecord
  <2> QED BY <2>1, Projection DEF WorkRequest
<1> HIDE DEF x
<1>6. /\ v.by = view.by /\ v.at = "request" /\ v.next = i + 1 /\ v.found = "absent"
      /\ v.seen = [view.seen EXCEPT ![i] = x]
  BY <1>2 DEF ViewRecord
<1>7. view.seen \in [Requests -> WorkRequest]
  BY <1>2 DEF ViewRecord
<1>8. v \in ViewRecord
  <2>1. v.seen \in [Requests -> WorkRequest] /\ v.next \in 1 .. N + 1 /\ v.found \in RunStatuses
    BY <1>3, <1>5, <1>6, <1>7, Constants DEF RunStatuses
  <2> QED BY <1>2, <1>6, <2>1 DEF ViewRecord
<1> HIDE DEF v
<1>9. request' \in [Requests -> WorkRequest] /\ \A q \in Requests : request'[q].run = request[q].run
  BY <1>1, <1>3, <1>4, <1>5 DEF Inv, TypeOK
<1>10. \A q \in Requests : v.seen[q].run = view.seen[q].run
  BY <1>5, <1>6, <1>7
<1>11. ReadingInv'
  <2>1. SeenLinks'
    BY <1>1, <1>9, <1>10 DEF Inv, LinkInv, ReadingInv, SeenLinks
  <2>2. v.by \in Requests =>
          /\ handler[v.by].at = "view"
          /\ v.by < v.next => v.seen[v.by].run = request[v.by].run
    <3> SUFFICES ASSUME v.by \in Requests
                 PROVE  /\ handler[v.by].at = "view"
                        /\ v.by < v.next => v.seen[v.by].run = request[v.by].run
      OBVIOUS
    <3>1. v.by < v.next => v.by = i \/ v.by < i
      BY <1>3, <1>6 DEF Requests
    <3> QED BY <1>4, <1>6, <1>10, <3>1 DEF Inv, LinkInv, ReadingInv
  <2> QED BY <1>1, <1>6, <1>9, <2>1, <2>2 DEF ReadingInv
<1>12. CallInv'
  BY <1>1, <1>9 DEF Inv, LinkInv, CallInv
<1> QED BY <1>1, <1>8, <1>9, <1>11, <1>12 DEF Inv, TypeOK, LinkInv
----------------------------------------------------------------------------
(* The runtime knows nothing of requests.                                   *)
LEMMA SupervisorKeeps ==
  ASSUME Inv, NEW n \in Runs, SupervisorStep(n) \/ SupervisorThrows(n)
  PROVE  Inv'
<1>1. UNCHANGED <<request, runtime, handler, view, scheduler, pending>>
  BY DEF SupervisorStep, SupervisorThrows, Supervise, StartRun, Reload, Advance, Conclude, Exhaust,
         Leave, Supervised
<1>2. \E step \in SupervisorSteps : supervisor' = [supervisor EXCEPT ![n] = step]
  BY DEF SupervisorStep, SupervisorThrows, Supervise, StartRun, Reload, Advance, Conclude, Exhaust,
         Leave, Supervised, SupervisorSteps
<1>3. supervisor' \in [Runs -> SupervisorSteps]
  BY <1>2 DEF Inv, TypeOK
<1>4. run' \in [Runs -> RunRecord]
  <2>1. CASE UNCHANGED run
    BY <2>1 DEF Inv, TypeOK
  <2>2. ASSUME NEW status \in RunStatuses, Write(n, status) PROVE run' \in [Runs -> RunRecord]
    <3> DEFINE retry == IF status = "FAILED_FINAL" /\ run[n].retry = "active"
                        THEN "completed" ELSE run[n].retry
    <3>1. run' = [run EXCEPT ![n].status = status, ![n].retry = retry]
      BY <2>2 DEF Write, Inv, TypeOK, RunRecord
    <3>2. retry \in Retries
      BY DEF Inv, TypeOK, RunRecord, Retries
    <3> HIDE DEF retry
    <3> QED BY <3>1, <3>2, RunStatusSet DEF Inv
  <2> QED BY <2>1, <2>2 DEF SupervisorStep, SupervisorThrows, Supervise, StartRun, Reload, Advance,
                            Conclude, Exhaust, Leave, RunStatuses
<1>5. faults' \in 0 .. MaxFaults
  <2>1. CASE SupervisorThrows(n)
    BY <2>1, QueueAssumption DEF SupervisorThrows, Inv, TypeOK
  <2>2. CASE SupervisorStep(n)
    BY <2>2 DEF SupervisorStep, Supervise, StartRun, Reload, Advance, Conclude, Exhaust, Leave,
                Supervised, Inv, TypeOK
  <2> QED BY <2>1, <2>2
<1>6. LinkInv'
  BY <1>1 DEF Inv, LinkInv, ReadingInv, SeenLinks, CallInv
<1> QED BY <1>1, <1>3, <1>4, <1>5, <1>6 DEF Inv, TypeOK

LEMMA ReadingThrowsKeeps == ASSUME Inv, ReadingThrows PROVE Inv'
<1>1. view' = NoView /\ UNCHANGED <<request, run, supervisor, runtime, pending>>
      /\ faults' \in 0 .. MaxFaults
  BY QueueAssumption DEF ReadingThrows, Inv, TypeOK
<1>2. scheduler' \in {"idle", "view", "starting", "rejected"}
  BY DEF ReadingThrows, Reject, Inv, TypeOK
<1>3. handler' \in [Requests -> HandlerRecord] /\ CallInv'
  <2>1. CASE UNCHANGED handler
    BY <1>1, <2>1 DEF Inv, TypeOK, LinkInv, CallInv
  <2>2. CASE \E r \in Requests : handler' = [handler EXCEPT ![r] = Idle]
    <3>1. PICK r \in Requests : handler' = [handler EXCEPT ![r] = Idle]
      BY <2>2
    <3>2. handler' \in [Requests -> HandlerRecord] /\ handler'[r] = Idle /\ Others(r)
      BY <3>1, HandlerSet, Defaults DEF Inv
    <3>3. Idle.at \notin Chosen \cup {"decide"}
      BY DEF Idle, Chosen
    <3> QED BY <1>1, <3>2, <3>3 DEF Others, Inv, LinkInv, CallInv
  <2> QED BY <2>1, <2>2 DEF ReadingThrows, Reject
<1> QED BY <1>1, <1>2, <1>3, NoReading DEF Inv, TypeOK, LinkInv

LEMMA ScheduleKeeps == ASSUME Inv, Schedule \/ ScheduleGivesUp PROVE Inv'
<1>1. UNCHANGED <<request, run, supervisor, runtime, handler, view, pending, faults>>
      /\ scheduler' \in {"idle", "view", "starting", "rejected"}
  BY DEF Schedule, ScheduleGivesUp
<1>2. LinkInv'
  BY <1>1 DEF Inv, LinkInv, ReadingInv, SeenLinks, CallInv
<1> QED BY <1>1, <1>2 DEF Inv, TypeOK

LEMMA ScheduleReturnsKeeps == ASSUME Inv, ScheduleReturns PROVE Inv'
<1>1. UNCHANGED <<request, run, supervisor, runtime, view, faults>> /\ scheduler' = "idle"
      /\ handler' = [r \in Requests |-> [handler[r] EXCEPT !.caller = "owner"]]
  BY DEF ScheduleReturns
<1>2. pending' \subseteq Requests \X Schedules
  BY DEF ScheduleReturns, Schedules
<1>3. ASSUME NEW r \in Requests
      PROVE  /\ [handler[r] EXCEPT !.caller = "owner"] \in HandlerRecord
             /\ handler'[r].at = handler[r].at /\ handler'[r].run = handler[r].run
             /\ handler'[r].mine = handler[r].mine
  <2>1. handler[r] \in HandlerRecord
    BY DEF Inv, TypeOK
  <2> QED BY <1>1, <2>1 DEF HandlerRecord
<1>4. handler' \in [Requests -> HandlerRecord]
  BY <1>1, <1>3
<1>5. LinkInv'
  BY <1>1, <1>3 DEF Inv, LinkInv, ReadingInv, SeenLinks, CallInv
<1> QED BY <1>1, <1>2, <1>4, <1>5 DEF Inv, TypeOK

(* A crash forgets the calls and the readings, the records stay.            *)
LEMMA CrashKeeps == ASSUME Inv, Crash PROVE Inv'
<1>1. /\ faults' \in 0 .. MaxFaults /\ runtime' \in {"available", "unavailable"}
      /\ view' = NoView /\ UNCHANGED <<request, run>> /\ scheduler' = "idle" /\ pending' = {}
      /\ handler' = [r \in Requests |-> Idle] /\ supervisor' = [n \in Runs |-> "none"]
  BY QueueAssumption DEF Crash, Inv, TypeOK
<1>2. supervisor' \in [Runs -> SupervisorSteps] /\ handler' \in [Requests -> HandlerRecord]
  BY <1>1, Defaults DEF SupervisorSteps
<1>3. CallInv'
  BY <1>1 DEF CallInv, Chosen, Idle
<1> QED BY <1>1, <1>2, <1>3, NoReading DEF Inv, TypeOK, LinkInv
----------------------------------------------------------------------------
LEMMA InitOK == Init => Inv
<1> SUFFICES ASSUME Init PROVE Inv
  OBVIOUS
<1>1. request \in [Requests -> WorkRequest] /\ handler \in [Requests -> HandlerRecord] /\ view \in ViewRecord
  BY Defaults DEF Init
<1>2. run \in [Runs -> RunRecord]
  <2>1. [status |-> "absent", retry |-> "none", cycle |-> 0, preflight |-> "ready", for |-> 1] \in RunRecord
    BY QueueAssumption DEF RunRecord, RunStatuses, Retries, Requests
  <2> QED BY <2>1 DEF Init
<1>3. supervisor \in [Runs -> SupervisorSteps] /\ faults \in 0 .. MaxFaults
  BY QueueAssumption DEF Init, SupervisorSteps
<1>4. TypeOK
  BY <1>1, <1>2, <1>3 DEF Init, TypeOK
<1>5. LinkInv
  BY Constants DEF Init, LinkInv, ReadingInv, SeenLinks, CallInv, NoView, Idle, Queued, Chosen
<1> QED BY <1>4, <1>5 DEF Inv

LEMMA StutterKeeps == ASSUME Inv, UNCHANGED vars PROVE Inv'
BY DEF vars, Inv, TypeOK, LinkInv, ReadingInv, SeenLinks, CallInv

(* One lemma per action, above.                                             *)
LEMMA StepKeeps == Inv /\ QueuedFree /\ [Next]_vars => Inv'
<1> SUFFICES ASSUME Inv, QueuedFree, [Next]_vars PROVE Inv'
  OBVIOUS
<1>1. CASE Visit \/ ReadingStep \/ ReadingThrows
  BY <1>1, BeginsKeep, ReadRequestKeeps, ReadRunKeeps, ProjectKeeps, VisitEndsKeeps, ReadingThrowsKeeps
     DEF ReadingStep
<1>2. ASSUME NEW r \in Requests, CallStep(r) PROVE Inv'
  <2>1. CASE CallReads(r)
    BY <2>1, BeginsKeep
  <2>2. CASE Ends(r)
    BY <2>2, CallEnds
  <2>3. CASE Proceeds(r)
    BY <2>3, CallProceeds
  <2>4. CASE CallHasRead(r) \/ Prepare(r) \/ Record(r)
    BY <2>4, CallHasReadKeeps, PrepareKeeps, RecordKeeps
  <2>5. CASE \E n \in Runs, preflight \in Preflights : Create(r, n, preflight)
    BY <2>5, CreateKeeps
  <2> QED BY <1>2, <2>1, <2>2, <2>3, <2>4, <2>5 DEF CallStep, Ends, Proceeds
<1>3. ASSUME NEW r \in Requests, ScheduledStart(r) \/ CallThrows(r) \/ \E op \in Operations : Call(r, op)
      PROVE  Inv'
  BY <1>3, ScheduledStartKeeps, CallEnds, CallKeeps DEF Ends
<1>4. CASE Schedule \/ ScheduleStep
  BY <1>4, ScheduleKeeps, BeginsKeep, ScheduleSelectsKeeps, ScheduleReturnsKeeps DEF ScheduleStep
<1>5. ASSUME NEW n \in Runs, SupervisorStep(n) \/ SupervisorThrows(n) PROVE Inv'
  BY <1>5, SupervisorKeeps
<1>6. CASE Crash
  BY <1>6, CrashKeeps
<1>7. CASE UNCHANGED vars
  BY <1>7, StutterKeeps
<1> QED BY <1>1, <1>2, <1>3, <1>4, <1>5, <1>6, <1>7 DEF Next

(* Who writes a request, who changes a reading and what a call remembers.   *)
LEMMA Writers ==
  [Next]_vars =>
    \/ UNCHANGED request \/ Project
    \/ \E r \in Requests : StartWaits(r) \/ Cancel(r) \/ Record(r)
<1> SUFFICES ASSUME [Next]_vars
             PROVE  \/ UNCHANGED request \/ Project
                    \/ \E r \in Requests : StartWaits(r) \/ Cancel(r) \/ Record(r)
  OBVIOUS
<1>1. CASE Visit \/ ReadingStep \/ ReadingThrows
  BY <1>1 DEF ReadingStep, Visit, ReadRequest, ReadRun, VisitEnds, ReadingThrows
<1>2. ASSUME NEW r \in Requests, CallStep(r)
      PROVE  UNCHANGED request \/ StartWaits(r) \/ Cancel(r) \/ Record(r)
  BY <1>2 DEF CallStep, CallReads, CallHasRead, CallGivesUp, StartRefused, Create, Prepare,
              ChangeRefused, Pause, Resume, Retry, ChangeFails, Enqueue, Load, LookForOwner, Dispatch,
              RollBack
<1>3. ASSUME NEW r \in Requests, ScheduledStart(r) \/ CallThrows(r) \/ \E op \in Operations : Call(r, op)
      PROVE  UNCHANGED request
  BY <1>3 DEF ScheduledStart, CallThrows, Call
<1>4. CASE Schedule \/ ScheduleStep
  BY <1>4 DEF Schedule, ScheduleStep, ScheduleReads, ScheduleGivesUp, ScheduleSelects, ScheduleReturns
<1>5. ASSUME NEW n \in Runs, SupervisorStep(n) \/ SupervisorThrows(n) PROVE UNCHANGED request
  BY <1>5 DEF SupervisorStep, SupervisorThrows, Supervise, StartRun, Reload, Advance, Conclude,
              Exhaust, Leave, Supervised
<1>6. CASE Crash \/ UNCHANGED vars
  BY <1>6 DEF Crash, vars
<1> QED BY <1>1, <1>2, <1>3, <1>4, <1>5, <1>6 DEF Next

LEMMA Readers ==
  [Next]_vars =>
    \/ UNCHANGED view \/ view' = NoView \/ ReadRequest \/ ReadRun \/ Project
    \/ UNCHANGED request /\ \E who \in Requests \cup {Visitor, Scheduler} : BeginReading(who)
<1> DEFINE Goal == \/ UNCHANGED view \/ view' = NoView \/ ReadRequest \/ ReadRun \/ Project
                   \/ UNCHANGED request /\ \E who \in Requests \cup {Visitor, Scheduler} : BeginReading(who)
<1> SUFFICES ASSUME [Next]_vars PROVE Goal
  OBVIOUS
<1>1. CASE Visit \/ ReadingStep \/ ReadingThrows
  BY <1>1 DEF ReadingStep, Visit, VisitEnds, EndReading, ReadingThrows
<1>2. ASSUME NEW r \in Requests, CallStep(r) PROVE Goal
  BY <1>2 DEF CallStep, CallReads, CallHasRead, EndReading, CallGivesUp, StartRefused, StartWaits,
              Create, Cancel, Prepare, ChangeRefused, Pause, Resume, Retry, ChangeFails, Enqueue,
              Load, LookForOwner, Dispatch, RollBack, Record
<1>3. ASSUME NEW r \in Requests, ScheduledStart(r) \/ CallThrows(r) \/ \E op \in Operations : Call(r, op)
      PROVE  UNCHANGED view
  BY <1>3 DEF ScheduledStart, CallThrows, Call
<1>4. CASE Schedule \/ ScheduleStep
  BY <1>4 DEF Schedule, ScheduleStep, ScheduleReads, ScheduleGivesUp, ScheduleSelects, ScheduleReturns,
              EndReading
<1>5. ASSUME NEW n \in Runs, SupervisorStep(n) \/ SupervisorThrows(n) PROVE UNCHANGED view
  BY <1>5 DEF SupervisorStep, SupervisorThrows, Supervise, StartRun, Reload, Advance, Conclude,
              Exhaust, Leave, Supervised
<1>6. CASE Crash \/ UNCHANGED vars
  BY <1>6 DEF Crash, vars
<1> QED BY <1>1, <1>2, <1>3, <1>4, <1>5, <1>6 DEF Next

(* What one step adds to the memory of a reading.                           *)
LEMMA ReadsRequest ==
  ASSUME Inv, ReadRequest
  PROVE  /\ view.next \in Requests /\ view'.by = view.by /\ UNCHANGED request
         /\ view'.seen = [view.seen EXCEPT ![view.next] = request[view.next]]
         /\ view'.next \in {view.next, view.next + 1}
<1>1. view \in ViewRecord /\ view.next \in Requests
  BY Constants DEF ReadRequest, Inv, TypeOK, ViewRecord, Requests
<1> QED BY <1>1 DEF ReadRequest, ViewRecord

LEMMA ReadsRun ==
  ASSUME Inv, ReadRun
  PROVE  /\ view.next \in Requests /\ view.seen[view.next].run # NoRun
         /\ view'.by = view.by /\ view'.seen = view.seen /\ UNCHANGED request
         /\ view'.next \in {view.next, view.next + 1}
<1>1. view \in ViewRecord /\ view.next \in Requests /\ view.seen[view.next].run # NoRun
  BY DEF ReadRun, Inv, TypeOK, LinkInv, ReadingInv
<1> DEFINE stale == Projects(view.seen[view.next].status,
                             StatusForRun(run[view.seen[view.next].run].status))
           found == run[view.seen[view.next].run].status
<1>2. /\ UNCHANGED request
      /\ view' = [view EXCEPT !.at = IF stale THEN "write" ELSE "request",
                              !.found = IF stale THEN found ELSE @,
                              !.next = IF stale THEN @ ELSE @ + 1]
  BY DEF ReadRun
<1> HIDE DEF stale, found
<1> QED BY <1>1, <1>2 DEF ViewRecord

LEMMA Projected ==
  ASSUME Inv, Project
  PROVE  \E w :
           /\ w.status \notin {"queued", "cancelled"} /\ w.run # NoRun
           /\ view.next \in Requests /\ view'.by = view.by /\ view'.next = view.next + 1
           /\ request' = [request EXCEPT ![view.next] = w]
           /\ view'.seen = [view.seen EXCEPT ![view.next] = w]
<1> DEFINE w == [status |-> StatusForRun(view.found), run |-> view.seen[view.next].run]
<1>1. view \in ViewRecord /\ view.next \in Requests /\ view.seen[view.next].run # NoRun
  BY DEF Project, Inv, TypeOK, LinkInv, ReadingInv
<1>2. w.status \notin {"queued", "cancelled"} /\ w.run # NoRun
  BY <1>1 DEF StatusForRun
<1>3. /\ request' = [request EXCEPT ![view.next] = w]
      /\ view' = [view EXCEPT !.at = "request", !.next = view.next + 1,
                              !.seen[view.next] = w, !.found = "absent"]
  BY DEF Project
<1> HIDE DEF w
<1>4. view'.seen = [view.seen EXCEPT ![view.next] = w] /\ view'.by = view.by
      /\ view'.next = view.next + 1
  BY <1>1, <1>3 DEF ViewRecord
<1> QED BY <1>1, <1>2, <1>3, <1>4

LEMMA Rememberers ==
  ASSUME Inv, [Next]_vars, NEW r \in Requests
  PROVE  handler'[r].mine \in {handler[r].mine, Queued, view.seen[r]}
<1> DEFINE Goal == handler'[r].mine \in {handler[r].mine, Queued, view.seen[r]}
<1>1. handler[r] \in HandlerRecord /\ Idle.mine = Queued
  BY DEF Inv, TypeOK, Idle
<1>2. CASE UNCHANGED handler
  BY <1>2
<1>3. ASSUME NEW q \in Requests, NEW h, h.mine \in {handler[q].mine, Queued, view.seen[q]},
             handler' = [handler EXCEPT ![q] = h]
      PROVE  Goal
  BY <1>3 DEF Inv, TypeOK
<1>4. ASSUME NEW q \in Requests, Return(q) \/ Reject(q) PROVE Goal
  BY <1>1, <1>3, <1>4 DEF Return, Reject
<1>5. ASSUME NEW q \in Requests, NEW step, Go(q, step) PROVE Goal
  <2>1. handler[q] \in HandlerRecord
    BY DEF Inv, TypeOK
  <2> DEFINE h == [handler[q] EXCEPT !.at = step]
  <2>2. h.mine = handler[q].mine /\ handler' = [handler EXCEPT ![q] = h]
    BY <1>5, <2>1 DEF Go, HandlerRecord
  <2> HIDE DEF h
  <2> QED BY <1>3, <2>2
<1>6. ASSUME NEW q \in Requests, NEW outcome, Answer(q, outcome) PROVE Goal
  <2>1. handler[q] \in HandlerRecord
    BY DEF Inv, TypeOK
  <2> DEFINE step == IF outcome = "not-configured" /\ handler[q].op # "start"
                     THEN "rollback" ELSE "record"
             h == [handler[q] EXCEPT !.outcome = outcome, !.at = step]
  <2>2. handler' = [handler EXCEPT ![q] = h]
    BY <1>6 DEF Answer
  <2> HIDE DEF step
  <2>3. h.mine = handler[q].mine
    BY <2>1 DEF HandlerRecord
  <2> HIDE DEF h
  <2> QED BY <1>3, <2>2, <2>3
<1>7. ASSUME NEW q \in Requests, CallHasRead(q) \/ Retry(q) \/ Prepare(q)
                                 \/ \E n \in Runs, preflight \in Preflights : Create(q, n, preflight)
      PROVE  Goal
  <2>1. handler[q] \in HandlerRecord
    BY DEF Inv, TypeOK
  <2>2. CASE CallHasRead(q)
    <3> DEFINE missing == Incomplete(q, view.seen)
               h == [handler[q] EXCEPT !.at = "decide", !.mine = view.seen[q], !.missing = missing]
    <3>1. handler' = [handler EXCEPT ![q] = h]
      BY <2>2 DEF CallHasRead
    <3> HIDE DEF missing
    <3>2. h.mine = view.seen[q]
      BY <2>1 DEF HandlerRecord
    <3> HIDE DEF h
    <3> QED BY <1>3, <3>1, <3>2
  <2>3. CASE Retry(q)
    <3> DEFINE h == [handler[q] EXCEPT !.at = "enqueue",
                                       !.saved = [status |-> "WAITING", retry |-> "completed"]]
    <3>1. handler' = [handler EXCEPT ![q] = h] /\ h.mine = handler[q].mine
      BY <2>1, <2>3 DEF Retry, HandlerRecord
    <3> HIDE DEF h
    <3> QED BY <1>3, <3>1
  <2>4. CASE Prepare(q)
    <3> DEFINE n == handler[q].mine.run
               saved == IF handler[q].op = "resume"
                        THEN [status |-> run[n].status, retry |-> run[n].retry] ELSE NoSaved
               h == [handler[q] EXCEPT !.at = "change", !.run = n, !.mine = Queued,
                                       !.missing = {}, !.saved = saved]
    <3>1. handler' = [handler EXCEPT ![q] = h]
      BY <2>4 DEF Prepare, Mine
    <3> HIDE DEF saved, n
    <3>2. h.mine = Queued
      BY <2>1 DEF HandlerRecord
    <3> HIDE DEF h
    <3> QED BY <1>3, <3>1, <3>2
  <2>5. CASE \E n \in Runs, preflight \in Preflights : Create(q, n, preflight)
    <3>1. PICK n \in Runs, preflight \in Preflights : Create(q, n, preflight)
      BY <2>5
    <3> DEFINE h == [handler[q] EXCEPT !.at = "enqueue", !.run = n, !.mine = Queued]
    <3>2. handler' = [handler EXCEPT ![q] = h] /\ h.mine = Queued
      BY <2>1, <3>1 DEF Create, HandlerRecord
    <3> HIDE DEF h
    <3> QED BY <1>3, <3>2
  <2> QED BY <1>7, <2>2, <2>3, <2>4, <2>5
<1>8. CASE Visit \/ ReadingStep \/ ReadingThrows
  BY <1>2, <1>4, <1>8 DEF ReadingThrows, ReadingStep, Visit, ReadRequest, ReadRun, Project, VisitEnds
<1>9. ASSUME NEW q \in Requests, CallStep(q) PROVE Goal
  <2>1. CASE Ends(q) \/ Record(q)
    BY <1>4, <2>1 DEF Ends, CallGivesUp, StartRefused, StartWaits, Cancel, ChangeRefused, ChangeFails,
                      CallThrows, Record
  <2>2. CASE Proceeds(q)
    BY <1>5, <1>6, <1>7, <2>2 DEF Proceeds, Pause, Resume, Enqueue, Load, LookForOwner, Dispatch, RollBack
  <2>3. CASE CallReads(q)
    BY <1>2, <2>3 DEF CallReads
  <2> QED BY <1>7, <1>9, <2>1, <2>2, <2>3 DEF CallStep, Ends, Proceeds
<1>10. ASSUME NEW q \in Requests, ScheduledStart(q) \/ CallThrows(q) \/ \E op \in Operations : Call(q, op)
       PROVE  Goal
  <2>1. CASE CallThrows(q)
    BY <1>4, <2>1 DEF CallThrows
  <2>2. CASE \E of \in Schedules : handler' = [handler EXCEPT ![q] = Started(of)]
    <3>1. PICK of \in Schedules : handler' = [handler EXCEPT ![q] = Started(of)]
      BY <2>2
    <3>2. Started(of).mine = Queued
      BY DEF Started, Idle
    <3> QED BY <1>3, <3>1, <3>2
  <2>3. CASE \E op \in Operations : Call(q, op)
    <3>1. PICK op \in Operations : handler' = [handler EXCEPT ![q] = [Idle EXCEPT !.op = op, !.at = "view"]]
      BY <2>3 DEF Call
    <3> DEFINE h == [Idle EXCEPT !.op = op, !.at = "view"]
    <3>2. h.mine = Queued
      BY DEF Idle
    <3> HIDE DEF h
    <3> QED BY <1>3, <3>1, <3>2 DEF h
  <2> QED BY <1>2, <1>10, <2>1, <2>2, <2>3 DEF ScheduledStart
<1>11. CASE Schedule \/ ScheduleStep
  <2>1. CASE ScheduleReturns
    BY <1>1, <2>1 DEF ScheduleReturns, HandlerRecord
  <2> QED BY <1>2, <1>11, <2>1 DEF Schedule, ScheduleStep, ScheduleReads, ScheduleGivesUp, ScheduleSelects
<1>12. ASSUME NEW n \in Runs, SupervisorStep(n) \/ SupervisorThrows(n) PROVE Goal
  BY <1>2, <1>12 DEF SupervisorStep, SupervisorThrows, Supervise, StartRun, Reload, Advance, Conclude,
                    Exhaust, Leave, Supervised
<1>13. CASE Crash
  BY <1>1, <1>13 DEF Crash
<1>14. CASE UNCHANGED vars
  BY <1>2, <1>14 DEF vars
<1> QED BY <1>8, <1>9, <1>10, <1>11, <1>12, <1>13, <1>14 DEF Next

(* Whoever writes a request or remembers one takes it from another, leaves  *)
(* it free or gives it a status that is not "queued".                       *)
LEMMA StepKeepsFree == Inv /\ QueuedFree /\ [Next]_vars => QueuedFree'
<1> SUFFICES ASSUME Inv, QueuedFree, [Next]_vars PROVE QueuedFree'
  OBVIOUS
<1>1. Free(Queued)
  BY DEF Free, Queued
<1>2. \A r \in Requests : Free(request'[r])
  <2>1. CASE UNCHANGED request
    BY <2>1 DEF QueuedFree
  <2>2. ASSUME NEW r \in Requests, NEW w, Free(w), request' = [request EXCEPT ![r] = w]
        PROVE  \A q \in Requests : Free(request'[q])
    BY <2>2 DEF QueuedFree, Inv, TypeOK
  <2>3. CASE \E r \in Requests : StartWaits(r) \/ Cancel(r)
    <3>1. CASE UNCHANGED request
      BY <2>1, <3>1
    <3>2. CASE \E r \in Requests, status \in {"waiting", "cancelled"} :
                 request' = [request EXCEPT ![r].status = status]
      <4>1. PICK r \in Requests, status \in {"waiting", "cancelled"} :
              request' = [request EXCEPT ![r].status = status]
        BY <3>2
      <4> DEFINE w == [request[r] EXCEPT !.status = status]
      <4>2. w.status = status
        BY DEF Inv, TypeOK, WorkRequest
      <4>3. Free(w) /\ request' = [request EXCEPT ![r] = w]
        BY <4>1, <4>2 DEF Free
      <4> HIDE DEF w
      <4> QED BY <2>2, <4>3
    <3> QED BY <2>3, <3>1, <3>2 DEF StartWaits, Wait, Cancel
  <2>4. CASE \E r \in Requests : Record(r)
    <3>1. PICK r \in Requests : Record(r)
      BY <2>4
    <3> DEFINE w == [status |-> IF handler[r].op = "pause" \/ handler[r].outcome = "not-configured"
                                THEN "waiting" ELSE "running", run |-> handler[r].run]
    <3>2. Free(w) /\ request' = [request EXCEPT ![r] = w]
      BY <3>1 DEF Record, Free
    <3> HIDE DEF w
    <3> QED BY <2>2, <3>2
  <2>5. CASE Project
    <3>1. PICK w : w.status # "queued" /\ view.next \in Requests
                   /\ request' = [request EXCEPT ![view.next] = w]
      BY <2>5, Projected
    <3> QED BY <2>2, <3>1 DEF Free
  <2> QED BY <2>1, <2>3, <2>4, <2>5, Writers
<1>3. \A r \in Requests : Free(view'.seen[r])
  <2>1. CASE UNCHANGED view
    BY <2>1 DEF QueuedFree
  <2>2. CASE view' = NoView
    BY <1>1, <2>2 DEF NoView
  <2>3. CASE \E who \in Requests \cup {Visitor, Scheduler} : BeginReading(who)
    BY <2>3 DEF BeginReading, NoView, QueuedFree
  <2>4. CASE ReadRequest
    BY <2>4, ReadsRequest DEF QueuedFree, Inv, TypeOK, ViewRecord
  <2>5. CASE ReadRun
    BY <2>5, ReadsRun DEF QueuedFree
  <2>6. CASE Project
    <3>1. PICK w : w.status # "queued" /\ view.next \in Requests
                   /\ view'.seen = [view.seen EXCEPT ![view.next] = w]
      BY <2>6, Projected
    <3> QED BY <3>1 DEF Free, QueuedFree, Inv, TypeOK, ViewRecord
  <2> QED BY <2>1, <2>2, <2>3, <2>4, <2>5, <2>6, Readers
<1>4. \A r \in Requests : Free(handler'[r].mine)
  <2> SUFFICES ASSUME NEW r \in Requests PROVE Free(handler'[r].mine)
    OBVIOUS
  <2>1. handler'[r].mine \in {handler[r].mine, Queued, view.seen[r]}
    BY Rememberers
  <2> QED BY <1>1, <2>1 DEF QueuedFree
<1> QED BY <1>2, <1>3, <1>4 DEF QueuedFree

LEMMA Invariant == Spec => [](Inv /\ QueuedFree)
<1>1. Init => QueuedFree
  BY DEF Init, QueuedFree, Free, NoView, Idle, Queued
<1> QED BY <1>1, InitOK, StepKeeps, StepKeepsFree, PTL DEF Spec

(* Every record the calls, the readings and the runtime of a project write  *)
(* is one the stores accept, however they interleave.                       *)
THEOREM QueueTyped == Spec => []TypeOK
<1>1. Inv => TypeOK
  BY DEF Inv
<1> QED BY <1>1, Invariant, PTL

LEMMA StepKeepsLinks ==
  ASSUME Inv, [Next]_vars, NEW r \in Requests, request[r].run # NoRun
  PROVE  request'[r].run = request[r].run
<1>1. CASE UNCHANGED request
  BY <1>1
<1>2. CASE Project
  BY <1>2, ProjectKeeps
<1>3. ASSUME NEW q \in Requests, StartWaits(q) \/ Cancel(q) PROVE request'[r].run = request[r].run
  <2>1. CASE UNCHANGED request
    BY <2>1
  <2>2. CASE \E status \in {"waiting", "cancelled"} : request' = [request EXCEPT ![q].status = status]
    BY <2>2, StatusSet DEF RequestStatuses, Inv
  <2> QED BY <1>3, <2>1, <2>2 DEF StartWaits, Wait, Cancel
<1>4. ASSUME NEW q \in Requests, Record(q) PROVE request'[r].run = request[r].run
  <2>1. request[q].run \in {NoRun, handler[q].run}
    BY <1>4, ChosenRun DEF Record, Chosen
  <2> QED BY <1>4, <2>1 DEF Record, Inv, TypeOK
<1> QED BY <1>1, <1>2, <1>3, <1>4, Writers

(* startProjectRun, retryProjectRun and the projection of getProject each   *)
(* write a status and a link they decided upon from an earlier reading:     *)
(* none of them takes a request from the run another has linked it to.      *)
THEOREM LinksKept == Spec => LinkKept
<1>1. Inv /\ [Next]_vars => [\A r \in Requests : request[r].run # NoRun => request'[r].run = request[r].run]_request
  BY StepKeepsLinks
<1> QED BY <1>1, Invariant, PTL DEF Spec, LinkKept
----------------------------------------------------------------------------
(* Where no call and no process fails half-way: for any number of requests,  *)
(* runs and calls, a request gets one run, and a cancelled one gets none.    *)

(* A run that was created is linked to its request, or the call that        *)
(* created it is still under way and is about to link it.                   *)
Owned ==
  \A n \in Runs : Created(n) =>
    LET r == run[n].for IN
      request[r].run = n \/ (handler[r].at \in Chosen /\ handler[r].run = n)

(* A call that changes a run has it from the link of its request.           *)
Changes == \A r \in Requests : handler[r].at = "change" => request[r].run = handler[r].run

(* What a call has read of a request without a run is still the request.    *)
Fresh ==
  \A r \in Requests :
    /\ handler[r].at = "decide" => request[r].run # NoRun \/ handler[r].mine = request[r]
    /\ view.by = r /\ r < view.next => request[r].run # NoRun \/ view.seen[r] = request[r]

CancelledFree ==
  \A r \in Requests :
    request[r].status = "cancelled" => request[r].run = NoRun /\ handler[r].at \notin Chosen

(* Runs that are supervised, chosen or linked exist.                        *)
Real ==
  /\ \A n \in Runs : supervisor[n] # "none" => Created(n)
  /\ \A r \in Requests : handler[r].at \in Chosen => Created(handler[r].run)
  /\ \A r \in Requests : request[r].run # NoRun => Created(request[r].run)

(* What a rollback restores is the status of a run that exists.             *)
SavedOf(h) ==
  /\ h.at \in {"enqueue", "load", "owner", "dispatch"} => h.op = "start" \/ h.saved.status # "absent"
  /\ h.at = "rollback" => h.saved.status # "absent"
  /\ h.at = "change" /\ h.op = "resume" => h.saved.status # "absent"

SavedReal == \A r \in Requests : SavedOf(handler[r])

RunsInv == Owned /\ Changes /\ Fresh /\ CancelledFree /\ Real /\ SavedReal

Known == Inv /\ QueuedFree /\ RunsInv
----------------------------------------------------------------------------
(* A step after which there has been no fault is none itself.               *)
Faultless == ~Crash /\ ~ReadingThrows /\ \A r \in Requests : ~CallThrows(r)

LEMMA NoFaults ==
  ASSUME faults' = 0, Inv
  PROVE  Faultless /\ \A n \in Runs : ~SupervisorThrows(n)
<1>1. faults \in Nat
  BY QueueAssumption DEF Inv, TypeOK
<1> QED BY <1>1 DEF Crash, ReadingThrows, CallThrows, SupervisorThrows, Faultless

(* What a step does to the call of a request.                               *)
Unmoved(r) ==
  /\ handler'[r].at = handler[r].at /\ handler'[r].run = handler[r].run
  /\ handler'[r].mine = handler[r].mine /\ handler'[r].op = handler[r].op
  /\ handler'[r].saved = handler[r].saved /\ handler'[r].missing = handler[r].missing

Chooses(r) == Prepare(r) \/ \E n \in Runs, preflight \in Preflights : Create(r, n, preflight)

LEMMA CallHistoryFaultless ==
  ASSUME Faultless, Inv, [Next]_vars, NEW r \in Requests
  PROVE  \/ Unmoved(r)
         \/ handler'[r].at \in {"idle", "view"} /\ handler[r].at \notin Chosen
         \/ CallHasRead(r) \/ Chooses(r) \/ Proceeds(r) \/ Record(r) \/ ChangeFails(r)
<1> DEFINE Goal == \/ Unmoved(r)
                   \/ handler'[r].at \in {"idle", "view"} /\ handler[r].at \notin Chosen
                   \/ CallHasRead(r) \/ Chooses(r) \/ Proceeds(r) \/ Record(r) \/ ChangeFails(r)
<1>1. CASE UNCHANGED handler
  BY <1>1 DEF Unmoved
<1>2. ASSUME NEW q \in Requests \ {r}, NEW h, handler' = [handler EXCEPT ![q] = h] PROVE Goal
  BY <1>2 DEF Unmoved, Inv, TypeOK
<1>3. ASSUME NEW h, h.at \in {"idle", "view"}, handler[r].at \notin Chosen, handler' = [handler EXCEPT ![r] = h]
      PROVE  Goal
  BY <1>3 DEF Inv, TypeOK
<1>4. Idle.at = "idle"
  BY DEF Idle
<1>5. CASE Visit \/ ReadingStep
  BY <1>1, <1>5 DEF ReadingStep, Visit, ReadRequest, ReadRun, Project, VisitEnds
<1>6. ASSUME NEW q \in Requests \ {r}, CallStep(q) PROVE Goal
  <2>1. CASE Return(q) \/ Reject(q)
    BY <1>2, <2>1 DEF Return, Reject
  <2>2. CASE \E step : Go(q, step)
    BY <1>6, <2>2 DEF Go, Unmoved, Inv, TypeOK
  <2>3. CASE \E outcome : Answer(q, outcome)
    BY <1>6, <2>3 DEF Answer, Unmoved, Inv, TypeOK
  <2>4. CASE CallHasRead(q) \/ Retry(q) \/ Chooses(q)
    BY <1>6, <2>4 DEF CallHasRead, Retry, Chooses, Prepare, Create, Unmoved, Inv, TypeOK
  <2>5. CASE CallReads(q)
    BY <1>1, <2>5 DEF CallReads
  <2> QED BY <1>6, <2>1, <2>2, <2>3, <2>4, <2>5
          DEF CallStep, Chooses, CallGivesUp, StartRefused, StartWaits, Cancel, ChangeRefused, Pause,
              Resume, ChangeFails, Enqueue, Load, LookForOwner, Dispatch, RollBack, Record
<1>7. CASE CallStep(r)
  <2>1. CASE CallReads(r)
    BY <1>1, <2>1 DEF CallReads
  <2>2. CASE CallGivesUp(r) \/ StartRefused(r) \/ StartWaits(r) \/ Cancel(r) \/ ChangeRefused(r)
    <3>1. handler' = [handler EXCEPT ![r] = Idle]
      BY <2>2 DEF CallGivesUp, StartRefused, StartWaits, Cancel, ChangeRefused, Return, Reject
    <3>2. handler[r].at \notin Chosen
      BY <2>2 DEF CallGivesUp, StartRefused, StartWaits, Cancel, ChangeRefused, Deciding, Chosen
    <3>3. handler'[r] = Idle
      BY <3>1 DEF Inv, TypeOK
    <3> QED BY <1>4, <3>2, <3>3
  <2> QED BY <1>7, <2>1, <2>2 DEF CallStep, Chooses, Proceeds
<1>8. ASSUME NEW q \in Requests, ScheduledStart(q) \/ \E op \in Operations : Call(q, op)
      PROVE  Goal
  <2>1. CASE UNCHANGED handler
    BY <1>1, <2>1
  <2>2. ASSUME NEW h, h.at = "view", handler[q].at = "idle", handler' = [handler EXCEPT ![q] = h]
        PROVE  Goal
    <3>1. CASE q = r
      BY <1>3, <2>2, <3>1 DEF Chosen
    <3>2. CASE q # r
      BY <1>2, <2>2, <3>2
    <3> QED BY <3>1, <3>2
  <2>3. CASE ScheduledStart(q)
    <3>1. CASE \E of \in Schedules : handler[q].at = "idle" /\ handler' = [handler EXCEPT ![q] = Started(of)]
      <4>1. PICK of \in Schedules : handler[q].at = "idle" /\ handler' = [handler EXCEPT ![q] = Started(of)]
        BY <3>1
      <4>2. Started(of).at = "view"
        BY DEF Started, Idle
      <4> QED BY <2>2, <4>1, <4>2
    <3> QED BY <2>1, <2>3, <3>1 DEF ScheduledStart
  <2>4. CASE \E op \in Operations : Call(q, op)
    <3>1. PICK op \in Operations : Call(q, op)
      BY <2>4
    <3> DEFINE h == [Idle EXCEPT !.op = op, !.at = "view"]
    <3>2. h.at = "view"
      BY DEF Idle
    <3>3. handler[q].at = "idle" /\ handler' = [handler EXCEPT ![q] = h]
      BY <3>1 DEF Call
    <3> HIDE DEF h
    <3> QED BY <2>2, <3>2, <3>3
  <2> QED BY <1>8, <2>3, <2>4
<1>9. CASE Schedule \/ ScheduleStep
  <2>1. CASE ScheduleReturns
    <3>1. handler[r] \in HandlerRecord /\ handler'[r] = [handler[r] EXCEPT !.caller = "owner"]
      BY <2>1 DEF ScheduleReturns, Inv, TypeOK
    <3> QED BY <3>1 DEF Unmoved, HandlerRecord
  <2> QED BY <1>1, <1>9, <2>1 DEF Schedule, ScheduleStep, ScheduleReads, ScheduleGivesUp, ScheduleSelects
<1>10. ASSUME NEW n \in Runs, SupervisorStep(n) \/ SupervisorThrows(n) PROVE Goal
  BY <1>1, <1>10 DEF SupervisorStep, SupervisorThrows, Supervise, StartRun, Reload, Advance, Conclude,
                    Exhaust, Leave, Supervised
<1>11. CASE UNCHANGED vars
  BY <1>1, <1>11 DEF vars
<1> QED BY <1>5, <1>6, <1>7, <1>8, <1>9, <1>10, <1>11 DEF Next, Faultless

LEMMA CallHistory ==
  ASSUME faults' = 0, Inv, [Next]_vars, NEW r \in Requests
  PROVE  \/ Unmoved(r)
         \/ handler'[r].at \in {"idle", "view"} /\ handler[r].at \notin Chosen
         \/ CallHasRead(r) \/ Chooses(r) \/ Proceeds(r) \/ Record(r) \/ ChangeFails(r)
BY CallHistoryFaultless, NoFaults

(* The call of a request that has chosen its run keeps it, and links it     *)
(* before it returns.                                                       *)
LEMMA ProceedsOn ==
  ASSUME Inv, NEW r \in Requests, Proceeds(r)
  PROVE  /\ handler[r].at \in Chosen /\ handler'[r].run = handler[r].run
         /\ handler'[r].at \in Chosen \ {"change"}
<1>1. handler[r].at \in Chosen
  BY DEF Proceeds, Pause, Resume, Retry, Enqueue, Load, LookForOwner, Dispatch, RollBack,
         Changing, Chosen
<1>2. CASE \E step \in {"record", "enqueue", "load", "owner", "dispatch"} : Go(r, step)
  BY <1>1, <1>2, HandlerGoes DEF HandlerSteps, Chosen, Inv
<1>3. CASE \E outcome \in Outcomes : Answer(r, outcome)
  BY <1>1, <1>3, HandlerAnswers DEF Chosen, Inv
<1>4. CASE Retry(r)
  <2>1. handler[r] \in HandlerRecord
    BY DEF Inv, TypeOK
  <2> QED BY <1>1, <1>4, <2>1 DEF Retry, HandlerRecord, Inv, TypeOK, Chosen
<1> QED BY <1>2, <1>3, <1>4 DEF Proceeds, Pause, Resume, Enqueue, Load, LookForOwner, Dispatch,
                                RollBack, Outcomes

LEMMA ChosenStays ==
  ASSUME faults' = 0, Known, [Next]_vars, NEW r \in Requests, handler[r].at \in Chosen
  PROVE  \/ handler'[r].at \in Chosen /\ handler'[r].run = handler[r].run
         \/ request'[r].run = handler[r].run
<1>1. CASE Unmoved(r)
  BY <1>1 DEF Unmoved
<1>2. CASE Proceeds(r)
  BY <1>2, ProceedsOn DEF Known
<1>3. CASE Record(r)
  BY <1>3 DEF Record, Known, Inv, TypeOK
<1>4. CASE ChangeFails(r)
  BY <1>4 DEF ChangeFails, Changing, Known, RunsInv, Changes
<1>5. ~CallHasRead(r) /\ ~Chooses(r)
  <2>1. handler[r].at # "view" /\ handler[r].at # "decide"
    BY DEF Chosen
  <2> QED BY <2>1 DEF CallHasRead, Chooses, Prepare, Create, Deciding, Known, Inv, LinkInv, ReadingInv
<1> QED BY <1>1, <1>2, <1>3, <1>4, <1>5, CallHistory DEF Known

(* A call that chooses: what it has chosen, and that its request has no run *)
(* if the run is new.                                                       *)
LEMMA ChoosesExisting ==
  ASSUME Known, NEW r \in Requests, Prepare(r)
  PROVE  /\ handler'[r].at = "change" /\ handler'[r].run = request[r].run
         /\ request[r].run # NoRun /\ UNCHANGED <<request, run, supervisor>>
<1>1. handler[r] \in HandlerRecord /\ handler[r].mine.run = request[r].run
  BY DEF Known, Inv, TypeOK, LinkInv, CallInv, Prepare
<1>2. handler'[r].at = "change" /\ handler'[r].run = request[r].run
  BY <1>1 DEF Prepare, Mine, Known, Inv, TypeOK, HandlerRecord
<1> QED BY <1>1, <1>2 DEF Prepare, MayChange, Linked, Mine

LEMMA ChoosesNew ==
  ASSUME Known, NEW r \in Requests, NEW n \in Runs, NEW preflight \in Preflights,
         Create(r, n, preflight)
  PROVE  /\ handler'[r].at = "enqueue" /\ handler'[r].run = n /\ handler'[r].op = "start"
         /\ handler[r].at = "decide" /\ request[r].run = NoRun /\ request[r].status # "cancelled"
         /\ ~Created(n) /\ run'[n].for = r /\ Created(n)'
         /\ \A m \in Runs \ {n} : run'[m] = run[m]
         /\ UNCHANGED <<request, supervisor>>
<1>1. handler[r] \in HandlerRecord
  BY DEF Known, Inv, TypeOK
<1>2. handler'[r].at = "enqueue" /\ handler'[r].run = n /\ handler'[r].op = "start"
  BY <1>1 DEF Create, Deciding, Known, Inv, TypeOK, HandlerRecord
<1>3. handler[r].at = "decide" /\ handler[r].mine.run = NoRun
  BY DEF Create, Deciding, MayStart, Linked, Mine, Known, QueuedFree, Free
<1>4. request[r].run = NoRun
  BY <1>3 DEF Known, Inv, LinkInv, CallInv
<1>5. handler[r].mine = request[r]
  BY <1>3, <1>4 DEF Known, RunsInv, Fresh
<1>6. request[r].status # "cancelled"
  BY <1>5 DEF Create, MayStart, Mine
<1>7. run' = [run EXCEPT ![n] = [status |-> IF preflight = "ready" THEN "READY" ELSE "WAITING",
                                 retry |-> "none", cycle |-> 0,
                                 preflight |-> preflight, for |-> r]]
  BY DEF Create
<1>8. run'[n].for = r /\ run'[n].status # "absent" /\ \A m \in Runs \ {n} : run'[m] = run[m]
  BY <1>7 DEF Known, Inv, TypeOK
<1> QED BY <1>2, <1>3, <1>4, <1>6, <1>8 DEF Create, Created
----------------------------------------------------------------------------
(* Only a start creates a run; nobody removes one or gives it to another    *)
(* request.                                                                 *)
Kept(n) == (Created(n)' <=> Created(n)) /\ (Created(n) => run'[n].for = run[n].for)

LEMMA RunHistory ==
  ASSUME Known, [Next]_vars
  PROVE  \/ \A n \in Runs : Kept(n)
         \/ \E r \in Requests, n \in Runs, preflight \in Preflights : Create(r, n, preflight)
<1> DEFINE Goal == \/ \A n \in Runs : Kept(n)
                   \/ \E r \in Requests, n \in Runs, preflight \in Preflights : Create(r, n, preflight)
<1>1. CASE UNCHANGED run
  BY <1>1 DEF Kept, Created
<1>2. ASSUME NEW m \in Runs, Created(m), NEW x, x.status # "absent", x.for = run[m].for,
             run' = [run EXCEPT ![m] = x]
      PROVE  Goal
  BY <1>2 DEF Kept, Created, Known, Inv, TypeOK
<1>3. ASSUME NEW r \in Requests, Proceeds(r) PROVE Goal
  <2> DEFINE m == handler[r].run
  <2>1. handler[r].at \in Chosen
    BY <1>3, ProceedsOn DEF Known
  <2>2. m \in Runs /\ Created(m) /\ run[m] \in RunRecord
    BY <2>1, ChosenRun DEF Known, RunsInv, Real, Inv, TypeOK
  <2>3. CASE \E status \in {"PAUSED", "READY"} : run' = [run EXCEPT ![m].status = status]
    <3>1. PICK status \in {"PAUSED", "READY"} : run' = [run EXCEPT ![m].status = status]
      BY <2>3
    <3> DEFINE x == [run[m] EXCEPT !.status = status]
    <3>2. x.status # "absent" /\ x.for = run[m].for /\ run' = [run EXCEPT ![m] = x]
      BY <2>2, <3>1 DEF RunRecord
    <3> HIDE DEF x, m
    <3> QED BY <1>2, <2>2, <3>2
  <2>4. CASE Retry(r)
    <3> DEFINE x == [run[m] EXCEPT !.status = "READY", !.retry = "active", !.cycle = @ + 1]
    <3>1. x.status # "absent" /\ x.for = run[m].for /\ run' = [run EXCEPT ![m] = x]
      BY <2>2, <2>4 DEF RunRecord, Retry
    <3> HIDE DEF x, m
    <3> QED BY <1>2, <2>2, <3>1
  <2>5. CASE RollBack(r)
    <3> DEFINE x == [run[m] EXCEPT !.status = handler[r].saved.status, !.retry = handler[r].saved.retry]
    <3>1. handler[r].saved.status # "absent"
      BY <2>5 DEF RollBack, Known, RunsInv, SavedReal, SavedOf
    <3>2. x.status # "absent" /\ x.for = run[m].for /\ run' = [run EXCEPT ![m] = x]
      BY <2>2, <2>5, <3>1 DEF RunRecord, RollBack
    <3> HIDE DEF x, m
    <3> QED BY <1>2, <2>2, <3>2
  <2> QED BY <1>1, <1>3, <2>3, <2>4, <2>5
          DEF Proceeds, Pause, Resume, Enqueue, Load, LookForOwner, Dispatch
<1>4. ASSUME NEW r \in Requests, CallStep(r) PROVE Goal
  BY <1>1, <1>3, <1>4
     DEF CallStep, Proceeds, CallReads, CallHasRead, CallGivesUp, StartRefused, StartWaits, Cancel,
         Prepare, ChangeRefused, ChangeFails, Record
<1>5. ASSUME NEW m \in Runs, SupervisorStep(m) \/ SupervisorThrows(m) PROVE Goal
  <2>1. CASE UNCHANGED run
    BY <1>1, <2>1
  <2>2. ASSUME NEW status \in RunStatuses \ {"absent"}, Write(m, status), supervisor[m] # "none"
        PROVE  Goal
    <3> DEFINE x == [run[m] EXCEPT !.status = status,
                                   !.retry = IF status = "FAILED_FINAL" /\ @ = "active"
                                             THEN "completed" ELSE @]
    <3>1. Created(m) /\ run[m] \in RunRecord
      BY <2>2 DEF Known, RunsInv, Real, Inv, TypeOK
    <3>2. x.status # "absent" /\ x.for = run[m].for /\ run' = [run EXCEPT ![m] = x]
      BY <2>2, <3>1 DEF RunRecord, Write
    <3> HIDE DEF x
    <3> QED BY <1>2, <3>1, <3>2
  <2> QED BY <1>5, <2>1, <2>2 DEF SupervisorStep, SupervisorThrows, Supervise, StartRun, Reload, Advance,
                                  Conclude, Exhaust, Leave, RunStatuses
<1>6. CASE Visit \/ ReadingStep \/ ReadingThrows \/ Schedule \/ ScheduleStep
  BY <1>1, <1>6 DEF ReadingStep, Visit, ReadRequest, ReadRun, Project, VisitEnds, ReadingThrows, Schedule,
                   ScheduleStep, ScheduleReads, ScheduleGivesUp, ScheduleSelects, ScheduleReturns
<1>7. ASSUME NEW r \in Requests, ScheduledStart(r) \/ CallThrows(r) \/ \E op \in Operations : Call(r, op)
      PROVE  Goal
  BY <1>1, <1>7 DEF ScheduledStart, CallThrows, Call
<1>8. CASE Crash \/ UNCHANGED vars
  BY <1>1, <1>8 DEF Crash, vars
<1> QED BY <1>4, <1>5, <1>6, <1>7, <1>8 DEF Next

LEMMA CreatedStays ==
  ASSUME Known, [Next]_vars, NEW n \in Runs, Created(n)
  PROVE  Created(n)'
<1>1. CASE \A m \in Runs : Kept(m)
  BY <1>1 DEF Kept
<1>2. ASSUME NEW r \in Requests, NEW m \in Runs, NEW preflight \in Preflights, Create(r, m, preflight)
      PROVE  Created(n)'
  <2>1. ~Created(m) /\ run'[n] = run[n]
    BY <1>2, ChoosesNew
  <2> QED BY <2>1 DEF Created
<1> QED BY <1>1, <1>2, RunHistory

(* What a step does to a request.                                           *)
LEMMA RequestHistory ==
  ASSUME Known, [Next]_vars, NEW r \in Requests
  PROVE  \/ request'[r] = request[r]
         \/ /\ request'[r].run # NoRun /\ request'[r].status # "cancelled"
            /\ Record(r) \/ request[r].run # NoRun
         \/ (StartWaits(r) \/ Cancel(r)) /\ request'[r].run = request[r].run
<1>1. CASE UNCHANGED request
  BY <1>1
<1>2. CASE Project
  <2>1. PICK w : /\ w.status # "cancelled" /\ w.run # NoRun /\ view.next \in Requests
                 /\ request' = [request EXCEPT ![view.next] = w]
    BY <1>2, Projected DEF Known
  <2>2. request'[r].run = request[r].run
    BY <1>2, ProjectKeeps DEF Known
  <2> QED BY <2>1, <2>2 DEF Known, Inv, TypeOK
<1>3. ASSUME NEW q \in Requests, Record(q)
      PROVE  \/ request'[r] = request[r]
             \/ request'[r].run # NoRun /\ request'[r].status # "cancelled" /\ Record(r)
  <2>1. handler[q].run # NoRun
    BY <1>3 DEF Record, Known, Inv, LinkInv, CallInv, Chosen
  <2> QED BY <1>3, <2>1 DEF Record, Known, Inv, TypeOK
<1>4. ASSUME NEW q \in Requests, StartWaits(q) \/ Cancel(q)
      PROVE  request'[r] = request[r] \/ (q = r /\ request'[r].run = request[r].run)
  <2>1. CASE UNCHANGED request
    BY <2>1
  <2>2. ASSUME NEW status \in {"waiting", "cancelled"}, request' = [request EXCEPT ![q].status = status]
        PROVE  request'[r] = request[r] \/ (q = r /\ request'[r].run = request[r].run)
    BY <2>2, StatusSet DEF RequestStatuses, Known, Inv, TypeOK
  <2> QED BY <1>4, <2>1, <2>2 DEF StartWaits, Wait, Cancel
<1> QED BY <1>1, <1>2, <1>3, <1>4, Writers

LEMMA CallLeaves ==
  ASSUME Known, NEW r \in Requests, StartWaits(r) \/ Cancel(r) \/ Record(r) \/ ChangeFails(r)
  PROVE  handler'[r].at = "idle"
<1>1. handler' = [handler EXCEPT ![r] = Idle]
  BY DEF StartWaits, Cancel, Record, ChangeFails, Return, Reject
<1>2. handler'[r] = Idle
  BY <1>1 DEF Known, Inv, TypeOK
<1> QED BY <1>2 DEF Idle

LEMMA CallReadsMine ==
  ASSUME Known, NEW r \in Requests, CallHasRead(r)
  PROVE  /\ handler'[r].at = "decide" /\ handler'[r].mine = view.seen[r]
         /\ view.by = r /\ r < view.next /\ UNCHANGED request
<1>1. handler[r] \in HandlerRecord /\ view.by = r /\ view.next = N + 1 /\ UNCHANGED request
  BY DEF Known, Inv, TypeOK, CallHasRead, EndReading
<1>2. r < view.next
  BY <1>1, Constants DEF Requests
<1> DEFINE missing == Incomplete(r, view.seen)
           h == [handler[r] EXCEPT !.at = "decide", !.mine = view.seen[r], !.missing = missing]
<1>3. handler' = [handler EXCEPT ![r] = h]
  BY DEF CallHasRead
<1> HIDE DEF missing
<1>4. h.at = "decide" /\ h.mine = view.seen[r]
  BY <1>1 DEF HandlerRecord
<1> HIDE DEF h
<1> QED BY <1>1, <1>2, <1>3, <1>4 DEF Known, Inv, TypeOK
----------------------------------------------------------------------------
LEMMA OwnedStays == faults' = 0 /\ Known /\ [Next]_vars => Owned'
<1> SUFFICES ASSUME faults' = 0, Known, [Next]_vars, NEW n \in Runs, Created(n)'
             PROVE  LET r == run'[n].for IN
                      request'[r].run = n \/ (handler'[r].at \in Chosen /\ handler'[r].run = n)
  BY DEF Owned, Chosen, Created
<1> DEFINE r == run[n].for
<1>1. ASSUME Created(n), run'[n].for = r
      PROVE  request'[r].run = n \/ (handler'[r].at \in Chosen /\ handler'[r].run = n)
  <2>1. r \in Requests
    BY DEF Known, Inv, TypeOK, RunRecord
  <2>2. request[r].run = n \/ (handler[r].at \in Chosen /\ handler[r].run = n)
    BY <1>1 DEF Known, RunsInv, Owned
  <2> HIDE DEF r
  <2>3. CASE request[r].run = n
    BY <2>1, <2>3, StepKeepsLinks, Constants DEF Known
  <2>4. CASE handler[r].at \in Chosen /\ handler[r].run = n
    BY <2>1, <2>4, ChosenStays
  <2> QED BY <2>2, <2>3, <2>4
<1>2. CASE \A m \in Runs : Kept(m)
  BY <1>1, <1>2 DEF Kept
<1>3. ASSUME NEW q \in Requests, NEW m \in Runs, NEW preflight \in Preflights, Create(q, m, preflight)
      PROVE  \/ Created(n) /\ run'[n].for = r
             \/ run'[n].for = q /\ handler'[q].at \in Chosen /\ handler'[q].run = n
  <2>1. CASE n = m
    BY <1>3, <2>1, ChoosesNew DEF Chosen
  <2>2. CASE n # m
    <3>1. run'[n] = run[n]
      BY <1>3, <2>2, ChoosesNew
    <3> QED BY <3>1 DEF Created
  <2> QED BY <2>1, <2>2
<1> QED BY <1>1, <1>2, <1>3, RunHistory

LEMMA ChangesStay == faults' = 0 /\ Known /\ [Next]_vars => Changes'
<1> SUFFICES ASSUME faults' = 0, Known, [Next]_vars, NEW r \in Requests, handler'[r].at = "change"
             PROVE  request'[r].run = handler'[r].run
  BY DEF Changes
<1>1. CASE Unmoved(r)
  <2>1. request[r].run = handler[r].run /\ handler[r].run # NoRun
    BY <1>1 DEF Unmoved, Known, RunsInv, Changes, Inv, LinkInv, CallInv, Chosen
  <2> QED BY <1>1, <2>1, StepKeepsLinks DEF Unmoved, Known
<1>2. CASE Prepare(r)
  BY <1>2, ChoosesExisting
<1>3. ~CallHasRead(r) /\ ~Proceeds(r) /\ ~Record(r) /\ ~ChangeFails(r)
  BY CallReadsMine, ProceedsOn, CallLeaves DEF Known
<1>4. ~\E n \in Runs, preflight \in Preflights : Create(r, n, preflight)
  BY ChoosesNew
<1> QED BY <1>1, <1>2, <1>3, <1>4, CallHistory DEF Known, Chooses

LEMMA FreshStays == faults' = 0 /\ Known /\ [Next]_vars => Fresh'
<1> SUFFICES ASSUME faults' = 0, Known, [Next]_vars, NEW r \in Requests
             PROVE  /\ handler'[r].at = "decide" => request'[r].run # NoRun \/ handler'[r].mine = request'[r]
                    /\ view'.by = r /\ r < view'.next => request'[r].run # NoRun \/ view'.seen[r] = request'[r]
  BY DEF Fresh
<1> USE DEF Known
<1>1. ASSUME handler'[r].at = "decide"
      PROVE  request'[r].run # NoRun \/ handler'[r].mine = request'[r]
  <2>1. CASE Unmoved(r)
    <3>1. request[r].run # NoRun \/ handler[r].mine = request[r]
      BY <1>1, <2>1 DEF Unmoved, RunsInv, Fresh
    <3>2. ~(StartWaits(r) \/ Cancel(r))
      BY <1>1, CallLeaves
    <3> QED BY <2>1, <3>1, <3>2, RequestHistory, StepKeepsLinks DEF Unmoved
  <2>2. CASE CallHasRead(r)
    <3>1. request[r].run # NoRun \/ view.seen[r] = request[r]
      BY <2>2, CallReadsMine DEF RunsInv, Fresh
    <3> QED BY <2>2, <3>1, CallReadsMine
  <2>3. ~Proceeds(r) /\ ~Record(r) /\ ~ChangeFails(r)
    BY <1>1, ProceedsOn, CallLeaves DEF Chosen
  <2>4. ~Chooses(r)
    BY <1>1, ChoosesExisting, ChoosesNew DEF Chooses
  <2> QED BY <1>1, <2>1, <2>2, <2>3, <2>4, CallHistory
<1>2. ASSUME view'.by = r, r < view'.next
      PROVE  request'[r].run # NoRun \/ view'.seen[r] = request'[r]
  <2>1. view.next \in Nat /\ r \in Nat /\ view.seen \in [Requests -> WorkRequest]
    BY QueueAssumption DEF Inv, TypeOK, ViewRecord, Requests
  <2>2. r < view.next /\ view.by = r => request[r].run # NoRun \/ view.seen[r] = request[r]
    BY DEF RunsInv, Fresh
  <2>3. CASE UNCHANGED view
    <3>1. handler[r].at = "view"
      BY <1>2, <2>3 DEF Inv, LinkInv, ReadingInv
    <3>2. ~StartWaits(r) /\ ~Cancel(r)
      BY <3>1 DEF StartWaits, Cancel, Deciding
    <3> QED BY <1>2, <2>2, <2>3, <3>2, RequestHistory, StepKeepsLinks
  <2>4. CASE view' = NoView
    BY <1>2, <2>4, Constants DEF NoView
  <2>5. CASE ReadRequest
    BY <1>2, <2>1, <2>2, <2>5, ReadsRequest
  <2>6. CASE ReadRun
    <3>1. view.seen[view.next].run # NoRun => view.seen[view.next].run = request[view.next].run
      BY <2>6, ReadsRun DEF Inv, LinkInv, ReadingInv, SeenLinks
    <3> QED BY <1>2, <2>1, <2>2, <2>6, <3>1, ReadsRun
  <2>7. CASE Project
    <3>1. PICK w : /\ w.run # NoRun /\ view.next \in Requests
                   /\ view'.by = view.by /\ view'.next = view.next + 1
                   /\ request' = [request EXCEPT ![view.next] = w]
                   /\ view'.seen = [view.seen EXCEPT ![view.next] = w]
      BY <2>7, Projected
    <3> QED BY <1>2, <2>1, <2>2, <3>1 DEF Inv, TypeOK
  <2>8. CASE UNCHANGED request /\ \E who \in Requests \cup {Visitor, Scheduler} : BeginReading(who)
    BY <2>8 DEF BeginReading, NoView
  <2> QED BY <2>3, <2>4, <2>5, <2>6, <2>7, <2>8, Readers
<1> QED BY <1>1, <1>2

LEMMA CancelledStays == faults' = 0 /\ Known /\ [Next]_vars => CancelledFree'
<1> SUFFICES ASSUME faults' = 0, Known, [Next]_vars,
                    NEW r \in Requests, request'[r].status = "cancelled"
             PROVE  request'[r].run = NoRun /\ handler'[r].at \notin Chosen
  BY DEF CancelledFree, Chosen
<1> USE DEF Known
<1>1. CASE request'[r] = request[r]
  <2>1. request[r].run = NoRun /\ handler[r].at \notin Chosen
    BY <1>1 DEF RunsInv, CancelledFree
  <2>2. ~Proceeds(r) /\ ~Record(r) /\ ~ChangeFails(r)
    BY <2>1, ProceedsOn DEF Record, ChangeFails, Changing, Chosen
  <2>3. ~Chooses(r)
    BY <1>1, <2>1, ChoosesExisting, ChoosesNew DEF Chooses
  <2>4. CallHasRead(r) => handler'[r].at = "decide"
    BY CallReadsMine
  <2> QED BY <1>1, <2>1, <2>2, <2>3, <2>4, CallHistory DEF Unmoved, Chosen
<1>2. CASE StartWaits(r)
  <2>1. request'[r].status = "waiting"
    BY <1>2 DEF StartWaits, Wait, Inv, TypeOK, WorkRequest
  <2> QED BY <2>1
<1>3. CASE Cancel(r) /\ request'[r].run = request[r].run
  <2>1. CASE UNCHANGED request
    BY <1>1, <2>1
  <2>2. CASE handler[r].mine.status = "queued"
    <3>1. request[r].run = NoRun
      BY <1>3, <2>2 DEF Cancel, Deciding, QueuedFree, Free, Inv, LinkInv, CallInv
    <3> QED BY <1>3, <3>1, CallLeaves DEF Chosen
  <2> QED BY <1>3, <2>1, <2>2 DEF Cancel, Mine
<1> QED BY <1>1, <1>2, <1>3, RequestHistory

(* Who is supervised after a step was before, or has just been dispatched.  *)
LEMMA Supervisors ==
  ASSUME Inv, [Next]_vars, NEW n \in Runs, supervisor'[n] # "none"
  PROVE  supervisor[n] # "none" \/ \E r \in Requests : Dispatch(r) /\ handler[r].run = n
<1> DEFINE Goal == supervisor[n] # "none" \/ \E r \in Requests : Dispatch(r) /\ handler[r].run = n
<1>1. CASE UNCHANGED supervisor
  BY <1>1
<1>2. ASSUME NEW r \in Requests, Dispatch(r) PROVE Goal
  BY <1>2 DEF Dispatch, TypeOK, Inv
<1>3. ASSUME NEW r \in Requests, CallStep(r) PROVE Goal
  BY <1>1, <1>2, <1>3
     DEF CallStep, CallReads, CallHasRead, CallGivesUp, StartRefused, StartWaits, Create, Cancel,
         Prepare, ChangeRefused, Pause, Resume, Retry, ChangeFails, Enqueue, Load, LookForOwner,
         RollBack, Record
<1>4. ASSUME NEW m \in Runs, SupervisorStep(m) \/ SupervisorThrows(m) PROVE Goal
  <2>1. supervisor[m] # "none" /\ \E step : supervisor' = [supervisor EXCEPT ![m] = step]
    BY <1>4 DEF SupervisorStep, SupervisorThrows, Supervise, StartRun, Reload, Advance, Conclude,
                Exhaust, Leave, Supervised
  <2> QED BY <2>1 DEF Inv, TypeOK
<1>5. CASE Visit \/ ReadingStep \/ ReadingThrows \/ Schedule \/ ScheduleStep
  BY <1>1, <1>5 DEF ReadingStep, Visit, ReadRequest, ReadRun, Project, VisitEnds, ReadingThrows, Schedule,
                   ScheduleStep, ScheduleReads, ScheduleGivesUp, ScheduleSelects, ScheduleReturns
<1>6. ASSUME NEW r \in Requests, ScheduledStart(r) \/ CallThrows(r) \/ \E op \in Operations : Call(r, op)
      PROVE  Goal
  BY <1>1, <1>6 DEF ScheduledStart, CallThrows, Call
<1>7. CASE Crash \/ UNCHANGED vars
  BY <1>1, <1>7 DEF Crash, vars
<1> QED BY <1>3, <1>4, <1>5, <1>6, <1>7 DEF Next

LEMMA RealStays == faults' = 0 /\ Known /\ [Next]_vars => Real'
<1> SUFFICES ASSUME faults' = 0, Known, [Next]_vars PROVE Real'
  OBVIOUS
<1> USE DEF Known
<1>1. ASSUME NEW n \in Runs, supervisor'[n] # "none" PROVE Created(n)'
  <2>1. CASE supervisor[n] # "none"
    BY <2>1, CreatedStays DEF RunsInv, Real
  <2>2. ASSUME NEW r \in Requests, Dispatch(r), handler[r].run = n PROVE Created(n)'
    <3>1. handler[r].at \in Chosen
      BY <2>2 DEF Dispatch, Chosen
    <3> QED BY <2>2, <3>1, CreatedStays DEF RunsInv, Real
  <2> QED BY <1>1, <2>1, <2>2, Supervisors
<1>2. ASSUME NEW r \in Requests, handler'[r].at \in Chosen
      PROVE  run'[handler'[r].run].status # "absent"
  <2>1. CASE handler[r].at \in Chosen /\ handler'[r].run = handler[r].run
    <3>1. handler[r].run \in Runs /\ Created(handler[r].run)
      BY <2>1, ChosenRun DEF RunsInv, Real
    <3> QED BY <2>1, <3>1, CreatedStays DEF Created
  <2>2. CASE Prepare(r)
    <3>1. request[r].run # NoRun /\ handler'[r].run = request[r].run
      BY <2>2, ChoosesExisting
    <3>2. request[r].run \in Runs
      BY <3>1 DEF Inv, TypeOK, WorkRequest
    <3> QED BY <3>1, <3>2, CreatedStays DEF RunsInv, Real, Created
  <2>3. ASSUME NEW n \in Runs, NEW preflight \in Preflights, Create(r, n, preflight)
        PROVE  run'[handler'[r].run].status # "absent"
    BY <2>3, ChoosesNew DEF Created
  <2>4. ~CallHasRead(r) /\ ~Record(r) /\ ~ChangeFails(r)
    BY <1>2, CallReadsMine, CallLeaves DEF Chosen
  <2>5. handler'[r].at \notin {"idle", "view"}
    BY <1>2 DEF Chosen
  <2> QED BY <1>2, <2>1, <2>2, <2>3, <2>4, <2>5, CallHistory, ProceedsOn DEF Unmoved, Chooses
<1>3. ASSUME NEW r \in Requests, request'[r].run # NoRun
      PROVE  run'[request'[r].run].status # "absent"
  <2>1. CASE request[r].run # NoRun
    <3>1. request'[r].run = request[r].run
      BY <2>1, StepKeepsLinks
    <3>2. request[r].run \in Runs
      BY <2>1 DEF Inv, TypeOK, WorkRequest
    <3> QED BY <2>1, <3>1, <3>2, CreatedStays DEF RunsInv, Real, Created
  <2>2. CASE Record(r)
    <3>1. handler[r].at \in Chosen
      BY <2>2 DEF Record, Chosen
    <3>2. handler[r].run \in Runs /\ Created(handler[r].run) /\ request'[r].run = handler[r].run
      BY <2>2, <3>1, ChosenRun DEF RunsInv, Real, Record, Inv, TypeOK
    <3> QED BY <3>2, CreatedStays DEF Created
  <2> QED BY <1>3, <2>1, <2>2, RequestHistory
<1> QED BY <1>1, <1>2, <1>3 DEF Real, Created, Chosen

(* What a call remembers for a rollback.                                    *)
LEMMA SavedGoes ==
  ASSUME Inv, NEW r \in Requests, NEW step, Go(r, step)
  PROVE  handler'[r].at = step /\ handler'[r].op = handler[r].op /\ handler'[r].saved = handler[r].saved
<1>1. handler[r] \in HandlerRecord
  BY DEF Inv, TypeOK
<1> QED BY <1>1 DEF Go, HandlerRecord, Inv, TypeOK

LEMMA SavedAnswers ==
  ASSUME Inv, NEW r \in Requests, NEW outcome, Answer(r, outcome)
  PROVE  /\ handler'[r].at \in {"record", "rollback"}
         /\ handler'[r].at = "rollback" => handler[r].op # "start" /\ outcome = "not-configured"
         /\ handler'[r].saved = handler[r].saved
<1> DEFINE step == IF outcome = "not-configured" /\ handler[r].op # "start" THEN "rollback" ELSE "record"
<1>1. handler[r] \in HandlerRecord
  BY DEF Inv, TypeOK
<1>2. handler' = [handler EXCEPT ![r].outcome = outcome, ![r].at = step]
  BY DEF Answer
<1>3. step \in {"record", "rollback"} /\ (step = "rollback" => handler[r].op # "start" /\ outcome = "not-configured")
  OBVIOUS
<1> HIDE DEF step
<1>4. handler'[r].at = step /\ handler'[r].saved = handler[r].saved
  BY <1>1, <1>2 DEF HandlerRecord, Inv, TypeOK
<1> QED BY <1>3, <1>4

LEMMA SavedStays == faults' = 0 /\ Known /\ [Next]_vars => SavedReal'
<1> SUFFICES ASSUME faults' = 0, Known, [Next]_vars, NEW r \in Requests
             PROVE  SavedOf(handler'[r])
  BY DEF SavedReal, SavedOf
<1> USE DEF Known
<1>1. SavedOf(handler[r]) /\ handler[r] \in HandlerRecord
  BY DEF RunsInv, SavedReal, Inv, TypeOK
<1>2. CASE Unmoved(r)
  BY <1>1, <1>2 DEF Unmoved, SavedOf
<1>3. CASE handler'[r].at \in {"idle", "view", "decide", "record"}
  BY <1>3 DEF SavedOf
<1>4. CASE Prepare(r)
  <2> DEFINE n == handler[r].mine.run
             saved == IF handler[r].op = "resume"
                      THEN [status |-> run[n].status, retry |-> run[n].retry] ELSE NoSaved
             h == [handler[r] EXCEPT !.at = "change", !.run = n, !.mine = Queued,
                                     !.missing = {}, !.saved = saved]
  <2>1. handler' = [handler EXCEPT ![r] = h]
    BY <1>4 DEF Prepare, Mine
  <2>2. n = request[r].run /\ n # NoRun
    BY <1>4, ChoosesExisting DEF Prepare, Inv, LinkInv, CallInv
  <2>3. Created(n)
    BY <2>2 DEF RunsInv, Real
  <2>4. handler[r].op = "resume" => saved.status # "absent"
    BY <2>3 DEF Created
  <2> HIDE DEF saved, n
  <2>5. h.at = "change" /\ h.op = handler[r].op /\ h.saved = saved
    BY <1>1 DEF HandlerRecord
  <2> HIDE DEF h
  <2>6. handler'[r] = h
    BY <2>1 DEF Inv, TypeOK
  <2> QED BY <2>4, <2>5, <2>6 DEF SavedOf
<1>5. ASSUME NEW n \in Runs, NEW preflight \in Preflights, Create(r, n, preflight)
      PROVE  SavedOf(handler'[r])
  BY <1>5, ChoosesNew DEF SavedOf
<1>6. CASE Proceeds(r)
  <2>1. CASE Pause(r) \/ RollBack(r)
    BY <1>3, <2>1, SavedGoes DEF Pause, RollBack
  <2>2. CASE Resume(r)
    BY <1>1, <2>2, SavedGoes DEF Resume, Changing, SavedOf
  <2>3. CASE Retry(r)
    <3> DEFINE h == [handler[r] EXCEPT !.at = "enqueue",
                                       !.saved = [status |-> "WAITING", retry |-> "completed"]]
    <3>1. handler' = [handler EXCEPT ![r] = h]
      BY <2>3 DEF Retry
    <3>2. h.at = "enqueue" /\ h.saved.status = "WAITING"
      BY <1>1 DEF HandlerRecord
    <3> HIDE DEF h
    <3>3. handler'[r] = h
      BY <3>1 DEF Inv, TypeOK
    <3> QED BY <3>2, <3>3 DEF SavedOf
  <2>4. CASE Enqueue(r) \/ Load(r) \/ LookForOwner(r) \/ Dispatch(r)
    <3>1. handler[r].op = "start" \/ handler[r].saved.status # "absent"
      BY <1>1, <2>4 DEF Enqueue, Load, LookForOwner, Dispatch, SavedOf
    <3>2. CASE \E step \in {"load", "owner", "dispatch"} : Go(r, step)
      BY <3>1, <3>2, SavedGoes DEF SavedOf
    <3>3. CASE \E outcome \in Outcomes : Answer(r, outcome)
      BY <3>1, <3>3, SavedAnswers DEF SavedOf
    <3> QED BY <2>4, <3>2, <3>3 DEF Enqueue, Load, LookForOwner, Dispatch, Outcomes
  <2> QED BY <1>6, <2>1, <2>2, <2>3, <2>4 DEF Proceeds
<1> QED BY <1>2, <1>3, <1>4, <1>5, <1>6, CallHistory, CallReadsMine, CallLeaves DEF Chooses
----------------------------------------------------------------------------
LEMMA InitRuns == Init => RunsInv
<1> SUFFICES ASSUME Init PROVE RunsInv
  OBVIOUS
<1>1. \A n \in Runs : ~Created(n)
  BY DEF Init, Created
<1>2. \A r \in Requests : request[r] = Queued /\ handler[r] = Idle
  BY DEF Init
<1>3. Queued.run = NoRun /\ Queued.status = "queued" /\ Idle.at = "idle"
  BY DEF Queued, Idle
<1>4. view.by \notin Requests /\ \A n \in Runs : supervisor[n] = "none"
  BY Constants DEF Init, NoView
<1> QED BY <1>1, <1>2, <1>3, <1>4
        DEF RunsInv, Owned, Changes, Fresh, CancelledFree, Real, SavedReal, SavedOf, Chosen

(* A fault is counted for good.                                             *)
LEMMA FaultsCounted == ASSUME Inv, [Next]_vars, faults' = 0 PROVE faults = 0
<1>1. CASE UNCHANGED faults
  BY <1>1
<1>2. Faultless /\ \A n \in Runs : ~SupervisorThrows(n)
  BY NoFaults
<1>3. ASSUME NEW r \in Requests, CallStep(r) \/ ScheduledStart(r) \/ \E op \in Operations : Call(r, op)
      PROVE  UNCHANGED faults
  BY <1>3 DEF CallStep, CallReads, CallHasRead, CallGivesUp, StartRefused, StartWaits, Create, Cancel,
              Prepare, ChangeRefused, Pause, Resume, Retry, ChangeFails, Enqueue, Load, LookForOwner,
              Dispatch, RollBack, Record, ScheduledStart, Call
<1>4. CASE Visit \/ ReadingStep \/ Schedule \/ ScheduleStep
  BY <1>4 DEF ReadingStep, Visit, ReadRequest, ReadRun, Project, VisitEnds, Schedule, ScheduleStep,
              ScheduleReads, ScheduleGivesUp, ScheduleSelects, ScheduleReturns
<1>5. ASSUME NEW n \in Runs, SupervisorStep(n) PROVE UNCHANGED faults
  BY <1>5 DEF SupervisorStep, Supervise, StartRun, Reload, Advance, Conclude, Exhaust, Leave, Supervised
<1> QED BY <1>1, <1>2, <1>3, <1>4, <1>5 DEF Next, Faultless, vars

KnownSoFar == Inv /\ QueuedFree /\ (faults = 0 => RunsInv)

LEMMA FaultlessRuns == Spec => []KnownSoFar
<1>1. Init => KnownSoFar
  BY InitOK, InitRuns DEF KnownSoFar, Init, QueuedFree, Free, NoView, Idle, Queued
<1>2. KnownSoFar /\ [Next]_vars => KnownSoFar'
  <2> SUFFICES ASSUME KnownSoFar, [Next]_vars, faults' = 0 PROVE RunsInv'
    BY StepKeeps, StepKeepsFree DEF KnownSoFar
  <2>1. Known
    BY FaultsCounted DEF KnownSoFar, Known
  <2> QED BY <2>1, OwnedStays, ChangesStay, FreshStays, CancelledStays, RealStays, SavedStays DEF RunsInv
<1> QED BY <1>1, <1>2, PTL DEF Spec

(* startProjectRun called directly, by a schedule and by a schedule that was *)
(* left behind, any number of times: without a fault between the creation    *)
(* of a run and the record of its link, a request gets one run.              *)
THEOREM OneRun == Spec => []OneRunPerRequest
<1>1. KnownSoFar => OneRunPerRequest
  <2> SUFFICES ASSUME Known, NEW m \in Runs, NEW n \in Runs, Created(m), Created(n),
                      run[m].for = run[n].for
               PROVE  m = n
    BY DEF OneRunPerRequest, KnownSoFar, Known
  <2> DEFINE r == run[n].for
  <2>1. r \in Requests
    BY DEF Known, Inv, TypeOK, RunRecord
  <2>2. ASSUME NEW k \in {m, n}
        PROVE  request[r].run = k \/ (handler[r].at \in Chosen /\ handler[r].run = k)
    BY DEF Known, RunsInv, Owned
  <2> HIDE DEF r
  <2>3. handler[r].at \in Chosen => request[r].run \in {NoRun, handler[r].run}
    BY <2>1 DEF Known, Inv, LinkInv, CallInv
  <2> QED BY <2>2, <2>3, Constants
<1> QED BY <1>1, FaultlessRuns, PTL

(* cancelWorkRequest cancels what nobody has started, and startProjectRun    *)
(* reads the request again under its lock: without such a fault, a cancelled *)
(* request has no run, whichever starts were selected before.                *)
THEOREM CancelledStopped == MaxFaults = 0 /\ Spec => []CancelledNeverRuns
<1>1. Known => CancelledNeverRuns
  <2> SUFFICES ASSUME Known, NEW n \in Runs, Created(n),
                      request[run[n].for].status = "cancelled"
               PROVE  FALSE
    BY DEF CancelledNeverRuns
  <2>1. run[n].for \in Requests
    BY DEF Known, Inv, TypeOK, RunRecord
  <2> QED BY <2>1, Constants DEF Known, RunsInv, Owned, CancelledFree
<1>2. MaxFaults = 0 /\ KnownSoFar => Known
  BY DEF KnownSoFar, Known, Inv, TypeOK
<1>3. CASE MaxFaults = 0
  <2>1. KnownSoFar => CancelledNeverRuns
    BY <1>1, <1>2, <1>3
  <2> QED BY <2>1, FaultlessRuns, PTL
<1> QED BY <1>3
----------------------------------------------------------------------------
(* The order of the runs.  Where the owner starts, schedules and cancels,   *)
(* and whatever throws or crashes, a run waits for the dependencies of its  *)
(* request.  Pauses, resumes and retries are left out: the rollback of a    *)
(* resume takes a completed run back.                                       *)
Forward == Operations \cap {"pause", "resume", "retry"} = {}

(* Without them a call that has chosen a run has created it for its own     *)
(* request, is the only one that will ever dispatch it and has not yet.     *)
Dispatching == {"enqueue", "load", "owner", "dispatch"}

Starting(r) ==
  /\ handler[r].op \in {"start", "cancel"}
  /\ handler[r].at \notin {"change", "rollback"}
  /\ handler[r].at \in Chosen =>
       /\ handler[r].op = "start" /\ request[r].run = NoRun
       /\ Created(handler[r].run) /\ run[handler[r].run].for = r
  /\ handler[r].at \in Dispatching =>
       supervisor[handler[r].run] = "none" /\ run[handler[r].run].status # "DONE"

(* A supervision that may still write has not ended its run.                *)
Ongoing(n) ==
  /\ supervisor[n] # "none" => Created(n)
  /\ supervisor[n] \notin {"none", "leaving"} => run[n].status # "DONE"

(* A completed request has a run that is done, and a reading that knows     *)
(* better than to replace it.                                               *)
Finished(r) == request[r].status = "completed" => request[r].run # NoRun /\ run[request[r].run].status = "DONE"

Reading ==
  /\ \A r \in Requests : view.seen[r].status = "completed" => request[r].status = "completed"
  /\ view.at = "run" /\ request[view.next].status = "completed" => view.seen[view.next].status = "completed"
  /\ view.at = "write" =>
       /\ request[view.next].status # "completed"
       /\ view.found = "DONE" => run[view.seen[view.next].run].status = "DONE"

(* What a call has not found missing is completed, and what the runs that   *)
(* were created wait for is.                                                *)
Awaited(r) ==
  handler[r].at = "decide" => \A d \in Dependencies[r] \ handler[r].missing : request[d].status = "completed"

InTurn(n) == Created(n) => \A d \in Dependencies[run[n].for] : request[d].status = "completed"

OrderInv ==
  /\ \A r \in Requests : Starting(r) /\ Finished(r) /\ Awaited(r)
  /\ \A n \in Runs : Ongoing(n) /\ InTurn(n)
  /\ Reading

Ordered == Forward /\ Inv /\ QueuedFree /\ OrderInv
----------------------------------------------------------------------------
(* What a step does to a call.                                              *)
Advances(r) == Enqueue(r) \/ Load(r) \/ LookForOwner(r) \/ Dispatch(r)

LEMMA CallSteps ==
  ASSUME Ordered, [Next]_vars, NEW r \in Requests
  PROVE  \/ Unmoved(r) \/ handler'[r].at \in {"idle", "view"}
         \/ CallHasRead(r) \/ Advances(r)
         \/ \E n \in Runs, preflight \in Preflights : Create(r, n, preflight)
<1> DEFINE Goal == \/ Unmoved(r) \/ handler'[r].at \in {"idle", "view"}
                   \/ CallHasRead(r) \/ Advances(r)
                   \/ \E n \in Runs, preflight \in Preflights : Create(r, n, preflight)
<1> USE DEF Ordered
<1>1. handler \in [Requests -> HandlerRecord] /\ Idle.at = "idle"
  BY DEF Inv, TypeOK, Idle
<1>2. ASSUME NEW q \in Requests, Return(q) \/ Reject(q) PROVE Goal
  BY <1>1, <1>2 DEF Return, Reject, Unmoved
<1>3. CASE Faultless
  <2>1. CASE Record(r) \/ ChangeFails(r)
    BY <1>2, <2>1 DEF Record, ChangeFails
  <2>2. handler[r].op \in {"start", "cancel"} /\ handler[r].at # "rollback"
    BY DEF OrderInv, Starting
  <2>3. ~Prepare(r) /\ ~Pause(r) /\ ~Resume(r) /\ ~Retry(r) /\ ~RollBack(r)
    BY <2>2 DEF Prepare, Pause, Resume, Retry, RollBack, Changing
  <2> QED BY <1>3, <2>1, <2>3, CallHistoryFaultless DEF Chooses, Proceeds, Advances
<1>4. CASE Crash
  BY <1>1, <1>4 DEF Crash
<1>5. CASE ReadingThrows
  BY <1>2, <1>5 DEF ReadingThrows, Unmoved
<1>6. ASSUME NEW q \in Requests, CallThrows(q) PROVE Goal
  BY <1>2, <1>6 DEF CallThrows
<1> QED BY <1>3, <1>4, <1>5, <1>6 DEF Faultless

LEMMA Operated ==
  ASSUME Ordered, [Next]_vars, NEW r \in Requests
  PROVE  handler'[r].op \in {"start", "cancel"}
<1> DEFINE Goal == handler'[r].op \in {"start", "cancel"}
<1> USE DEF Ordered
<1>1. /\ handler \in [Requests -> HandlerRecord] /\ Idle.op = "start"
      /\ \A q \in Requests : handler[q].op \in {"start", "cancel"}
  BY DEF Inv, TypeOK, Idle, OrderInv, Starting
<1>2. CASE UNCHANGED handler
  BY <1>1, <1>2
<1>3. ASSUME NEW q \in Requests, NEW h, h.op \in {"start", "cancel"}, handler' = [handler EXCEPT ![q] = h]
      PROVE  Goal
  BY <1>1, <1>3
<1>4. ASSUME NEW q \in Requests, Return(q) \/ Reject(q) PROVE Goal
  BY <1>1, <1>3, <1>4 DEF Return, Reject
<1>5. ASSUME NEW q \in Requests, NEW step, Go(q, step) PROVE Goal
  <2> DEFINE h == [handler[q] EXCEPT !.at = step]
  <2>1. h.op = handler[q].op /\ handler' = [handler EXCEPT ![q] = h]
    BY <1>1, <1>5 DEF Go, HandlerRecord
  <2> HIDE DEF h
  <2> QED BY <1>1, <1>3, <2>1
<1>6. ASSUME NEW q \in Requests, NEW outcome, Answer(q, outcome) PROVE Goal
  <2> DEFINE step == IF outcome = "not-configured" /\ handler[q].op # "start" THEN "rollback" ELSE "record"
             h == [handler[q] EXCEPT !.outcome = outcome, !.at = step]
  <2>1. handler' = [handler EXCEPT ![q] = h]
    BY <1>6 DEF Answer
  <2> HIDE DEF step
  <2>2. h.op = handler[q].op
    BY <1>1 DEF HandlerRecord
  <2> HIDE DEF h
  <2> QED BY <1>1, <1>3, <2>1, <2>2
<1>7. ASSUME NEW q \in Requests, CallStep(q) PROVE Goal
  <2>1. CASE CallHasRead(q)
    <3> DEFINE missing == Incomplete(q, view.seen)
               h == [handler[q] EXCEPT !.at = "decide", !.mine = view.seen[q], !.missing = missing]
    <3>1. handler' = [handler EXCEPT ![q] = h]
      BY <2>1 DEF CallHasRead
    <3> HIDE DEF missing
    <3>2. h.op = handler[q].op
      BY <1>1 DEF HandlerRecord
    <3> HIDE DEF h
    <3> QED BY <1>1, <1>3, <3>1, <3>2
  <2>2. ASSUME NEW n \in Runs, NEW preflight \in Preflights, Create(q, n, preflight) PROVE Goal
    <3> DEFINE h == [handler[q] EXCEPT !.at = "enqueue", !.run = n, !.mine = Queued]
    <3>1. handler' = [handler EXCEPT ![q] = h]
      BY <2>2 DEF Create
    <3>2. h.op = handler[q].op
      BY <1>1 DEF HandlerRecord
    <3> HIDE DEF h
    <3> QED BY <1>1, <1>3, <3>1, <3>2
  <2>3. ~Prepare(q) /\ ~Retry(q)
    BY <1>1 DEF Prepare, Retry, Changing
  <2> QED BY <1>2, <1>4, <1>5, <1>6, <1>7, <2>1, <2>2, <2>3
          DEF CallStep, CallReads, CallGivesUp, StartRefused, StartWaits, Cancel, ChangeRefused, Pause,
              Resume, ChangeFails, Enqueue, Load, LookForOwner, Dispatch, RollBack, Record
<1>8. ASSUME NEW q \in Requests, ScheduledStart(q) PROVE Goal
  <2>1. CASE UNCHANGED handler
    BY <1>2, <2>1
  <2>2. ASSUME NEW of \in Schedules, handler' = [handler EXCEPT ![q] = Started(of)] PROVE Goal
    <3> DEFINE h == Started(of)
    <3>1. h.op \in {"start", "cancel"} /\ handler' = [handler EXCEPT ![q] = h]
      BY <2>2 DEF Started, Idle
    <3> HIDE DEF h
    <3> QED BY <1>1, <1>3, <3>1
  <2> QED BY <1>8, <2>1, <2>2 DEF ScheduledStart
<1>9. ASSUME NEW q \in Requests, NEW op \in Operations, Call(q, op) PROVE Goal
  <2>1. op \in {"start", "cancel"}
    BY <1>9, QueueAssumption DEF Call, Forward
  <2> DEFINE h == [Idle EXCEPT !.op = op, !.at = "view"]
  <2>2. h.op \in {"start", "cancel"}
    BY <2>1 DEF Idle
  <2>3. handler' = [handler EXCEPT ![q] = h]
    BY <1>9 DEF Call
  <2> HIDE DEF h
  <2> QED BY <1>1, <1>3, <2>2, <2>3
<1>10. CASE ScheduleReturns
  BY <1>1, <1>10 DEF ScheduleReturns, HandlerRecord
<1>11. CASE ReadingThrows \/ \E q \in Requests : CallThrows(q)
  BY <1>2, <1>4, <1>11 DEF ReadingThrows, CallThrows
<1>12. CASE Crash
  BY <1>1, <1>12 DEF Crash
<1>13. CASE Visit \/ ReadingStep \/ Schedule \/ ScheduleReads \/ ScheduleGivesUp \/ ScheduleSelects
  BY <1>2, <1>13 DEF Visit, ReadingStep, ReadRequest, ReadRun, Project, VisitEnds, Schedule, ScheduleReads,
                    ScheduleGivesUp, ScheduleSelects
<1>14. CASE \E n \in Runs : SupervisorStep(n) \/ SupervisorThrows(n)
  BY <1>2, <1>14 DEF SupervisorStep, SupervisorThrows, Supervise, StartRun, Reload, Advance, Conclude,
                    Exhaust, Leave, Supervised
<1>15. CASE UNCHANGED vars
  BY <1>2, <1>15 DEF vars
<1> QED BY <1>7, <1>8, <1>9, <1>10, <1>11, <1>12, <1>13, <1>14, <1>15 DEF Next, ScheduleStep
----------------------------------------------------------------------------
(* What a step does to the runs and their supervisions.                     *)
Concludes(n) ==
  /\ supervisor[n] \notin {"none", "leaving"}
  /\ \E status \in RunStatuses \ {"absent"}, step \in {"working", "leaving"} :
       /\ Write(n, status) /\ (status = "DONE" => step = "leaving")
       /\ supervisor' = [supervisor EXCEPT ![n] = step]

Passes(n) ==
  /\ supervisor[n] # "none" /\ UNCHANGED run
  /\ \E step \in SupervisorSteps :
       supervisor' = [supervisor EXCEPT ![n] = step] /\ (supervisor[n] = "leaving" => step = "none")

LEMMA RunSteps ==
  ASSUME Ordered, [Next]_vars
  PROVE  \/ UNCHANGED <<run, supervisor>>
         \/ \E r \in Requests, n \in Runs, preflight \in Preflights : Create(r, n, preflight)
         \/ \E r \in Requests : Dispatch(r)
         \/ \E n \in Runs : Concludes(n) \/ Passes(n)
         \/ Crash
<1> DEFINE Goal == \/ UNCHANGED <<run, supervisor>>
                   \/ \E r \in Requests, n \in Runs, preflight \in Preflights : Create(r, n, preflight)
                   \/ \E r \in Requests : Dispatch(r)
                   \/ \E n \in Runs : Concludes(n) \/ Passes(n)
                   \/ Crash
<1>1. ASSUME NEW n \in Runs, SupervisorStep(n) \/ SupervisorThrows(n) PROVE Concludes(n) \/ Passes(n)
  <2>1. CASE StartRun(n) \/ Advance(n) \/ Conclude(n) \/ Exhaust(n)
    BY <2>1 DEF StartRun, Advance, Conclude, Exhaust, Supervised, Concludes, RunStatuses
  <2>2. CASE Supervise(n) \/ Reload(n) \/ Leave(n) \/ SupervisorThrows(n)
    BY <2>2 DEF Supervise, Reload, Leave, SupervisorThrows, Supervised, Passes, SupervisorSteps
  <2> QED BY <1>1, <2>1, <2>2 DEF SupervisorStep
<1>2. ASSUME NEW r \in Requests, CallStep(r) PROVE Goal
  <2>1. handler[r].op \in {"start", "cancel"} /\ handler[r].at # "rollback"
    BY DEF Ordered, OrderInv, Starting
  <2>2. ~Pause(r) /\ ~Resume(r) /\ ~Retry(r) /\ ~RollBack(r)
    BY <2>1 DEF Pause, Resume, Retry, RollBack, Changing
  <2> QED BY <1>2, <2>2
          DEF CallStep, CallReads, CallHasRead, CallGivesUp, StartRefused, StartWaits, Cancel, Prepare,
              ChangeRefused, ChangeFails, Enqueue, Load, LookForOwner, Record
<1>3. CASE Visit \/ ReadingStep \/ ReadingThrows \/ Schedule \/ ScheduleStep
  BY <1>3 DEF ReadingStep, Visit, ReadRequest, ReadRun, Project, VisitEnds, ReadingThrows, Schedule,
              ScheduleStep, ScheduleReads, ScheduleGivesUp, ScheduleSelects, ScheduleReturns
<1>4. ASSUME NEW r \in Requests, ScheduledStart(r) \/ CallThrows(r) \/ \E op \in Operations : Call(r, op)
      PROVE  UNCHANGED <<run, supervisor>>
  BY <1>4 DEF ScheduledStart, CallThrows, Call
<1> QED BY <1>1, <1>2, <1>3, <1>4 DEF Next, vars

LEMMA NewRun ==
  ASSUME Ordered, NEW r \in Requests, NEW n \in Runs, NEW preflight \in Preflights,
         Create(r, n, preflight)
  PROVE  /\ handler'[r].at = "enqueue" /\ handler'[r].run = n /\ handler[r].at = "decide"
         /\ handler[r].op = "start" /\ handler[r].missing = {} /\ request[r].run = NoRun
         /\ ~Created(n) /\ Created(n)' /\ run'[n].for = r /\ run'[n].status # "DONE"
         /\ \A m \in Runs \ {n} : run'[m] = run[m]
         /\ UNCHANGED <<request, view, supervisor>>
<1> USE DEF Ordered
<1>1. handler[r] \in HandlerRecord
  BY DEF Inv, TypeOK
<1>2. handler'[r].at = "enqueue" /\ handler'[r].run = n
  BY <1>1 DEF Create, Inv, TypeOK, HandlerRecord
<1>3. handler[r].at = "decide" /\ handler[r].op = "start" /\ handler[r].mine.run = NoRun
  BY DEF Create, Deciding, MayStart, Linked, Mine, QueuedFree, Free
<1>4. request[r].run = NoRun
  BY <1>3 DEF Inv, LinkInv, CallInv
<1> DEFINE new == [status |-> IF preflight = "ready" THEN "READY" ELSE "WAITING",
                   retry |-> "none", cycle |-> 0, preflight |-> preflight, for |-> r]
<1>5. run' = [run EXCEPT ![n] = new]
  BY DEF Create
<1>6. new.for = r /\ new.status \notin {"absent", "DONE"}
  OBVIOUS
<1> HIDE DEF new
<1>7. run'[n] = new /\ \A m \in Runs \ {n} : run'[m] = run[m]
  BY <1>5 DEF Inv, TypeOK
<1> QED BY <1>2, <1>3, <1>4, <1>6, <1>7 DEF Create, Created

LEMMA ConcludedRun ==
  ASSUME Ordered, NEW n \in Runs, Concludes(n)
  PROVE  /\ Created(n) /\ Created(n)' /\ run'[n].for = run[n].for /\ run[n].status # "DONE"
         /\ run'[n].status = "DONE" => supervisor'[n] = "leaving"
         /\ \A m \in Runs \ {n} : run'[m] = run[m] /\ supervisor'[m] = supervisor[m]
<1> USE DEF Ordered
<1>1. Created(n) /\ run[n].status # "DONE"
  BY DEF Concludes, OrderInv, Ongoing
<1>2. PICK status \in RunStatuses \ {"absent"}, step \in {"working", "leaving"} :
        /\ Write(n, status) /\ (status = "DONE" => step = "leaving")
        /\ supervisor' = [supervisor EXCEPT ![n] = step]
  BY DEF Concludes
<1> DEFINE x == [run[n] EXCEPT !.status = status,
                               !.retry = IF status = "FAILED_FINAL" /\ @ = "active" THEN "completed" ELSE @]
<1>3. run[n] \in RunRecord
  BY DEF Inv, TypeOK
<1>4. x.status = status /\ x.for = run[n].for /\ run' = [run EXCEPT ![n] = x]
  BY <1>2, <1>3 DEF RunRecord, Write
<1> HIDE DEF x
<1>5. run'[n] = x /\ \A m \in Runs \ {n} : run'[m] = run[m]
  BY <1>4 DEF Inv, TypeOK
<1>6. supervisor'[n] = step /\ \A m \in Runs \ {n} : supervisor'[m] = supervisor[m]
  BY <1>2 DEF Inv, TypeOK
<1> QED BY <1>1, <1>2, <1>4, <1>5, <1>6 DEF Created

(* A run that was created stays with its request, and one that is done      *)
(* stays done.                                                              *)
LEMMA RunsLast ==
  ASSUME Ordered, [Next]_vars, NEW n \in Runs
  PROVE  /\ Created(n) => Created(n)' /\ run'[n].for = run[n].for
         /\ run[n].status = "DONE" => run'[n].status = "DONE"
         /\ Created(n)' => Created(n) \/ \E r \in Requests, preflight \in Preflights : Create(r, n, preflight)
<1>1. CASE UNCHANGED run
  BY <1>1 DEF Created
<1>2. ASSUME NEW m \in Runs, Concludes(m)
      PROVE  /\ Created(n) => Created(n)' /\ run'[n].for = run[n].for
             /\ run[n].status = "DONE" => run'[n].status = "DONE"
             /\ Created(n)' => Created(n)
  BY <1>2, ConcludedRun DEF Created
<1>3. ASSUME NEW r \in Requests, NEW m \in Runs, NEW preflight \in Preflights, Create(r, m, preflight)
      PROVE  /\ Created(n) => Created(n)' /\ run'[n].for = run[n].for
             /\ run[n].status = "DONE" => run'[n].status = "DONE"
             /\ Created(n)' => Created(n) \/ m = n
  <2>1. ~Created(m) /\ run'[m].status # "DONE" /\ \A o \in Runs \ {m} : run'[o] = run[o]
    BY <1>3, NewRun
  <2> QED BY <2>1 DEF Created
<1> QED BY <1>1, <1>2, <1>3, RunSteps DEF Dispatch, Passes, Crash
----------------------------------------------------------------------------
(* What a step does to the requests.  Only a reading completes one, and no  *)
(* step takes that back.                                                    *)
LEMMA CallWrites ==
  ASSUME Ordered, NEW q \in Requests, StartWaits(q) \/ Cancel(q) \/ Record(q)
  PROVE  /\ request[q].run = NoRun \/ UNCHANGED request
         /\ UNCHANGED request \/ request'[q].status # "completed"
         /\ \A r \in Requests \ {q} : request'[r] = request[r]
         /\ request'[q].run = request[q].run \/ Record(q)
<1> USE DEF Ordered
<1>1. request \in [Requests -> WorkRequest] /\ request[q] \in WorkRequest
  BY DEF Inv, TypeOK
<1>2. ASSUME NEW status \in {"waiting", "cancelled"}, request' = [request EXCEPT ![q].status = status]
      PROVE  /\ request'[q].status # "completed" /\ request'[q].run = request[q].run
             /\ \A r \in Requests \ {q} : request'[r] = request[r]
  BY <1>1, <1>2 DEF WorkRequest
<1>3. handler[q].at = "decide" => handler[q].mine.run = request[q].run
  BY DEF Inv, LinkInv, CallInv
<1>4. handler[q].mine.status = "queued" => handler[q].mine.run = NoRun
  BY DEF QueuedFree, Free
<1>5. CASE StartWaits(q)
  <2>1. request[q].run = NoRun
    BY <1>3, <1>4, <1>5 DEF StartWaits, Deciding, MayStart, Linked, Mine
  <2> QED BY <1>2, <1>5, <2>1 DEF StartWaits, Wait
<1>6. CASE Cancel(q)
  <2>1. request[q].run = NoRun \/ UNCHANGED request
    BY <1>3, <1>4, <1>6 DEF Cancel, Deciding, Mine
  <2> QED BY <1>2, <1>6, <2>1 DEF Cancel
<1>7. CASE Record(q)
  <2>1. request[q].run = NoRun
    BY <1>7 DEF Record, OrderInv, Starting, Chosen
  <2>2. \A r \in Requests \ {q} : request'[r] = request[r]
    BY <1>1, <1>7 DEF Record
  <2>3. request'[q].status # "completed"
    BY <1>1, <1>7 DEF Record
  <2> QED BY <1>7, <2>1, <2>2, <2>3
<1> QED BY <1>5, <1>6, <1>7

LEMMA ReadingWrites ==
  ASSUME Ordered, Project
  PROVE  /\ view.next \in Requests /\ request[view.next].status # "completed"
         /\ view.seen[view.next].run \in Runs
         /\ request'[view.next] = view'.seen[view.next]
         /\ request'[view.next].run = view.seen[view.next].run
         /\ request'[view.next].status = "completed" => view.found = "DONE"
         /\ \A r \in Requests \ {view.next} : request'[r] = request[r] /\ view'.seen[r] = view.seen[r]
         /\ view'.at = "request" /\ UNCHANGED run
<1> USE DEF Ordered
<1> DEFINE w == [status |-> StatusForRun(view.found), run |-> view.seen[view.next].run]
<1>1. view \in ViewRecord /\ view.next \in Requests /\ view.seen[view.next].run # NoRun
  BY DEF Project, Inv, TypeOK, LinkInv, ReadingInv
<1>2. view.seen \in [Requests -> WorkRequest] /\ view.seen[view.next].run \in Runs
  BY <1>1 DEF ViewRecord, WorkRequest
<1>3. w.status = "completed" => view.found = "DONE"
  BY DEF StatusForRun
<1>4. w.run = view.seen[view.next].run
  OBVIOUS
<1>5. /\ request' = [request EXCEPT ![view.next] = w]
      /\ view' = [view EXCEPT !.at = "request", !.next = view.next + 1,
                              !.seen[view.next] = w, !.found = "absent"]
  BY DEF Project
<1> HIDE DEF w
<1>6. view'.seen = [view.seen EXCEPT ![view.next] = w] /\ view'.at = "request"
  BY <1>1, <1>5 DEF ViewRecord
<1>7. request'[view.next] = w /\ \A r \in Requests \ {view.next} : request'[r] = request[r]
  BY <1>1, <1>5 DEF Inv, TypeOK
<1>8. view'.seen[view.next] = w /\ \A r \in Requests \ {view.next} : view'.seen[r] = view.seen[r]
  BY <1>1, <1>2, <1>6
<1>9. request[view.next].status # "completed"
  BY DEF Project, OrderInv, Reading
<1> QED BY <1>1, <1>2, <1>3, <1>4, <1>6, <1>7, <1>8, <1>9 DEF Project

LEMMA CompletedStays ==
  ASSUME Ordered, [Next]_vars, NEW r \in Requests
  PROVE  /\ request[r].status = "completed" => request'[r] = request[r]
         /\ request'[r].status = "completed" => request[r].status = "completed" \/ Project
<1>1. request[r].status = "completed" => request[r].run # NoRun
  BY DEF Ordered, OrderInv, Finished
<1>2. ASSUME NEW q \in Requests, StartWaits(q) \/ Cancel(q) \/ Record(q)
      PROVE  /\ request[r].status = "completed" => request'[r] = request[r]
             /\ request'[r].status = "completed" => request[r].status = "completed"
  BY <1>1, <1>2, CallWrites
<1>3. CASE Project
  BY <1>3, ReadingWrites
<1> QED BY <1>2, <1>3, Writers

LEMMA LinkRecorded ==
  ASSUME Ordered, [Next]_vars, NEW r \in Requests
  PROVE  request'[r].run = request[r].run \/ Record(r)
<1>1. ASSUME NEW q \in Requests, StartWaits(q) \/ Cancel(q) \/ Record(q)
      PROVE  request'[r].run = request[r].run \/ Record(r)
  BY <1>1, CallWrites
<1>2. CASE Project
  BY <1>2, ProjectKeeps DEF Ordered
<1> QED BY <1>1, <1>2, Writers
----------------------------------------------------------------------------
(* Each part of the invariant is kept.                                      *)
LEMMA StartingStays == Ordered /\ [Next]_vars => \A r \in Requests : Starting(r)'
<1> SUFFICES ASSUME Ordered, [Next]_vars, NEW r \in Requests PROVE Starting(r)'
  OBVIOUS
<1> DEFINE n == handler[r].run
<1>1. handler'[r].op \in {"start", "cancel"}
  BY Operated
<1>2. handler[r] \in HandlerRecord /\ handler \in [Requests -> HandlerRecord] /\ Starting(r)
  BY DEF Ordered, Inv, TypeOK, OrderInv
<1>3. handler[r].at \in Chosen => n \in Runs
  BY ChosenRun DEF Ordered
<1>4. CASE handler'[r].at \in {"idle", "view", "decide"}
  BY <1>1, <1>4 DEF Starting, Chosen, Dispatching
<1>5. CASE CallHasRead(r)
  <2> DEFINE missing == Incomplete(r, view.seen)
             h == [handler[r] EXCEPT !.at = "decide", !.mine = view.seen[r], !.missing = missing]
  <2>1. handler' = [handler EXCEPT ![r] = h]
    BY <1>5 DEF CallHasRead
  <2> HIDE DEF missing
  <2>2. h.at = "decide"
    BY <1>2 DEF HandlerRecord
  <2> HIDE DEF h
  <2>3. handler'[r].at = "decide"
    BY <1>2, <2>1, <2>2
  <2> QED BY <1>4, <2>3
<1>6. ASSUME NEW m \in Runs, NEW preflight \in Preflights, Create(r, m, preflight) PROVE Starting(r)'
  <2>1. supervisor[m] = "none"
    BY <1>6, NewRun DEF Ordered, OrderInv, Ongoing
  <2>2. handler'[r].op = "start"
    BY <1>2, <1>6 DEF Create, Deciding, HandlerRecord
  <2> QED BY <1>6, <2>1, <2>2, NewRun DEF Starting, Chosen, Dispatching
<1>7. CASE Advances(r)
  <2>1. handler[r].at \in Dispatching
    BY <1>7 DEF Advances, Enqueue, Load, LookForOwner, Dispatch, Dispatching
  <2>2. handler[r].at \in Chosen /\ handler[r].op = "start"
    BY <1>2, <2>1 DEF Starting, Dispatching, Chosen
  <2>3. UNCHANGED <<request, run>> /\ (UNCHANGED supervisor \/ Dispatch(r))
    BY <1>7 DEF Advances, Enqueue, Load, LookForOwner, Dispatch
  <2>4. /\ handler'[r].run = n /\ handler'[r].op = "start"
        /\ (handler'[r].at \in Dispatching /\ ~Dispatch(r)) \/ handler'[r].at = "record"
    <3>1. ASSUME NEW step \in {"load", "owner", "dispatch"}, Go(r, step)
          PROVE  handler'[r].run = n /\ handler'[r].op = "start" /\ handler'[r].at = step
      BY <1>2, <2>2, <3>1 DEF Go, HandlerRecord
    <3>2. ASSUME NEW outcome \in Outcomes, Answer(r, outcome)
          PROVE  handler'[r].run = n /\ handler'[r].op = "start" /\ handler'[r].at = "record"
      <4> DEFINE h == [handler[r] EXCEPT !.outcome = outcome, !.at = "record"]
      <4>1. handler' = [handler EXCEPT ![r] = h]
        BY <2>2, <3>2 DEF Answer
      <4>2. h.run = n /\ h.op = "start" /\ h.at = "record"
        BY <1>2, <2>2 DEF HandlerRecord
      <4> HIDE DEF h
      <4> QED BY <1>2, <4>1, <4>2
    <3>3. Dispatch(r) => handler[r].at = "dispatch" /\ Answer(r, "accepted")
      BY DEF Dispatch
    <3> QED BY <1>7, <3>1, <3>2, <3>3
            DEF Advances, Enqueue, Load, LookForOwner, Outcomes, Dispatching
  <2> QED BY <1>2, <2>1, <2>2, <2>3, <2>4 DEF Starting, Created, Dispatching
<1>8. CASE Unmoved(r) /\ handler[r].at \in Chosen
  <2>1. /\ n \in Runs /\ handler'[r].run = n /\ handler'[r].at = handler[r].at
        /\ handler'[r].op = "start"
    BY <1>2, <1>3, <1>8 DEF Unmoved, Starting
  <2>2. request[r].run = NoRun /\ Created(n) /\ run[n].for = r
    BY <1>2, <1>8 DEF Starting
  <2>3. Created(n)' /\ run'[n].for = r
    BY <2>1, <2>2, RunsLast
  <2>4. request'[r].run = NoRun
    <3>1. ~Record(r)
      <4>1. Record(r) => handler' = [handler EXCEPT ![r] = Idle] /\ handler[r].at = "record"
        BY DEF Record, Return
      <4>2. Idle.at = "idle"
        BY DEF Idle
      <4> QED BY <1>2, <2>1, <4>1, <4>2
    <3> QED BY <2>2, <3>1, LinkRecorded
  <2>5. ASSUME handler[r].at \in Dispatching PROVE supervisor'[n] = "none" /\ run'[n].status # "DONE"
    <3>1. supervisor[n] = "none" /\ run[n].status # "DONE"
      BY <1>2, <2>5 DEF Starting
    <3>2. ASSUME NEW q \in Requests, NEW m \in Runs, NEW preflight \in Preflights, Create(q, m, preflight)
          PROVE  supervisor'[n] = "none" /\ run'[n].status # "DONE"
      BY <2>1, <3>1, <3>2, NewRun
    <3>3. ASSUME NEW q \in Requests, Dispatch(q) PROVE supervisor'[n] = "none" /\ run'[n].status # "DONE"
      <4>1. handler[q].at = "dispatch" /\ handler[q].run \in Runs /\ run[handler[q].run].for = q
        BY <3>3, ChosenRun DEF Dispatch, Ordered, OrderInv, Starting, Chosen
      <4>2. q # r
        <5>1. Dispatch(r) => handler'[r].at # "dispatch"
          BY HandlerAnswers DEF Dispatch, Ordered, Inv, Outcomes
        <5> QED BY <2>1, <3>3, <4>1, <5>1
      <4>3. handler[q].run # n
        BY <2>2, <4>1, <4>2
      <4> QED BY <2>1, <3>1, <3>3, <4>1, <4>3 DEF Dispatch, Ordered, Inv, TypeOK
    <3>4. ASSUME NEW m \in Runs, Concludes(m) PROVE supervisor'[n] = "none" /\ run'[n].status # "DONE"
      <4>1. m # n
        BY <3>1, <3>4 DEF Concludes
      <4> QED BY <2>1, <3>1, <3>4, <4>1, ConcludedRun
    <3>5. ASSUME NEW m \in Runs, Passes(m) PROVE supervisor'[n] = "none" /\ run'[n].status # "DONE"
      <4>1. m # n
        BY <3>1, <3>5 DEF Passes
      <4> QED BY <2>1, <3>1, <3>5, <4>1 DEF Passes, Ordered, Inv, TypeOK
    <3>6. CASE Crash
      BY <2>1, <3>1, <3>6 DEF Crash
    <3> QED BY <3>1, <3>2, <3>3, <3>4, <3>5, <3>6, RunSteps
  <2> QED BY <1>2, <2>1, <2>3, <2>4, <2>5 DEF Starting, Created
<1>9. CASE Unmoved(r) /\ handler[r].at \notin Chosen
  BY <1>1, <1>2, <1>9 DEF Unmoved, Starting, Chosen, Dispatching
<1> QED BY <1>4, <1>5, <1>6, <1>7, <1>8, <1>9, CallSteps

LEMMA OngoingStays == Ordered /\ [Next]_vars => \A n \in Runs : Ongoing(n)'
<1> SUFFICES ASSUME Ordered, [Next]_vars, NEW n \in Runs PROVE Ongoing(n)'
  OBVIOUS
<1>1. Ongoing(n) /\ supervisor \in [Runs -> SupervisorSteps]
  BY DEF Ordered, OrderInv, Inv, TypeOK
<1>2. CASE UNCHANGED <<run, supervisor>>
  BY <1>1, <1>2 DEF Ongoing, Created
<1>3. ASSUME NEW r \in Requests, NEW m \in Runs, NEW preflight \in Preflights, Create(r, m, preflight)
      PROVE  Ongoing(n)'
  BY <1>1, <1>3, NewRun DEF Ongoing, Created
<1>4. ASSUME NEW r \in Requests, Dispatch(r) PROVE Ongoing(n)'
  <2>1. Created(handler[r].run) /\ run[handler[r].run].status # "DONE"
    BY <1>4 DEF Dispatch, Ordered, OrderInv, Starting, Chosen, Dispatching
  <2>2. supervisor' = [supervisor EXCEPT ![handler[r].run] = "called"] /\ UNCHANGED run
    BY <1>4 DEF Dispatch
  <2> QED BY <1>1, <2>1, <2>2 DEF Ongoing, Created
<1>5. ASSUME NEW m \in Runs, Concludes(m) PROVE Ongoing(n)'
  BY <1>1, <1>5, ConcludedRun DEF Ongoing, Created
<1>6. ASSUME NEW m \in Runs, Passes(m) PROVE Ongoing(n)'
  <2>1. Ongoing(m)
    BY DEF Ordered, OrderInv
  <2> QED BY <1>1, <1>6, <2>1 DEF Passes, Ongoing, Created
<1>7. CASE Crash
  BY <1>7 DEF Crash, Ongoing
<1> QED BY <1>2, <1>3, <1>4, <1>5, <1>6, <1>7, RunSteps

LEMMA FinishedStays == Ordered /\ [Next]_vars => \A r \in Requests : Finished(r)'
<1> SUFFICES ASSUME Ordered, [Next]_vars, NEW r \in Requests, request'[r].status = "completed"
             PROVE  request'[r].run # NoRun /\ run'[request'[r].run].status = "DONE"
  BY DEF Finished
<1>1. CASE request[r].status = "completed"
  <2>1. request'[r] = request[r] /\ request[r].run # NoRun /\ run[request[r].run].status = "DONE"
    BY <1>1, CompletedStays DEF Ordered, OrderInv, Finished
  <2>2. request[r].run \in Runs
    BY <2>1 DEF Ordered, Inv, TypeOK, WorkRequest
  <2> QED BY <2>1, <2>2, RunsLast
<1>2. CASE request[r].status # "completed" /\ Project
  <2>1. r = view.next
    BY <1>2, ReadingWrites
  <2>2. view.at = "write"
    BY <1>2 DEF Project
  <2>3. run[view.seen[r].run].status = "DONE"
    BY <1>2, <2>1, <2>2, ReadingWrites DEF Ordered, OrderInv, Reading
  <2> QED BY <1>2, <2>1, <2>3, ReadingWrites, Constants
<1> QED BY <1>1, <1>2, CompletedStays

LEMMA ReadingStays == Ordered /\ [Next]_vars => Reading'
<1> SUFFICES ASSUME Ordered, [Next]_vars PROVE Reading'
  OBVIOUS
<1>1. Reading /\ view \in ViewRecord /\ view.seen \in [Requests -> WorkRequest] /\ Queued.status = "queued"
  BY DEF Ordered, OrderInv, Inv, TypeOK, ViewRecord, Queued
<1>2. view.at # "request" => view.next \in Requests /\ view.seen[view.next].run \in Runs
  BY <1>1 DEF Ordered, Inv, LinkInv, ReadingInv, WorkRequest
<1>3. CASE UNCHANGED view
  <2>1. ~Project
    BY <1>1, <1>3, ReadingWrites DEF Project
  <2>2. \A r \in Requests : request'[r].status = "completed" <=> request[r].status = "completed"
    BY <2>1, CompletedStays
  <2>3. view.at = "write" /\ run[view.seen[view.next].run].status = "DONE"
          => run'[view.seen[view.next].run].status = "DONE"
    BY <1>2, RunsLast
  <2> QED BY <1>1, <1>2, <1>3, <2>2, <2>3 DEF Reading
<1>4. CASE view' = NoView
  <2>1. view'.at = "request" /\ \A r \in Requests : view'.seen[r] = Queued
    BY <1>4 DEF NoView
  <2> QED BY <1>1, <2>1 DEF Reading
<1>5. CASE ReadRequest
  <2>1. /\ view.next \in Requests /\ UNCHANGED request
        /\ view'.seen = [view.seen EXCEPT ![view.next] = request[view.next]]
    BY <1>5, ReadsRequest DEF Ordered
  <2>2. view'.at \in {"request", "run"} /\ (view'.at = "run" => view'.next = view.next)
    BY <1>1, <1>5 DEF ReadRequest, ViewRecord
  <2> QED BY <1>1, <2>1, <2>2 DEF Reading
<1>6. CASE ReadRun
  <2> DEFINE found == run[view.seen[view.next].run].status
             stale == Projects(view.seen[view.next].status, StatusForRun(found))
  <2>1. /\ view.at = "run" /\ UNCHANGED <<request, run>>
        /\ view' = [view EXCEPT !.at = IF stale THEN "write" ELSE "request",
                                !.found = IF stale THEN found ELSE @,
                                !.next = IF stale THEN @ ELSE @ + 1]
    BY <1>6 DEF ReadRun
  <2>2. stale => view.seen[view.next].status # "completed"
    BY DEF Projects, EndedRequest
  <2> HIDE DEF stale, found
  <2>3. /\ view'.seen = view.seen /\ view'.at \in {"write", "request"}
        /\ view'.at = "write" => stale /\ view'.next = view.next /\ view'.found = found
    BY <1>1, <2>1 DEF ViewRecord
  <2> QED BY <1>1, <2>1, <2>2, <2>3 DEF Reading, found
<1>7. CASE Project
  <2>1. \A r \in Requests \ {view.next} : request'[r].status = request[r].status /\ view'.seen[r] = view.seen[r]
    BY <1>7, ReadingWrites
  <2> QED BY <1>1, <1>7, <2>1, ReadingWrites DEF Reading
<1>8. ASSUME UNCHANGED request, NEW who, BeginReading(who) PROVE Reading'
  <2>1. view'.at = "request" /\ view'.seen = request
    BY <1>8 DEF BeginReading, NoView
  <2> QED BY <1>8, <2>1 DEF Reading
<1> QED BY <1>3, <1>4, <1>5, <1>6, <1>7, <1>8, Readers

LEMMA AwaitedStays == Ordered /\ [Next]_vars => \A r \in Requests : Awaited(r)'
<1> SUFFICES ASSUME Ordered, [Next]_vars, NEW r \in Requests, handler'[r].at = "decide",
                    NEW d \in Dependencies[r] \ handler'[r].missing
             PROVE  request'[d].status = "completed"
  BY DEF Awaited
<1>1. d \in Requests /\ handler[r] \in HandlerRecord /\ handler \in [Requests -> HandlerRecord]
  BY QueueAssumption DEF Ordered, Inv, TypeOK
<1>2. CASE Unmoved(r)
  <2>1. request[d].status = "completed"
    BY <1>1, <1>2 DEF Unmoved, Ordered, OrderInv, Awaited
  <2> QED BY <1>1, <2>1, CompletedStays
<1>3. CASE CallHasRead(r)
  <2> DEFINE missing == Incomplete(r, view.seen)
             h == [handler[r] EXCEPT !.at = "decide", !.mine = view.seen[r], !.missing = missing]
  <2>1. handler' = [handler EXCEPT ![r] = h] /\ UNCHANGED request
    BY <1>3 DEF CallHasRead
  <2> HIDE DEF missing
  <2>2. h.missing = missing
    BY <1>1 DEF HandlerRecord
  <2> HIDE DEF h
  <2>3. d \notin missing
    BY <1>1, <2>1, <2>2
  <2>4. view.seen[d].status = "completed"
    BY <2>3 DEF missing, Incomplete
  <2> QED BY <1>1, <2>1, <2>4 DEF Ordered, OrderInv, Reading
<1>4. ~Advances(r) /\ \A n \in Runs, preflight \in Preflights : ~Create(r, n, preflight)
  <2>1. Advances(r) => handler'[r].at # "decide"
    <3>1. ASSUME NEW step \in {"load", "owner", "dispatch"}, Go(r, step) PROVE handler'[r].at # "decide"
      BY <1>1, <3>1 DEF Go, HandlerRecord
    <3>2. ASSUME NEW outcome \in Outcomes, Answer(r, outcome) PROVE handler'[r].at # "decide"
      BY <3>2, HandlerAnswers DEF Ordered, Inv
    <3> QED BY <3>1, <3>2 DEF Advances, Enqueue, Load, LookForOwner, Dispatch, Outcomes
  <2> QED BY <2>1, NewRun
<1> QED BY <1>2, <1>3, <1>4, CallSteps

LEMMA InTurnStays == Ordered /\ [Next]_vars => \A n \in Runs : InTurn(n)'
<1> SUFFICES ASSUME Ordered, [Next]_vars, NEW n \in Runs, Created(n)', NEW d \in Dependencies[run'[n].for]
             PROVE  request'[d].status = "completed"
  BY DEF InTurn, Created
<1>1. CASE Created(n)
  <2>1. run'[n].for = run[n].for /\ run[n].for \in Requests
    BY <1>1, RunsLast DEF Ordered, Inv, TypeOK, RunRecord
  <2>2. d \in Requests /\ request[d].status = "completed"
    BY <1>1, <2>1, QueueAssumption DEF Ordered, OrderInv, InTurn
  <2> QED BY <2>2, CompletedStays
<1>2. ASSUME NEW r \in Requests, NEW preflight \in Preflights, Create(r, n, preflight)
      PROVE  request'[d].status = "completed"
  BY <1>2, NewRun DEF Ordered, OrderInv, Awaited
<1> QED BY <1>1, <1>2, RunsLast
----------------------------------------------------------------------------
LEMMA InitOrder == Init => OrderInv
<1> SUFFICES ASSUME Init PROVE OrderInv
  OBVIOUS
<1>1. \A n \in Runs : ~Created(n) /\ supervisor[n] = "none"
  BY DEF Init, Created
<1>2. /\ \A r \in Requests : request[r] = Queued /\ handler[r] = Idle /\ view.seen[r] = Queued
      /\ view.at = "request"
  BY DEF Init, NoView
<1>3. Queued.status = "queued" /\ Idle.at = "idle" /\ Idle.op = "start"
  BY DEF Queued, Idle
<1> QED BY <1>1, <1>2, <1>3
        DEF OrderInv, Starting, Finished, Awaited, Ongoing, InTurn, Reading, Chosen, Dispatching

LEMMA Orderly == Forward /\ Spec => []Ordered
<1>1. Forward /\ Init => Ordered
  BY InitOK, InitOrder DEF Ordered, Init, QueuedFree, Free, NoView, Idle, Queued
<1>2. Ordered /\ [Next]_vars => Ordered'
  BY StepKeeps, StepKeepsFree, StartingStays, OngoingStays, FinishedStays, ReadingStays, AwaitedStays,
     InTurnStays DEF Ordered, OrderInv, Forward
<1> QED BY <1>1, <1>2, PTL DEF Spec

(* startProjectRun judges the dependencies from a reading that is old by    *)
(* the time the run is created, and the scheduler from an older one: still, *)
(* for any number of requests, overlapping calls, throws and crashes, no    *)
(* run is created before its dependencies are completed, and none of those  *)
(* is taken back, while nobody pauses, resumes or retries.                  *)
THEOREM DependenciesAwaited == Forward /\ Spec => []DependenciesFirst
<1>1. Ordered => DependenciesFirst
  <2> SUFFICES ASSUME Ordered, NEW n \in Runs, NEW d \in Dependencies[run[n].for], Created(n)
               PROVE  request[d].status = "completed" /\ run[request[d].run].status = "DONE"
    BY DEF DependenciesFirst
  <2>1. run[n].for \in Requests
    BY DEF Ordered, Inv, TypeOK, RunRecord
  <2>2. d \in Requests /\ request[d].status = "completed"
    BY <2>1, QueueAssumption DEF Ordered, OrderInv, InTurn
  <2> QED BY <2>2 DEF Ordered, OrderInv, Finished
<1> QED BY <1>1, Orderly, PTL

(* What the rollback of a resume breaks, nothing else does: while nobody     *)
(* pauses, resumes or retries, a run that is done stays done, whatever       *)
(* throws or crashes and however late a supervision writes its copy.         *)
THEOREM DoneStays == Forward /\ Spec => DoneIsFinal
<1>1. Ordered /\ [Next]_vars => [\A n \in Runs : run[n].status = "DONE" => run'[n].status = "DONE"]_run
  BY RunsLast
<1> QED BY <1>1, Orderly, PTL DEF Spec, DoneIsFinal
----------------------------------------------------------------------------
(* What the status of a request says of its run.  A supervision that may    *)
(* still write has a run that may still go on, or one the owner has paused. *)
Active(n) == supervisor[n] \notin {"none", "leaving"}

Calm(n) == Active(n) => run[n].status \in Runnable \cup {"PAUSED"}

(* A run belongs to the request it is linked to, and to the call that has   *)
(* chosen it; a call that has just read its request knows it.               *)
HasSeen(r) == view.by = r /\ (r < view.next \/ (r = view.next /\ view.at # "request"))

Its(r) ==
  /\ request[r].run # NoRun => run[request[r].run].for = r
  /\ handler[r].at \in Chosen => run[handler[r].run].for = r
  /\ HasSeen(r) => view.seen[r] = request[r]

(* A call that makes an ended or a waiting run ready again finds no         *)
(* supervision at work, and starts the run before anybody else can change   *)
(* it: only a resume that found the run paused is ever rolled back.         *)
Renews(h) == h.op = "retry" \/ (h.op = "resume" /\ h.saved.status # "PAUSED")

Prepared(r) ==
  LET h == handler[r]
      n == h.run
  IN
  /\ h.at = "change" /\ h.op = "resume" /\ h.saved.status # "PAUSED" => run[n].status # "PAUSED"
  /\ h.at \in {"enqueue", "load"} /\ Renews(h) => ~Active(n) /\ run[n].status = "READY"
  /\ h.at \in Dispatching => h.op \in {"start", "resume", "retry"}
  /\ h.at \in Dispatching \ {"enqueue"} => supervisor[n] = "none"
  /\ h.at \in {"owner", "dispatch"} => run[n].status \in Runnable
  /\ h.at = "rollback" => h.op = "resume" /\ h.saved.status = "PAUSED" /\ supervisor[n] = "none"

(* A request has the status of an ended run, or a reading is about to give  *)
(* it that status.                                                          *)
Writes(r, status) == view.at = "write" /\ view.next = r /\ view.found = status

Verdict(r, status) == request[r].status = StatusForRun(status) \/ Writes(r, status)

Parked(n) == run[n].status = "PAUSED" /\ ~Active(n)

Redoing(r) == handler[r].op = "retry" /\ handler[r].at \in Dispatching \cup {"record"}

(* Then the run has ended so, or was put back to PAUSED by a rollback, or   *)
(* is being retried by the call that has the lock of the request.           *)
Settled(r) ==
  \A status \in EndedRun : Verdict(r, status) =>
    /\ request[r].run # NoRun
    /\ \/ run[request[r].run].status = status \/ Parked(request[r].run)
       \/ status = "FAILED_FINAL" /\ Redoing(r)

(* While a retry is under way nothing but its completion is written to the  *)
(* request ...                                                              *)
Retrying(r) ==
  /\ handler[r].op = "retry"
  /\ \/ handler[r].at = "decide" /\ handler[r].mine.status = "failed"
     \/ handler[r].at \in Chosen

Failed(status) == status \in {"failed", "completed"}

Retried(r) ==
  Retrying(r) =>
    /\ Failed(request[r].status)
    /\ view.at = "run" /\ view.next = r => Failed(view.seen[r].status)
    /\ view.at = "write" /\ view.next = r => view.found = "DONE"

(* ... and a run that ended after a resume has read its request cannot be   *)
(* resumed any more.                                                        *)
Resuming(r) ==
  /\ handler[r].op = "resume"
  /\ \/ handler[r].at = "decide" /\ handler[r].mine.status = "waiting"
     \/ handler[r].at = "change"

Resumed(r) ==
  Resuming(r) => \A status \in EndedRun : Verdict(r, status) => run[request[r].run].status = status

TruthInv ==
  /\ \A n \in Runs : Calm(n)
  /\ \A r \in Requests : Its(r) /\ Prepared(r) /\ Settled(r) /\ Retried(r) /\ Resumed(r)

Truth == Known /\ TruthInv
----------------------------------------------------------------------------
(* What a step does to a run and its supervision.  A call changes only the  *)
(* run it has chosen.                                                       *)
Alters(r) == Pause(r) \/ Resume(r) \/ Retry(r) \/ RollBack(r) \/ Dispatch(r)

Same(n) == run'[n] = run[n] /\ supervisor'[n] = supervisor[n]

LEMMA RunMoves ==
  ASSUME faults' = 0, Inv, [Next]_vars, NEW n \in Runs
  PROVE  \/ Same(n)
         \/ SupervisorStep(n)
         \/ \E r \in Requests : Alters(r) /\ handler[r].run = n
         \/ \E r \in Requests, preflight \in Preflights : Create(r, n, preflight)
<1> DEFINE Goal == \/ Same(n)
                   \/ SupervisorStep(n)
                   \/ \E r \in Requests : Alters(r) /\ handler[r].run = n
                   \/ \E r \in Requests, preflight \in Preflights : Create(r, n, preflight)
<1>1. CASE UNCHANGED <<run, supervisor>>
  BY <1>1 DEF Same
<1>2. Faultless /\ \A m \in Runs : ~SupervisorThrows(m)
  BY NoFaults
<1>3. ASSUME NEW m \in Runs \ {n},
             UNCHANGED run \/ \E x : run' = [run EXCEPT ![m] = x],
             UNCHANGED supervisor \/ \E step : supervisor' = [supervisor EXCEPT ![m] = step]
      PROVE  Goal
  BY <1>3 DEF Same, Inv, TypeOK
<1>4. ASSUME NEW m \in Runs, SupervisorStep(m) PROVE Goal
  <2>1. \/ UNCHANGED run
        \/ \E status : Write(m, status)
    BY <1>4 DEF SupervisorStep, Supervise, StartRun, Reload, Advance, Conclude, Exhaust, Leave
  <2>2. ASSUME NEW status, Write(m, status) PROVE \E x : run' = [run EXCEPT ![m] = x]
    <3> DEFINE x == [run[m] EXCEPT !.status = status,
                                   !.retry = IF status = "FAILED_FINAL" /\ @ = "active"
                                             THEN "completed" ELSE @]
    <3>1. run' = [run EXCEPT ![m] = x]
      BY <2>2 DEF Write
    <3> HIDE DEF x
    <3> QED BY <3>1
  <2>3. \E step : supervisor' = [supervisor EXCEPT ![m] = step]
    BY <1>4 DEF SupervisorStep, Supervise, StartRun, Reload, Advance, Conclude, Exhaust, Leave, Supervised
  <2>4. CASE m = n
    BY <1>4, <2>4
  <2>5. CASE m # n
    BY <1>3, <2>1, <2>2, <2>3, <2>5
  <2> QED BY <2>4, <2>5
<1>5. ASSUME NEW r \in Requests, CallStep(r) PROVE Goal
  <2> DEFINE m == handler[r].run
  <2>1. CASE Alters(r)
    <3>1. handler[r].at \in Chosen
      BY <2>1 DEF Alters, Pause, Resume, Retry, RollBack, Dispatch, Changing, Chosen
    <3>2. m \in Runs
      BY <3>1, ChosenRun
    <3>3. CASE m = n
      BY <2>1, <3>3
    <3>4. CASE m # n
      <4>1. UNCHANGED run \/ \E x : run' = [run EXCEPT ![m] = x]
        <5>1. ASSUME NEW status, run' = [run EXCEPT ![m].status = status]
              PROVE  \E x : run' = [run EXCEPT ![m] = x]
          <6> DEFINE x == [run[m] EXCEPT !.status = status]
          <6>1. run' = [run EXCEPT ![m] = x]
            BY <5>1
          <6> HIDE DEF x
          <6> QED BY <6>1
        <5>2. CASE Retry(r)
          <6> DEFINE x == [run[m] EXCEPT !.status = "READY", !.retry = "active", !.cycle = @ + 1]
          <6>1. run' = [run EXCEPT ![m] = x]
            BY <5>2 DEF Retry
          <6> HIDE DEF x
          <6> QED BY <6>1
        <5>3. CASE RollBack(r)
          <6> DEFINE x == [run[m] EXCEPT !.status = handler[r].saved.status,
                                         !.retry = handler[r].saved.retry]
          <6>1. run' = [run EXCEPT ![m] = x]
            BY <5>3 DEF RollBack
          <6> HIDE DEF x
          <6> QED BY <6>1
        <5> QED BY <2>1, <5>1, <5>2, <5>3 DEF Alters, Pause, Resume, Dispatch
      <4>2. UNCHANGED supervisor \/ \E step : supervisor' = [supervisor EXCEPT ![m] = step]
        BY <2>1 DEF Alters, Pause, Resume, Retry, RollBack, Dispatch
      <4> QED BY <1>3, <3>2, <3>4, <4>1, <4>2
    <3> QED BY <3>3, <3>4
  <2>2. ASSUME NEW k \in Runs, NEW preflight \in Preflights, Create(r, k, preflight) PROVE Goal
    <3>1. UNCHANGED supervisor /\ \E x : run' = [run EXCEPT ![k] = x]
      BY <2>2 DEF Create
    <3>2. CASE k = n
      BY <2>2, <3>2
    <3>3. CASE k # n
      BY <1>3, <3>1, <3>3
    <3> QED BY <3>2, <3>3
  <2> QED BY <1>1, <1>5, <2>1, <2>2
          DEF CallStep, Alters, CallReads, CallHasRead, CallGivesUp, StartRefused, StartWaits, Cancel,
              Prepare, ChangeRefused, ChangeFails, Enqueue, Load, LookForOwner, Record
<1>6. CASE Visit \/ ReadingStep \/ Schedule \/ ScheduleStep
  BY <1>1, <1>6 DEF ReadingStep, Visit, ReadRequest, ReadRun, Project, VisitEnds, Schedule,
                   ScheduleStep, ScheduleReads, ScheduleGivesUp, ScheduleSelects, ScheduleReturns
<1>7. ASSUME NEW r \in Requests, ScheduledStart(r) \/ \E op \in Operations : Call(r, op)
      PROVE  Goal
  BY <1>1, <1>7 DEF ScheduledStart, Call
<1>8. CASE UNCHANGED vars
  BY <1>1, <1>8 DEF vars
<1> QED BY <1>2, <1>4, <1>5, <1>6, <1>7, <1>8 DEF Next, Faultless

(* A supervision that is not at work leaves the run alone; one that is, has *)
(* it running, ended or unchanged when it is done.                          *)
LEMMA Supervision ==
  ASSUME Inv, NEW n \in Runs, SupervisorStep(n), Calm(n)
  PROVE  /\ UNCHANGED <<request, handler, view>> /\ Calm(n)'
         /\ ~Active(n) => run'[n] = run[n] /\ ~Active(n)' /\ supervisor'[n] = "none"
         /\ run'[n].status = "PAUSED" => run[n].status = "PAUSED"
         /\ supervisor[n] # "none"
<1>1. supervisor \in [Runs -> SupervisorSteps] /\ run \in [Runs -> RunRecord]
  BY DEF Inv, TypeOK
<1>2. UNCHANGED <<request, handler, view>> /\ supervisor[n] # "none"
  BY DEF SupervisorStep, Supervise, StartRun, Reload, Advance, Conclude, Exhaust, Leave, Supervised
<1>3. ASSUME NEW step, Supervised(n, step) PROVE supervisor'[n] = step
  BY <1>1, <1>3 DEF Supervised
<1>4. ASSUME NEW status, Write(n, status) PROVE run'[n].status = status
  <2> DEFINE x == [run[n] EXCEPT !.status = status,
                                 !.retry = IF status = "FAILED_FINAL" /\ @ = "active"
                                           THEN "completed" ELSE @]
  <2>1. run' = [run EXCEPT ![n] = x]
    BY <1>4 DEF Write
  <2>2. x.status = status
    BY <1>1 DEF RunRecord
  <2> HIDE DEF x
  <2> QED BY <1>1, <2>1, <2>2
<1>5. CASE Supervise(n)
  BY <1>2, <1>3, <1>5 DEF Supervise, Calm, Active, Startable, Runnable
<1>6. CASE StartRun(n) \/ Advance(n)
  BY <1>2, <1>3, <1>4, <1>6 DEF StartRun, Advance, Calm, Active, Runnable
<1>7. CASE Reload(n)
  BY <1>2, <1>3, <1>7 DEF Reload, Calm, Active, Runnable
<1>8. CASE Conclude(n) \/ Exhaust(n)
  BY <1>2, <1>3, <1>4, <1>8 DEF Conclude, Exhaust, Calm, Active, Runnable
<1>9. CASE Leave(n)
  BY <1>2, <1>3, <1>9 DEF Leave, Calm, Active
<1> QED BY <1>5, <1>6, <1>7, <1>8, <1>9 DEF SupervisorStep

(* What the calls do to the runs they have chosen.                          *)
LEMMA Alterations ==
  ASSUME Inv, NEW r \in Requests, Alters(r)
  PROVE  LET n == handler[r].run IN
         /\ n \in Runs /\ handler[r].at \in Chosen /\ UNCHANGED <<request, view>>
         /\ Pause(r) => /\ handler[r].op = "pause" /\ run[n].status \in {"RUNNING", "READY"}
                        /\ run'[n].status = "PAUSED" /\ UNCHANGED supervisor
         /\ Resume(r) => /\ handler[r].op = "resume" /\ handler[r].at = "change"
                         /\ run[n].status \in {"PAUSED", "WAITING"}
                         /\ run'[n].status = "READY" /\ UNCHANGED supervisor
         /\ Retry(r) => /\ handler[r].op = "retry" /\ run[n].status = "FAILED_FINAL"
                        /\ run'[n].status = "READY" /\ UNCHANGED supervisor
         /\ RollBack(r) => /\ handler[r].at = "rollback" /\ UNCHANGED supervisor
                           /\ run'[n].status = handler[r].saved.status
         /\ Dispatch(r) => /\ handler[r].at = "dispatch" /\ UNCHANGED run
                           /\ supervisor'[n] = "called"
<1> DEFINE n == handler[r].run
<1>1. handler[r].at \in Chosen
  BY DEF Alters, Pause, Resume, Retry, RollBack, Dispatch, Changing, Chosen
<1>2. n \in Runs
  BY <1>1, ChosenRun
<1>3. run \in [Runs -> RunRecord] /\ supervisor \in [Runs -> SupervisorSteps]
  BY DEF Inv, TypeOK
<1> HIDE DEF n
<1>4. ASSUME NEW status, run' = [run EXCEPT ![n].status = status] PROVE run'[n].status = status
  <2> DEFINE x == [run[n] EXCEPT !.status = status]
  <2>1. run' = [run EXCEPT ![n] = x] /\ x.status = status
    BY <1>2, <1>3, <1>4 DEF RunRecord
  <2> HIDE DEF x
  <2> QED BY <1>2, <1>3, <2>1
<1>5. CASE Pause(r)
  BY <1>1, <1>2, <1>4, <1>5 DEF Pause, Resume, Retry, RollBack, Dispatch, Changing, n
<1>6. CASE Resume(r)
  BY <1>1, <1>2, <1>4, <1>6 DEF Pause, Resume, Retry, RollBack, Dispatch, Changing, n
<1>7. CASE Retry(r)
  <2> DEFINE x == [run[n] EXCEPT !.status = "READY", !.retry = "active", !.cycle = @ + 1]
  <2>1. run' = [run EXCEPT ![n] = x] /\ x.status = "READY"
    BY <1>2, <1>3, <1>7 DEF Retry, RunRecord, n
  <2> HIDE DEF x
  <2>2. run'[n].status = "READY"
    BY <1>2, <1>3, <2>1
  <2> QED BY <1>1, <1>2, <1>7, <2>2 DEF Pause, Resume, Retry, RollBack, Dispatch, Changing, n
<1>8. CASE RollBack(r)
  <2> DEFINE x == [run[n] EXCEPT !.status = handler[r].saved.status, !.retry = handler[r].saved.retry]
  <2>1. run' = [run EXCEPT ![n] = x] /\ x.status = handler[r].saved.status
    BY <1>2, <1>3, <1>8 DEF RollBack, RunRecord, n
  <2> HIDE DEF x
  <2>2. run'[n].status = handler[r].saved.status
    BY <1>2, <1>3, <2>1
  <2> QED BY <1>1, <1>2, <1>8, <2>2 DEF Pause, Resume, Retry, RollBack, Dispatch, Changing, n
<1>9. CASE Dispatch(r)
  BY <1>1, <1>2, <1>3, <1>9 DEF Pause, Resume, Retry, RollBack, Dispatch, Changing, n
<1> QED BY <1>5, <1>6, <1>7, <1>8, <1>9 DEF Alters, n

LEMMA GivenStays ==
  ASSUME Known, [Next]_vars, NEW n \in Runs, Created(n)
  PROVE  run'[n].for = run[n].for
<1>1. CASE \A m \in Runs : Kept(m)
  BY <1>1 DEF Kept
<1>2. ASSUME NEW r \in Requests, NEW m \in Runs, NEW preflight \in Preflights, Create(r, m, preflight)
      PROVE  run'[n].for = run[n].for
  <2>1. ~Created(m) /\ (n # m => run'[n] = run[n])
    BY <1>2, ChoosesNew
  <2> QED BY <2>1
<1> QED BY <1>1, <1>2, RunHistory

(* The runs a request can name, in its record or by its call, are its own.  *)
Owns(r, n) == n \in Runs /\ Created(n) /\ run[n].for = r

LEMMA Owners ==
  ASSUME Truth, NEW r \in Requests
  PROVE  /\ request[r].run # NoRun => Owns(r, request[r].run)
         /\ handler[r].at \in Chosen => Owns(r, handler[r].run)
<1>1. request[r].run # NoRun => request[r].run \in Runs
  BY DEF Truth, Known, Inv, TypeOK, WorkRequest
<1>2. handler[r].at \in Chosen => handler[r].run \in Runs
  BY ChosenRun DEF Truth, Known
<1> QED BY <1>1, <1>2 DEF Truth, Known, RunsInv, Real, TruthInv, Its, Owns

LEMMA OwnMoves ==
  ASSUME faults' = 0, Truth, [Next]_vars, NEW r \in Requests, NEW n, Owns(r, n)
  PROVE  \/ Same(n)
         \/ SupervisorStep(n)
         \/ Alters(r) /\ handler[r].run = n
<1>1. n \in Runs
  BY DEF Owns
<1>2. ASSUME NEW q \in Requests, Alters(q), handler[q].run = n PROVE q = r
  <2>1. handler[q].at \in Chosen
    BY <1>2, Alterations DEF Truth, Known
  <2> QED BY <1>2, <2>1, Owners DEF Owns
<1>3. ASSUME NEW q \in Requests, NEW preflight \in Preflights, Create(q, n, preflight) PROVE FALSE
  BY <1>1, <1>3 DEF Create, Owns, Created
<1>4. \/ Same(n) \/ SupervisorStep(n)
      \/ \E q \in Requests : Alters(q) /\ handler[q].run = n
      \/ \E q \in Requests, preflight \in Preflights : Create(q, n, preflight)
  BY <1>1, RunMoves DEF Truth, Known
<1> QED BY <1>2, <1>3, <1>4

LEMMA CalmStays ==
  ASSUME faults' = 0, Truth, [Next]_vars, NEW n \in Runs
  PROVE  Calm(n)'
<1> USE DEF Truth, Known
<1>1. Calm(n)
  BY DEF TruthInv
<1>2. CASE Same(n)
  BY <1>1, <1>2 DEF Same, Calm, Active
<1>3. CASE SupervisorStep(n)
  BY <1>1, <1>3, Supervision
<1>4. ASSUME NEW r \in Requests, Alters(r), handler[r].run = n PROVE Calm(n)'
  <2>1. CASE Dispatch(r)
    <3>1. run[n].status \in Runnable /\ UNCHANGED run
      BY <1>4, <2>1, Alterations DEF TruthInv, Prepared
    <3> QED BY <3>1 DEF Calm
  <2>2. CASE RollBack(r)
    <3>1. run'[n].status = "PAUSED"
      BY <1>4, <2>2, Alterations DEF TruthInv, Prepared
    <3> QED BY <3>1 DEF Calm
  <2>3. CASE Pause(r) \/ Resume(r) \/ Retry(r)
    <3>1. run'[n].status \in {"PAUSED", "READY"}
      BY <1>4, <2>3, Alterations
    <3> QED BY <3>1 DEF Calm, Runnable
  <2> QED BY <1>4, <2>1, <2>2, <2>3 DEF Alters
<1>5. ASSUME NEW r \in Requests, NEW preflight \in Preflights, Create(r, n, preflight) PROVE Calm(n)'
  <2>1. supervisor[n] = "none" /\ UNCHANGED supervisor
    BY <1>5, ChoosesNew DEF RunsInv, Real
  <2> QED BY <2>1 DEF Calm, Active
<1> QED BY <1>2, <1>3, <1>4, <1>5, RunMoves
----------------------------------------------------------------------------
(* What a step does to one request, and to a reading that has come to it.   *)
LEMMA RequestMoves ==
  ASSUME Inv, [Next]_vars, NEW r \in Requests
  PROVE  \/ request'[r] = request[r]
         \/ Project /\ view.next = r /\ request'[r].status = StatusForRun(view.found)
         \/ /\ StartWaits(r) \/ Cancel(r) \/ Record(r)
            /\ request'[r].status \in {"waiting", "cancelled", "running"}
<1>1. CASE UNCHANGED request
  BY <1>1
<1>2. CASE Project
  <2> DEFINE w == [status |-> StatusForRun(view.found), run |-> view.seen[view.next].run]
  <2>1. request' = [request EXCEPT ![view.next] = w] /\ w.status = StatusForRun(view.found)
    BY <1>2 DEF Project
  <2> HIDE DEF w
  <2>2. request \in [Requests -> WorkRequest]
    BY DEF Inv, TypeOK
  <2>3. CASE view.next = r
    BY <1>2, <2>1, <2>2, <2>3
  <2>4. CASE view.next # r
    BY <2>1, <2>2, <2>4
  <2> QED BY <2>3, <2>4
<1>3. ASSUME NEW q \in Requests, StartWaits(q) \/ Cancel(q) \/ Record(q)
      PROVE  \/ request'[r] = request[r]
             \/ q = r /\ request'[r].status \in {"waiting", "cancelled", "running"}
  <2>1. ASSUME NEW w, w.status \in {"waiting", "cancelled", "running"},
               request' = [request EXCEPT ![q] = w]
        PROVE  \/ request'[r] = request[r]
               \/ q = r /\ request'[r].status \in {"waiting", "cancelled", "running"}
    BY <2>1 DEF Inv, TypeOK
  <2>2. ASSUME NEW status \in {"waiting", "cancelled"}, request' = [request EXCEPT ![q].status = status]
        PROVE  \E w : w.status = status /\ request' = [request EXCEPT ![q] = w]
    <3> DEFINE w == [request[q] EXCEPT !.status = status]
    <3>1. w.status = status
      BY DEF Inv, TypeOK, WorkRequest
    <3>2. request' = [request EXCEPT ![q] = w]
      BY <2>2
    <3> HIDE DEF w
    <3> QED BY <3>1, <3>2
  <2>3. CASE Record(q)
    <3> DEFINE w == [status |-> IF handler[q].op = "pause" \/ handler[q].outcome = "not-configured"
                                THEN "waiting" ELSE "running", run |-> handler[q].run]
    <3>1. request' = [request EXCEPT ![q] = w] /\ w.status \in {"waiting", "running"}
      BY <2>3 DEF Record
    <3> HIDE DEF w
    <3> QED BY <2>1, <3>1
  <2>4. CASE StartWaits(q)
    BY <2>1, <2>2, <2>4 DEF StartWaits, Wait
  <2>5. CASE Cancel(q)
    BY <1>1, <2>1, <2>2, <2>5 DEF Cancel
  <2> QED BY <1>3, <2>3, <2>4, <2>5
<1> QED BY <1>1, <1>2, <1>3, Writers

LEMMA ReadingSteps ==
  ASSUME Inv, [Next]_vars
  PROVE  \/ UNCHANGED view
         \/ view'.at = "request"
         \/ /\ ReadRequest /\ view'.at = "run" /\ view'.next = view.next
            /\ view'.seen[view.next] = request[view.next]
         \/ /\ ReadRun /\ view.at = "run" /\ view'.at = "write" /\ view'.next = view.next
            /\ request[view.next].run # NoRun
            /\ view'.found = run[request[view.next].run].status
            /\ Projects(view.seen[view.next].status, StatusForRun(view'.found))
<1> DEFINE i == view.next
<1>1. view \in ViewRecord
  BY DEF Inv, TypeOK
<1>2. CASE view' = NoView
  BY <1>2 DEF NoView
<1>3. CASE \E who \in Requests \cup {Visitor, Scheduler} : BeginReading(who)
  BY <1>3 DEF BeginReading, NoView
<1>4. CASE Project
  BY <1>1, <1>4 DEF Project, ViewRecord
<1>5. CASE ReadRequest
  <2>1. view.next \in Requests /\ view'.seen[view.next] = request[view.next]
    BY <1>1, <1>5, ReadsRequest DEF ViewRecord
  <2>2. view.at = "request" /\ (request[view.next].run = NoRun => view'.at = "request")
    BY <1>1, <1>5 DEF ReadRequest, ViewRecord
  <2>3. request[view.next].run # NoRun => view'.at = "run" /\ view'.next = view.next
    BY <1>1, <1>5 DEF ReadRequest, ViewRecord
  <2> QED BY <1>5, <2>1, <2>2, <2>3
<1>6. CASE ReadRun
  <2> DEFINE found == run[view.seen[i].run].status
             stale == Projects(view.seen[i].status, StatusForRun(found))
  <2>1. /\ view.at = "run"
        /\ view' = [view EXCEPT !.at = IF stale THEN "write" ELSE "request",
                                !.found = IF stale THEN found ELSE @,
                                !.next = IF stale THEN @ ELSE @ + 1]
    BY <1>6 DEF ReadRun
  <2>2. view.seen[i].run # NoRun /\ request[i].run = view.seen[i].run
    BY <1>6, ReadsRun DEF Inv, LinkInv, ReadingInv, SeenLinks
  <2>3. stale <=> Projects(view.seen[i].status, StatusForRun(found))
    OBVIOUS
  <2> HIDE DEF stale
  <2>4. found = run[request[i].run].status
    BY <2>2
  <2> HIDE DEF found, i
  <2>5. CASE stale
    <3>1. view'.at = "write" /\ view'.next = view.next /\ view'.found = found
      BY <1>1, <2>1, <2>5 DEF ViewRecord
    <3> QED BY <1>6, <2>1, <2>2, <2>3, <2>4, <2>5, <3>1 DEF i
  <2>6. CASE ~stale
    BY <1>1, <2>1, <2>6 DEF ViewRecord
  <2> QED BY <2>5, <2>6
<1> QED BY <1>2, <1>3, <1>4, <1>5, <1>6, Readers

(* Only the status of an ended run makes a request completed or failed, and *)
(* a verdict is new only when a reading has just found it in the run.       *)
LEMMA Verdicts ==
  ASSUME NEW status \in EndedRun, NEW found, StatusForRun(found) = StatusForRun(status)
  PROVE  found = status
BY DEF StatusForRun, EndedRun

LEMMA EndedStatus ==
  ASSUME NEW status \in EndedRun
  PROVE  Failed(StatusForRun(status)) /\ status \notin Runnable \cup {"PAUSED", "WAITING"}
BY DEF StatusForRun, EndedRun, Failed, Runnable

LEMMA VerdictMoves ==
  ASSUME Truth, [Next]_vars, NEW r \in Requests, NEW status \in EndedRun, Verdict(r, status)'
  PROVE  /\ request[r].run # NoRun /\ request'[r].run = request[r].run
         /\ \/ Verdict(r, status)
            \/ UNCHANGED <<run, supervisor, handler>> /\ run[request[r].run].status = status
<1> DEFINE Found == /\ UNCHANGED <<run, supervisor, handler>> /\ request[r].run # NoRun
                    /\ run[request[r].run].status = status
<1> USE DEF Truth, Known
<1>1. ASSUME request'[r].status = StatusForRun(status) PROVE Verdict(r, status) \/ Found
  <2>1. request'[r].status \notin {"waiting", "cancelled", "running"}
    BY <1>1, EndedStatus DEF Failed
  <2>2. CASE request'[r] = request[r]
    BY <1>1, <2>2 DEF Verdict
  <2>3. CASE Project /\ view.next = r /\ request'[r].status = StatusForRun(view.found)
    <3>1. view.found = status
      BY <1>1, <2>3, Verdicts
    <3> QED BY <2>3, <3>1 DEF Verdict, Writes, Project
  <2> QED BY <2>1, <2>2, <2>3, RequestMoves
<1>2. ASSUME Writes(r, status)' PROVE Verdict(r, status) \/ Found
  <2>1. CASE UNCHANGED view
    BY <1>2, <2>1 DEF Verdict, Writes
  <2>2. CASE /\ ReadRun /\ view'.next = view.next /\ request[view.next].run # NoRun
             /\ view'.found = run[request[view.next].run].status
    BY <1>2, <2>2 DEF Writes, ReadRun
  <2> QED BY <1>2, <2>1, <2>2, ReadingSteps DEF Writes
<1>3. Verdict(r, status) \/ Found
  BY <1>1, <1>2 DEF Verdict
<1>4. request[r].run # NoRun
  BY <1>3 DEF TruthInv, Settled
<1> QED BY <1>3, <1>4, StepKeepsLinks
----------------------------------------------------------------------------
(* What a call remembers of itself as it goes on.                           *)
LEMMA ReadsOn ==
  ASSUME Known, NEW r \in Requests, CallHasRead(r)
  PROVE  handler'[r].op = handler[r].op /\ view' = NoView
<1> DEFINE missing == Incomplete(r, view.seen)
           h == [handler[r] EXCEPT !.at = "decide", !.mine = view.seen[r], !.missing = missing]
<1>1. handler[r] \in HandlerRecord
  BY DEF Known, Inv, TypeOK
<1>2. handler' = [handler EXCEPT ![r] = h] /\ view' = NoView
  BY DEF CallHasRead, EndReading
<1> HIDE DEF missing
<1>3. h.op = handler[r].op
  BY <1>1 DEF HandlerRecord
<1> HIDE DEF h
<1> QED BY <1>2, <1>3 DEF Known, Inv, TypeOK

LEMMA PreparesOn ==
  ASSUME Known, NEW r \in Requests, Prepare(r)
  PROVE  /\ handler[r].at = "decide" /\ handler'[r].op = handler[r].op
         /\ handler'[r].at = "change" /\ handler'[r].run = request[r].run
         /\ handler[r].op = "retry" => handler[r].mine.status = "failed"
         /\ handler[r].op = "resume" =>
              /\ handler[r].mine.status = "waiting"
              /\ handler'[r].saved.status = run[request[r].run].status
         /\ UNCHANGED <<request, run, supervisor, view>>
<1> DEFINE n == handler[r].mine.run
           saved == IF handler[r].op = "resume"
                    THEN [status |-> run[n].status, retry |-> run[n].retry] ELSE NoSaved
           h == [handler[r] EXCEPT !.at = "change", !.run = n, !.mine = Queued,
                                   !.missing = {}, !.saved = saved]
<1>1. handler[r] \in HandlerRecord
  BY DEF Known, Inv, TypeOK
<1>2. handler' = [handler EXCEPT ![r] = h]
  BY DEF Prepare, Mine
<1>3. n = request[r].run
  BY DEF Prepare, Known, Inv, LinkInv, CallInv
<1>4. handler[r].op = "resume" => saved.status = run[n].status
  OBVIOUS
<1> HIDE DEF saved, n
<1>5. h.op = handler[r].op /\ h.at = "change" /\ h.run = n /\ h.saved = saved
  BY <1>1 DEF HandlerRecord
<1> HIDE DEF h
<1>6. handler'[r] = h
  BY <1>2 DEF Known, Inv, TypeOK
<1>7. /\ handler[r].op = "retry" => handler[r].mine.status = "failed"
      /\ handler[r].op = "resume" => handler[r].mine.status = "waiting"
  BY DEF Prepare, MayChange, Mine
<1> QED BY <1>3, <1>4, <1>5, <1>6, <1>7 DEF Prepare

LEMMA GoesOn ==
  ASSUME Inv, NEW r \in Requests, Proceeds(r)
  PROVE  /\ handler'[r].op = handler[r].op /\ UNCHANGED <<request, view>>
         /\ Retry(r) \/ handler'[r].saved = handler[r].saved
<1>1. handler[r] \in HandlerRecord
  BY DEF Inv, TypeOK
<1>2. ASSUME NEW step, Go(r, step)
      PROVE  handler'[r].op = handler[r].op /\ handler'[r].saved = handler[r].saved
  BY <1>2, SavedGoes
<1>3. ASSUME NEW outcome, Answer(r, outcome)
      PROVE  handler'[r].op = handler[r].op /\ handler'[r].saved = handler[r].saved
  <2> DEFINE step == IF outcome = "not-configured" /\ handler[r].op # "start" THEN "rollback" ELSE "record"
             h == [handler[r] EXCEPT !.outcome = outcome, !.at = step]
  <2>1. handler' = [handler EXCEPT ![r] = h]
    BY <1>3 DEF Answer
  <2> HIDE DEF step
  <2>2. h.op = handler[r].op /\ h.saved = handler[r].saved
    BY <1>1 DEF HandlerRecord
  <2> HIDE DEF h
  <2> QED BY <2>1, <2>2 DEF Inv, TypeOK
<1>4. CASE Retry(r)
  <2> DEFINE h == [handler[r] EXCEPT !.at = "enqueue",
                                     !.saved = [status |-> "WAITING", retry |-> "completed"]]
  <2>1. handler' = [handler EXCEPT ![r] = h] /\ UNCHANGED <<request, view>>
    BY <1>4 DEF Retry
  <2>2. h.op = handler[r].op
    BY <1>1 DEF HandlerRecord
  <2> HIDE DEF h
  <2> QED BY <1>4, <2>1, <2>2 DEF Inv, TypeOK
<1> QED BY <1>2, <1>3, <1>4
        DEF Proceeds, Pause, Resume, Enqueue, Load, LookForOwner, Dispatch, RollBack

(* A step that alters a run takes its call to another place.                *)
LEMMA AltersOn ==
  ASSUME Inv, NEW r \in Requests, Alters(r)
  PROVE  ~Unmoved(r) /\ Proceeds(r)
<1>1. Proceeds(r)
  BY DEF Alters, Proceeds
<1>2. handler'[r].at # handler[r].at
  <2>1. CASE Pause(r) \/ Resume(r) \/ Retry(r)
    BY <1>1, <2>1, ProceedsOn DEF Pause, Resume, Retry, Changing
  <2>2. CASE RollBack(r)
    BY <2>2, SavedGoes DEF RollBack
  <2>3. CASE Dispatch(r)
    <3>1. handler'[r].at \in {"record", "rollback"} /\ handler[r].at = "dispatch"
      BY <2>3, SavedAnswers DEF Dispatch
    <3> QED BY <3>1
  <2> QED BY <2>1, <2>2, <2>3 DEF Alters
<1> QED BY <1>1, <1>2 DEF Unmoved
----------------------------------------------------------------------------
LEMMA ItsStay ==
  ASSUME faults' = 0, Truth, [Next]_vars, NEW r \in Requests
  PROVE  Its(r)'
<1> USE DEF Truth, Known
<1>1. ASSUME request'[r].run # NoRun PROVE run'[request'[r].run].for = r
  <2>1. CASE request[r].run # NoRun
    <3>1. request'[r].run = request[r].run /\ Owns(r, request[r].run)
      BY <2>1, StepKeepsLinks, Owners
    <3> QED BY <3>1, GivenStays DEF Owns
  <2>2. CASE Record(r)
    <3>1. handler[r].at \in Chosen /\ request'[r].run = handler[r].run
      BY <2>2 DEF Record, Chosen, Inv, TypeOK
    <3>2. Owns(r, handler[r].run)
      BY <3>1, Owners
    <3> QED BY <3>1, <3>2, GivenStays DEF Owns
  <2> QED BY <1>1, <2>1, <2>2, RequestHistory
<1>2. ASSUME handler'[r].at \in Chosen PROVE run'[handler'[r].run].for = r
  <2>1. CASE handler[r].at \in Chosen /\ handler'[r].run = handler[r].run
    <3>1. Owns(r, handler[r].run)
      BY <2>1, Owners
    <3> QED BY <2>1, <3>1, GivenStays DEF Owns
  <2>2. CASE Prepare(r)
    <3>1. request[r].run # NoRun /\ handler'[r].run = request[r].run
      BY <2>2, ChoosesExisting
    <3>2. Owns(r, request[r].run)
      BY <3>1, Owners
    <3> QED BY <3>1, <3>2, GivenStays DEF Owns
  <2>3. CASE \E n \in Runs, preflight \in Preflights : Create(r, n, preflight)
    BY <2>3, ChoosesNew
  <2>4. ~CallHasRead(r) /\ ~Record(r) /\ ~ChangeFails(r) /\ handler'[r].at \notin {"idle", "view"}
    BY <1>2, CallReadsMine, CallLeaves DEF Chosen
  <2> QED BY <1>2, <2>1, <2>2, <2>3, <2>4, CallHistory, ProceedsOn DEF Unmoved, Chooses
<1>3. ASSUME HasSeen(r)' PROVE view'.seen[r] = request'[r]
  <2>1. view.next \in Nat /\ r \in Nat /\ view.seen \in [Requests -> WorkRequest]
    BY QueueAssumption DEF Inv, TypeOK, ViewRecord, Requests
  <2>2. HasSeen(r) => view.seen[r] = request[r]
    BY DEF TruthInv, Its
  <2>3. CASE UNCHANGED view
    <3>1. handler[r].at = "view"
      BY <1>3, <2>3 DEF HasSeen, Inv, LinkInv, ReadingInv
    <3>2. ~StartWaits(r) /\ ~Cancel(r) /\ ~Record(r)
      BY <3>1 DEF StartWaits, Cancel, Record, Deciding
    <3>3. ~Project
      BY <2>3, Projected DEF Inv, TypeOK, ViewRecord
    <3>4. HasSeen(r)
      BY <1>3, <2>3 DEF HasSeen
    <3> QED BY <2>2, <2>3, <3>2, <3>3, <3>4, RequestMoves
  <2>4. CASE view' = NoView
    BY <1>3, <2>4, Constants DEF HasSeen, NoView
  <2>5. CASE ReadRequest
    <3>1. r = view.next \/ HasSeen(r)
      <4>1. view'.by = r /\ (r < view'.next \/ (r = view'.next /\ view'.at # "request"))
        BY <1>3 DEF HasSeen
      <4>2. r < view'.next \/ r = view.next
        <5>1. view.at = "request"
          BY <2>5 DEF ReadRequest
        <5>2. view'.at = "request" \/ view'.next = view.next \/ UNCHANGED view
          BY ReadingSteps
        <5> QED BY <4>1, <5>1, <5>2
      <4> QED BY <2>1, <2>5, <4>1, <4>2, ReadsRequest DEF HasSeen
    <3> QED BY <2>1, <2>2, <2>5, <3>1, ReadsRequest
  <2>6. CASE ReadRun
    <3>1. HasSeen(r)
      <4>1. view'.by = r /\ (r < view'.next \/ r = view'.next) /\ view.at = "run"
        BY <1>3, <2>6 DEF HasSeen, ReadRun
      <4>2. r < view.next \/ r = view.next \/ (r = view'.next /\ view'.next = view.next + 1)
        BY <2>1, <2>6, <4>1, ReadsRun
      <4>3. CASE r = view'.next /\ view'.next = view.next + 1
        <5>1. view'.at = "request"
          BY <2>1, <2>6, <4>3, ReadingSteps DEF ReadRequest
        <5> QED BY <1>3, <4>3, <5>1, <2>1 DEF HasSeen
      <4> QED BY <2>6, <4>1, <4>2, <4>3, ReadsRun DEF HasSeen
    <3> QED BY <2>2, <2>6, <3>1, ReadsRun
  <2>7. CASE Project
    <3>1. PICK w : /\ view.next \in Requests
                   /\ view'.by = view.by /\ view'.next = view.next + 1
                   /\ request' = [request EXCEPT ![view.next] = w]
                   /\ view'.seen = [view.seen EXCEPT ![view.next] = w]
      BY <2>7, Projected
    <3>2. view'.at = "request"
      BY <2>7 DEF Project, Inv, TypeOK, ViewRecord
    <3>3. r = view.next \/ HasSeen(r)
      BY <1>3, <2>1, <3>1, <3>2 DEF HasSeen
    <3> QED BY <2>1, <2>2, <3>1, <3>3 DEF Inv, TypeOK
  <2>8. CASE UNCHANGED request /\ \E who \in Requests \cup {Visitor, Scheduler} : BeginReading(who)
    BY <2>8 DEF BeginReading, NoView
  <2> QED BY <2>3, <2>4, <2>5, <2>6, <2>7, <2>8, Readers
<1> QED BY <1>1, <1>2, <1>3 DEF Its, Chosen

LEMMA PreparedStays ==
  ASSUME faults' = 0, Truth, [Next]_vars, NEW r \in Requests
  PROVE  Prepared(r)'
<1> DEFINE n == handler[r].run
<1> USE DEF Truth, Known
<1>1. Prepared(r) /\ \A m \in Runs : Calm(m)
  BY DEF TruthInv
<1>2. CASE handler'[r].at \notin Dispatching \cup {"change", "rollback"}
  BY <1>2 DEF Prepared, Dispatching
<1>3. CASE Unmoved(r) /\ handler[r].at \in Chosen
  <2>1. Owns(r, n) /\ n \in Runs
    BY <1>3, Owners DEF Owns
  <2>2. ~Alters(r)
    BY <1>3, AltersOn
  <2>3. CASE Same(n)
    BY <1>1, <1>3, <2>3 DEF Prepared, Unmoved, Same, Renews, Active
  <2>4. CASE SupervisorStep(n)
    <3>1. /\ ~Active(n) => run'[n] = run[n] /\ ~Active(n)' /\ supervisor'[n] = "none"
          /\ run'[n].status = "PAUSED" => run[n].status = "PAUSED"
          /\ supervisor[n] # "none"
      BY <1>1, <2>1, <2>4, Supervision
    <3>2. handler[r].at \notin {"load", "owner", "dispatch", "rollback"}
      BY <1>1, <3>1 DEF Prepared, Dispatching
    <3> QED BY <1>1, <1>3, <3>1, <3>2 DEF Prepared, Unmoved, Renews, Dispatching, Active
  <2> QED BY <2>1, <2>2, <2>3, <2>4, OwnMoves
<1>4. CASE Prepare(r)
  <2>1. handler'[r].at = "change" /\ handler'[r].run = request[r].run /\ UNCHANGED run
        /\ (handler'[r].op = "resume" => handler'[r].saved.status = run[request[r].run].status)
    BY <1>4, PreparesOn
  <2> QED BY <2>1 DEF Prepared, Dispatching
<1>5. CASE \E m \in Runs, preflight \in Preflights : Create(r, m, preflight)
  <2>1. handler'[r].at = "enqueue" /\ handler'[r].op = "start"
    BY <1>5, ChoosesNew
  <2> QED BY <2>1 DEF Prepared, Renews, Dispatching
<1>6. CASE Proceeds(r)
  <2>1. /\ handler'[r].op = handler[r].op /\ handler'[r].run = n
        /\ Retry(r) \/ handler'[r].saved = handler[r].saved
    BY <1>6, GoesOn, ProceedsOn
  <2>2. handler[r].at \in Chosen /\ n \in Runs
    BY <1>6, ProceedsOn, ChosenRun
  <2>3. CASE Pause(r) \/ RollBack(r)
    BY <1>2, <2>3, SavedGoes DEF Pause, RollBack, Dispatching
  <2>4. CASE Resume(r)
    <3>1. /\ handler[r].op = "resume" /\ handler[r].at = "change" /\ UNCHANGED supervisor
          /\ run[n].status \in {"PAUSED", "WAITING"} /\ run'[n].status = "READY"
      BY <2>4, Alterations DEF Alters
    <3>2. handler'[r].at = "enqueue" /\ handler'[r].saved = handler[r].saved
      BY <2>4, SavedGoes DEF Resume
    <3>3. handler[r].saved.status # "PAUSED" => ~Active(n)
      BY <1>1, <2>2, <3>1 DEF Prepared, Calm, Runnable
    <3> QED BY <2>1, <3>1, <3>2, <3>3 DEF Prepared, Renews, Dispatching, Active
  <2>5. CASE Retry(r)
    <3>1. handler[r].op = "retry" /\ UNCHANGED supervisor
          /\ run[n].status = "FAILED_FINAL" /\ run'[n].status = "READY"
      BY <2>5, Alterations DEF Alters
    <3>2. handler'[r].at = "enqueue"
      <4> DEFINE h == [handler[r] EXCEPT !.at = "enqueue",
                                         !.saved = [status |-> "WAITING", retry |-> "completed"]]
      <4>1. handler[r] \in HandlerRecord /\ handler' = [handler EXCEPT ![r] = h]
        BY <2>5 DEF Retry, Inv, TypeOK
      <4>2. h.at = "enqueue"
        BY <4>1 DEF HandlerRecord
      <4> HIDE DEF h
      <4> QED BY <4>1, <4>2 DEF Inv, TypeOK
    <3>3. ~Active(n)
      BY <1>1, <2>2, <3>1 DEF Calm, Runnable
    <3> QED BY <2>1, <3>1, <3>2, <3>3 DEF Prepared, Renews, Dispatching, Active
  <2>6. CASE Enqueue(r) \/ Load(r) \/ LookForOwner(r) \/ Dispatch(r)
    <3>1. CASE \E outcome \in Outcomes : Answer(r, outcome) /\ handler'[r].at = "record"
      BY <1>2, <3>1 DEF Dispatching
    <3>2. CASE Enqueue(r) /\ supervisor[n] = "none" /\ Go(r, "load")
      <4>1. handler[r].at = "enqueue" /\ handler'[r].at = "load" /\ handler'[r].saved = handler[r].saved
            /\ UNCHANGED <<run, supervisor>>
        BY <3>2, SavedGoes DEF Enqueue
      <4> QED BY <1>1, <2>1, <3>2, <4>1 DEF Prepared, Renews, Dispatching, Active
    <3>3. CASE Load(r) /\ run[n].status \in Runnable /\ Go(r, "owner")
      <4>1. handler[r].at = "load" /\ handler'[r].at = "owner" /\ UNCHANGED <<run, supervisor>>
        BY <3>3, SavedGoes DEF Load
      <4> QED BY <1>1, <2>1, <3>3, <4>1 DEF Prepared, Dispatching
    <3>4. CASE Load(r) /\ run[n].status \notin Runnable /\ handler'[r].at = "rollback"
                /\ handler[r].op # "start"
      <4>1. handler[r].at = "load" /\ UNCHANGED <<run, supervisor>> /\ ~Retry(r)
        BY <3>4 DEF Load, Retry, Changing
      <4>2. ~Renews(handler[r])
        BY <1>1, <3>4, <4>1 DEF Prepared, Runnable
      <4> QED BY <1>1, <2>1, <3>4, <4>1, <4>2 DEF Prepared, Renews, Dispatching
    <3>5. CASE LookForOwner(r) /\ Go(r, "dispatch")
      <4>1. handler[r].at = "owner" /\ handler'[r].at = "dispatch" /\ UNCHANGED <<run, supervisor>>
        BY <3>5, SavedGoes DEF LookForOwner
      <4> QED BY <1>1, <2>1, <4>1 DEF Prepared, Dispatching
    <3>6. ASSUME NEW outcome \in {"accepted", "already-active"}, Answer(r, outcome)
          PROVE  handler'[r].at = "record"
      <4>1. /\ handler'[r].at \in {"record", "rollback"}
            /\ handler'[r].at = "rollback" => outcome = "not-configured"
        BY <3>6, SavedAnswers
      <4> QED BY <4>1
    <3>7. ASSUME Answer(r, "not-configured")
          PROVE  handler'[r].at = "record" \/ (handler'[r].at = "rollback" /\ handler[r].op # "start")
      BY <3>7, SavedAnswers
    <3> QED BY <2>6, <3>1, <3>2, <3>3, <3>4, <3>5, <3>6, <3>7
            DEF Enqueue, Load, LookForOwner, Dispatch, Outcomes
  <2> QED BY <1>6, <2>3, <2>4, <2>5, <2>6 DEF Proceeds
<1>7. CASE CallHasRead(r) \/ Record(r) \/ ChangeFails(r)
  BY <1>2, <1>7, CallReadsMine, CallLeaves DEF Dispatching
<1> QED BY <1>2, <1>3, <1>4, <1>5, <1>6, <1>7, CallHistory DEF Unmoved, Chooses, Dispatching, Chosen

LEMMA SettledStays ==
  ASSUME faults' = 0, Truth, [Next]_vars, NEW r \in Requests
  PROVE  Settled(r)'
<1> USE DEF Truth, Known
<1>1. Prepared(r) /\ Settled(r) /\ Retried(r) /\ Resumed(r) /\ \A m \in Runs : Calm(m)
  BY DEF TruthInv
<1> SUFFICES ASSUME NEW status \in EndedRun, Verdict(r, status)'
             PROVE  /\ request'[r].run # NoRun
                    /\ \/ run'[request'[r].run].status = status
                       \/ Parked(request[r].run)'
                       \/ status = "FAILED_FINAL" /\ Redoing(r)'
  BY DEF Settled
<1>2. /\ request[r].run # NoRun /\ request'[r].run = request[r].run
      /\ \/ Verdict(r, status)
         \/ UNCHANGED <<run, supervisor, handler>> /\ run[request[r].run].status = status
  BY VerdictMoves
<1>3. PICK n \in Runs : n = request[r].run /\ Owns(r, n)
  BY <1>2, Owners DEF Owns
<1>4. ASSUME Verdict(r, status), run[n].status = status \/ Parked(n)
      PROVE  run'[n].status = status \/ Parked(n)' \/ (status = "FAILED_FINAL" /\ Redoing(r)')
  <2>1. status \notin Runnable \cup {"PAUSED", "WAITING"}
    BY EndedStatus
  <2>2. ~Active(n)
    BY <1>1, <1>3, <1>4, <2>1 DEF Calm, Parked
  <2>3. CASE Same(n)
    BY <1>4, <2>3 DEF Same, Parked, Active
  <2>4. CASE SupervisorStep(n)
    <3>1. run'[n] = run[n] /\ ~Active(n)'
      BY <1>1, <1>3, <2>2, <2>4, Supervision
    <3> QED BY <1>4, <3>1 DEF Parked
  <2>5. CASE Alters(r) /\ handler[r].run = n
    <3>1. run[n].status \notin Runnable \cup {"WAITING"}
      BY <1>4, <2>1 DEF Parked, Runnable
    <3>2. ~Pause(r)
      BY <2>5, <3>1, Alterations DEF Runnable
    <3>3. ~Resume(r)
      <4> SUFFICES ASSUME Resume(r) PROVE FALSE
        OBVIOUS
      <4>1. handler[r].op = "resume" /\ handler[r].at = "change" /\ run[n].status \in {"PAUSED", "WAITING"}
        BY <2>5, Alterations
      <4>2. run[n].status = status
        BY <1>1, <1>3, <1>4, <4>1 DEF Resumed, Resuming
      <4> QED BY <2>1, <4>1, <4>2
    <3>4. CASE Retry(r)
      <4>1. run[n].status = "FAILED_FINAL" /\ handler[r].op = "retry"
        BY <2>5, <3>4, Alterations
      <4>2. status = "FAILED_FINAL"
        BY <1>4, <4>1 DEF Parked
      <4>3. Redoing(r)'
        <5>1. handler'[r].op = "retry" /\ handler'[r].at \in Chosen \ {"change"}
          BY <2>5, <4>1, AltersOn, GoesOn, ProceedsOn
        <5>2. handler'[r].at # "rollback"
          BY <5>1, PreparedStays DEF Prepared
        <5> QED BY <5>1, <5>2 DEF Redoing, Chosen, Dispatching
      <4> QED BY <4>2, <4>3
    <3>5. CASE RollBack(r)
      <4>1. run'[n].status = "PAUSED" /\ supervisor'[n] = "none"
        BY <1>1, <2>5, <3>5, Alterations DEF Prepared
      <4> QED BY <4>1 DEF Parked, Active
    <3>6. ~Dispatch(r)
      <4> SUFFICES ASSUME Dispatch(r) PROVE FALSE
        OBVIOUS
      <4>1. run[n].status \in Runnable
        BY <1>1, <2>5, Alterations DEF Prepared
      <4> QED BY <3>1, <4>1
    <3> QED BY <2>5, <3>2, <3>3, <3>4, <3>5, <3>6 DEF Alters
  <2> QED BY <1>3, <2>3, <2>4, <2>5, OwnMoves
<1>5. ASSUME Verdict(r, status), status = "FAILED_FINAL", Redoing(r)
      PROVE  Redoing(r)'
  <2>1. handler[r].op = "retry" /\ handler[r].at \in Chosen \ {"change"}
    BY <1>5 DEF Redoing, Chosen, Dispatching
  <2>2. CASE Unmoved(r)
    BY <1>5, <2>2 DEF Redoing, Unmoved
  <2>3. CASE Proceeds(r)
    <3>1. handler'[r].op = "retry" /\ handler'[r].at \in Chosen \ {"change"}
      BY <2>1, <2>3, GoesOn, ProceedsOn
    <3>2. handler'[r].at # "rollback"
      BY <3>1, PreparedStays DEF Prepared
    <3> QED BY <3>1, <3>2 DEF Redoing, Chosen, Dispatching
  <2>4. ~Record(r)
    <3> SUFFICES ASSUME Record(r) PROVE FALSE
      OBVIOUS
    <3>1. request'[r].status \in {"waiting", "running"} /\ UNCHANGED view
      BY DEF Record, Inv, TypeOK
    <3>2. Failed(StatusForRun(status))
      BY EndedStatus
    <3>3. Writes(r, status)
      BY <3>1, <3>2 DEF Verdict, Writes, Failed
    <3>4. Retrying(r)
      BY <2>1 DEF Retrying
    <3> QED BY <1>1, <1>5, <3>3, <3>4 DEF Retried, Writes
  <2>5. ~CallHasRead(r) /\ ~Chooses(r) /\ ~ChangeFails(r)
    <3>1. handler[r].at \notin {"view", "decide", "change"}
      BY <2>1 DEF Chosen
    <3> QED BY <3>1 DEF CallHasRead, Chooses, Prepare, Create, Deciding, ChangeFails, Changing, Inv,
                        LinkInv, ReadingInv
  <2> QED BY <2>1, <2>2, <2>3, <2>4, <2>5, CallHistory
<1>6. CASE Verdict(r, status)
  <2>1. run[n].status = status \/ Parked(n) \/ (status = "FAILED_FINAL" /\ Redoing(r))
    BY <1>1, <1>3, <1>6 DEF Settled
  <2>2. run'[n].status = status \/ Parked(n)' \/ (status = "FAILED_FINAL" /\ Redoing(r)')
    BY <1>4, <1>5, <1>6, <2>1
  <2> QED BY <1>2, <1>3, <2>2 DEF Parked, Active
<1>7. CASE UNCHANGED <<run, supervisor, handler>> /\ run[request[r].run].status = status
  BY <1>2, <1>7
<1> QED BY <1>2, <1>6, <1>7

LEMMA RetriedStays ==
  ASSUME faults' = 0, Truth, [Next]_vars, NEW r \in Requests
  PROVE  Retried(r)'
<1> USE DEF Truth, Known
<1> SUFFICES ASSUME Retrying(r)'
             PROVE  /\ Failed(request'[r].status)
                    /\ view'.at = "run" /\ view'.next = r => Failed(view'.seen[r].status)
                    /\ view'.at = "write" /\ view'.next = r => view'.found = "DONE"
  BY DEF Retried, Failed
<1>1. Retried(r) /\ Its(r)
  BY DEF TruthInv
<1>2. handler'[r].op = "retry" /\ handler'[r].at \in Chosen \cup {"decide"}
  BY DEF Retrying, Chosen
<1>3. CASE CallHasRead(r)
  <2>1. handler'[r].mine = view.seen[r] /\ view' = NoView /\ UNCHANGED request
        /\ view.by = r /\ r < view.next /\ handler'[r].at = "decide"
    BY <1>3, CallReadsMine, ReadsOn
  <2>2. request[r].status = "failed"
    BY <1>1, <2>1 DEF Its, HasSeen, Retrying, Chosen
  <2> QED BY <2>1, <2>2 DEF NoView, Failed
<1>4. CASE Retrying(r)
  <2>1. /\ Failed(request[r].status)
        /\ view.at = "run" /\ view.next = r => Failed(view.seen[r].status)
        /\ view.at = "write" /\ view.next = r => view.found = "DONE"
    BY <1>1, <1>4 DEF Retried
  <2>2. Failed(request'[r].status)
    <3>1. ~StartWaits(r) /\ ~Cancel(r) /\ ~Record(r)
      BY <1>2, CallLeaves DEF Chosen
    <3>2. CASE Project /\ view.next = r /\ request'[r].status = StatusForRun(view.found)
      BY <2>1, <3>2 DEF Project, StatusForRun, Failed
    <3> QED BY <2>1, <3>1, <3>2, RequestMoves
  <2>3. view'.at = "run" /\ view'.next = r => Failed(view'.seen[r].status)
    <3>1. CASE UNCHANGED view
      BY <2>1, <3>1
    <3>2. CASE view'.next = view.next /\ view'.seen[view.next] = request[view.next]
      BY <2>1, <3>2
    <3> QED BY <3>1, <3>2, ReadingSteps
  <2>4. view'.at = "write" /\ view'.next = r => view'.found = "DONE"
    <3>1. CASE UNCHANGED view
      BY <2>1, <3>1
    <3>2. CASE /\ view.at = "run" /\ view'.next = view.next
               /\ Projects(view.seen[view.next].status, StatusForRun(view'.found))
      BY <2>1, <3>2 DEF Projects, Failed, EndedRequest, StatusForRun
    <3> QED BY <3>1, <3>2, ReadingSteps
  <2> QED BY <2>2, <2>3, <2>4
<1>5. CASE Unmoved(r)
  <2>1. Retrying(r)
    BY <1>5 DEF Retrying, Unmoved
  <2> QED BY <1>4, <2>1
<1>6. CASE Prepare(r)
  <2>1. Retrying(r)
    BY <1>2, <1>6, PreparesOn DEF Retrying
  <2> QED BY <1>4, <2>1
<1>7. CASE Proceeds(r)
  <2>1. Retrying(r)
    BY <1>2, <1>7, GoesOn, ProceedsOn DEF Retrying
  <2> QED BY <1>4, <2>1
<1>8. ~\E n \in Runs, preflight \in Preflights : Create(r, n, preflight)
  BY <1>2, ChoosesNew
<1>9. ~Record(r) /\ ~ChangeFails(r) /\ handler'[r].at \notin {"idle", "view"}
  BY <1>2, CallLeaves DEF Chosen
<1> QED BY <1>3, <1>5, <1>6, <1>7, <1>8, <1>9, CallHistory DEF Chooses

LEMMA ResumedStays ==
  ASSUME faults' = 0, Truth, [Next]_vars, NEW r \in Requests
  PROVE  Resumed(r)'
<1> USE DEF Truth, Known
<1> SUFFICES ASSUME Resuming(r)', NEW status \in EndedRun, Verdict(r, status)'
             PROVE  run'[request'[r].run].status = status
  BY DEF Resumed
<1>1. Resumed(r) /\ Its(r) /\ Prepared(r) /\ \A m \in Runs : Calm(m)
  BY DEF TruthInv
<1>2. handler'[r].op = "resume" /\ handler'[r].at \in {"decide", "change"}
  BY DEF Resuming
<1>3. CASE Resuming(r)
  <2>1. /\ request[r].run # NoRun /\ request'[r].run = request[r].run
        /\ \/ Verdict(r, status)
           \/ UNCHANGED <<run, supervisor, handler>> /\ run[request[r].run].status = status
    BY VerdictMoves
  <2>2. PICK n \in Runs : n = request[r].run /\ Owns(r, n)
    BY <2>1, Owners DEF Owns
  <2>3. run[n].status = status
    BY <1>1, <1>3, <2>1, <2>2 DEF Resumed
  <2>4. status \notin Runnable \cup {"PAUSED", "WAITING"}
    BY EndedStatus
  <2>5. CASE Same(n)
    BY <2>1, <2>2, <2>3, <2>5 DEF Same
  <2>6. CASE SupervisorStep(n)
    <3>1. ~Active(n)
      BY <1>1, <2>3, <2>4 DEF Calm
    <3> QED BY <1>1, <2>1, <2>2, <2>3, <2>6, <3>1, Supervision
  <2>7. ~(Alters(r) /\ handler[r].run = n)
    <3> SUFFICES ASSUME Alters(r), handler[r].run = n PROVE FALSE
      OBVIOUS
    <3>1. handler[r].op = "resume" /\ handler[r].at \in {"decide", "change"}
      BY <1>3 DEF Resuming
    <3> QED BY <2>3, <2>4, <3>1, Alterations DEF Alters
  <2> QED BY <2>2, <2>5, <2>6, <2>7, OwnMoves
<1>4. CASE CallHasRead(r)
  <2>1. handler'[r].mine = view.seen[r] /\ view' = NoView /\ UNCHANGED request
        /\ view.by = r /\ r < view.next /\ handler'[r].at = "decide"
    BY <1>4, CallReadsMine, ReadsOn
  <2>2. request'[r].status = "waiting"
    BY <1>1, <2>1 DEF Its, HasSeen, Resuming
  <2> QED BY <2>1, <2>2, EndedStatus DEF Verdict, Writes, NoView, Failed
<1>5. CASE Unmoved(r)
  <2>1. Resuming(r)
    BY <1>5 DEF Resuming, Unmoved
  <2> QED BY <1>3, <2>1
<1>6. CASE Prepare(r)
  <2>1. Resuming(r)
    BY <1>2, <1>6, PreparesOn DEF Resuming
  <2> QED BY <1>3, <2>1
<1>7. ~Proceeds(r)
  BY <1>2, ProceedsOn DEF Chosen
<1>8. ~\E n \in Runs, preflight \in Preflights : Create(r, n, preflight)
  BY <1>2, ChoosesNew
<1>9. ~Record(r) /\ ~ChangeFails(r) /\ handler'[r].at \notin {"idle", "view"}
  BY <1>2, CallLeaves
<1> QED BY <1>4, <1>5, <1>6, <1>7, <1>8, <1>9, CallHistory DEF Chooses
----------------------------------------------------------------------------
LEMMA InitTruth == Init => TruthInv
<1> SUFFICES ASSUME Init PROVE TruthInv
  OBVIOUS
<1>1. \A r \in Requests : request[r] = Queued /\ handler[r] = Idle
  BY DEF Init
<1>2. Queued.run = NoRun /\ Queued.status = "queued" /\ Idle.at = "idle" /\ NoView.at = "request"
  BY DEF Queued, Idle, NoView
<1>3. view = NoView /\ NoView.by \notin Requests /\ \A n \in Runs : supervisor[n] = "none"
  BY Constants DEF Init, NoView
<1>4. \A n \in Runs : Calm(n)
  BY <1>3 DEF Calm, Active
<1>5. ASSUME NEW r \in Requests
      PROVE  Its(r) /\ Prepared(r) /\ Settled(r) /\ Retried(r) /\ Resumed(r)
  <2>1. ASSUME NEW status \in EndedRun PROVE ~Verdict(r, status)
    BY <1>1, <1>2, <1>3, EndedStatus DEF Verdict, Writes, Failed
  <2>2. Its(r)
    BY <1>1, <1>2, <1>3 DEF Its, HasSeen, Chosen
  <2>3. Prepared(r)
    BY <1>1, <1>2 DEF Prepared, Dispatching
  <2>4. ~Retrying(r) /\ ~Resuming(r)
    BY <1>1, <1>2 DEF Retrying, Resuming, Chosen
  <2> QED BY <2>1, <2>2, <2>3, <2>4 DEF Settled, Retried, Resumed
<1> QED BY <1>4, <1>5 DEF TruthInv

TruthSoFar == KnownSoFar /\ (faults = 0 => TruthInv)

LEMMA FaultlessTruth == Spec => []TruthSoFar
<1>1. Init => TruthSoFar
  BY InitTruth, InitOK, InitRuns DEF TruthSoFar, KnownSoFar, Init, QueuedFree, Free, NoView, Idle, Queued
<1>2. TruthSoFar /\ KnownSoFar' /\ [Next]_vars => TruthSoFar'
  <2> SUFFICES ASSUME TruthSoFar, [Next]_vars, faults' = 0 PROVE TruthInv'
    BY DEF TruthSoFar
  <2>1. Truth
    BY FaultsCounted DEF TruthSoFar, KnownSoFar, Truth, Known
  <2>2. \A n \in Runs : Calm(n)'
    BY <2>1, CalmStays
  <2>3. ASSUME NEW r \in Requests
        PROVE  (Its(r) /\ Prepared(r) /\ Settled(r) /\ Retried(r) /\ Resumed(r))'
    BY <2>1, ItsStay, PreparedStays, SettledStays, RetriedStays, ResumedStays
  <2> QED BY <2>2, <2>3 DEF TruthInv
<1> QED BY <1>1, <1>2, FaultlessRuns, PTL DEF Spec

(* getProject completes a request only for a run it has found done: without *)
(* a fault, no supervision, pause, resume or retry takes the run on from    *)
(* there, except for the rollback of a resume that puts it back to PAUSED.  *)
THEOREM CompletedIsTrue == Spec => []CompletedTruthful
<1>1. TruthSoFar => CompletedTruthful
  <2> SUFFICES ASSUME TruthInv, NEW r \in Requests, request[r].status = "completed"
               PROVE  run[request[r].run].status \in {"DONE", "PAUSED"}
    BY DEF CompletedTruthful, TruthSoFar
  <2>1. Verdict(r, "DONE")
    BY DEF Verdict, StatusForRun
  <2> QED BY <2>1 DEF TruthInv, Settled, EndedRun, Parked
<1> QED BY <1>1, FaultlessTruth, PTL

(* retryProjectRun and resumeProjectRun leave a request failed only while   *)
(* its run has failed for good, or was put back to PAUSED: without a fault  *)
(* no other call, reading or supervision makes a failed request one whose   *)
(* run is active.                                                           *)
THEOREM FailedIsTrue == Spec => []FailedTruthful
<1>1. TruthSoFar => FailedTruthful
  <2> SUFFICES ASSUME TruthInv, NEW r \in Requests, request[r].status = "failed",
                      handler[r].at = "idle"
               PROVE  run[request[r].run].status \in EndedRun \cup {"PAUSED"}
    BY DEF FailedTruthful, TruthSoFar
  <2>1. Verdict(r, "FAILED_FINAL") /\ "FAILED_FINAL" \in EndedRun
    BY DEF Verdict, StatusForRun, EndedRun
  <2>2. ~Redoing(r)
    BY DEF Redoing, Dispatching
  <2> QED BY <2>1, <2>2 DEF TruthInv, Settled, Parked
<1> QED BY <1>1, FaultlessTruth, PTL
----------------------------------------------------------------------------
(* The slots of the scheduler.  Where the owner only schedules and cancels, *)
(* a request is started by the scheduler alone, and no request starts while *)
(* the next schedule reads which ones are running: a schedule leaves no     *)
(* start behind, unless one of several was rejected before the others ended. *)
Scheduled == Forward /\ "start" \notin Operations

NoneLeftBehind == MaxConcurrent = 1 \/ scheduler # "rejected"

Inflight == {r \in Requests : <<r, "current">> \in pending \/ handler[r].caller = "schedule"}
Running == {r \in Requests : request[r].status = "running"}

OfSchedule(r) ==
  /\ <<r, "past">> \notin pending
  /\ <<r, "current">> \in pending => handler[r].caller = "owner"
  /\ handler[r].caller = "schedule" <=> handler[r].at # "idle" /\ handler[r].op = "start"

Alternating ==
  /\ \A r \in Requests : OfSchedule(r)
  /\ scheduler # "starting" => Inflight = {}
  /\ view.by = Scheduler => scheduler = "view"

(* A run that has stopped is never started again, and a request that waits  *)
(* for its run waits for one that has stopped: no reading makes it running. *)
Quiet(n) == Active(n) => run[n].status \in Runnable

Stopped(n) == ~Active(n) /\ run[n].status \notin Runnable \cup {"absent"}

Waits(w) == w.status = "waiting" /\ w.run # NoRun => Stopped(w.run)
Links(w) == w.status = "running" => w.run # NoRun

Occupies(r) ==
  /\ Waits(request[r]) /\ Links(request[r])
  /\ Waits(view.seen[r]) /\ Links(view.seen[r])
  /\ handler[r].at \in {"owner", "dispatch"} => run[handler[r].run].status \in Runnable
  /\ handler[r].at = "record" /\ handler[r].outcome = "not-configured" => Stopped(handler[r].run)
  /\ view.by = Scheduler /\ request[r].status = "running" => view.seen[r].status = "running"

Halts ==
  /\ \A n \in Runs : Quiet(n)
  /\ \A r \in Requests : Occupies(r)
  /\ view.at = "write" =>
       Stopped(view.seen[view.next].run) /\ view.found \notin Runnable \cup {"absent"}

Bounded == Cardinality(Running \cup Inflight) <= MaxConcurrent

SlotsInv == Alternating /\ Halts /\ Bounded

Slotted == Scheduled /\ Ordered /\ SlotsInv
----------------------------------------------------------------------------
(* Of some numbered requests, those with fewer than k before them are at    *)
(* most k.                                                                  *)
LEMMA LastIn ==
  ASSUME NEW S \in SUBSET Requests, S # {}
  PROVE  \E r \in S : \A q \in S : q <= r
<1> DEFINE R == {ss \in Nat \X Nat : ss[1] < ss[2]}
           T == {N - r : r \in S}
<1>1. N \in Nat /\ S \subseteq 1 .. N
  BY QueueAssumption DEF Requests
<1>2. IsWellFoundedOn(R, Nat)
  BY NatLessThanWellFounded DEF OpToRel
<1>3. T \subseteq Nat /\ T # {}
  <2>1. \A r \in S : N - r \in Nat
    BY <1>1
  <2> QED BY <2>1
<1>4. PICK m \in T : \A k \in T : <<k, m>> \notin R
  <2> HIDE DEF R, T
  <2> QED BY <1>2, <1>3, WFMin
<1>5. \A k \in T : ~(k < m)
  <2>1. ASSUME NEW k \in T PROVE ~(k < m)
    <3>1. <<k, m>> \in Nat \X Nat
      BY <1>3
    <3> QED BY <1>4, <3>1
  <2> QED BY <2>1
<1>6. PICK r \in S : m = N - r
  BY <1>4
<1>7. ASSUME NEW q \in S PROVE q <= r
  <2>1. ~(N - q < N - r)
    BY <1>5, <1>6
  <2> QED BY <1>1, <2>1
<1> QED BY <1>6, <1>7

LEMMA FiniteRequests == \A S \in SUBSET Requests : IsFiniteSet(S) /\ Cardinality(S) \in Nat
<1>1. IsFiniteSet(Requests)
  BY FS_Interval, QueueAssumption DEF Requests
<1> QED BY <1>1, FS_Subset, FS_CardinalityType

LEMMA FewBefore ==
  ASSUME NEW S \in SUBSET Requests, NEW k \in Nat
  PROVE  Cardinality({r \in S : Cardinality({q \in S : q < r}) < k}) <= k
<1> DEFINE First == {r \in S : Cardinality({q \in S : q < r}) < k}
<1>1. First \in SUBSET Requests /\ IsFiniteSet(First) /\ Cardinality(First) \in Nat
  BY FiniteRequests
<1>2. \A r \in First : r \in S /\ Cardinality({q \in S : q < r}) < k
  OBVIOUS
<1>3. \A q, r \in First : q <= r /\ q # r => q < r
  BY <1>1, QueueAssumption DEF Requests
<1> SUFFICES Cardinality(First) <= k
  OBVIOUS
<1> HIDE DEF First
<1>4. CASE First = {}
  BY <1>4, FS_EmptySet
<1>5. CASE First # {}
  <2>1. PICK r \in First : \A q \in First : q <= r
    BY <1>1, <1>5, LastIn
  <2> DEFINE Before == {q \in S : q < r}
  <2>2. Cardinality(Before) < k /\ Before \in SUBSET Requests
    BY <1>2, <2>1
  <2>3. First \ {r} \subseteq Before
    BY <1>2, <1>3, <2>1
  <2> HIDE DEF Before
  <2>4. Cardinality(First \ {r}) = Cardinality(First) - 1
    BY <1>1, <2>1, FS_RemoveElement
  <2>5. IsFiniteSet(Before) /\ Cardinality(Before) \in Nat
    BY <2>2, FiniteRequests
  <2>6. Cardinality(First \ {r}) <= Cardinality(Before)
    BY <2>3, <2>5, FS_Subset
  <2> QED BY <1>1, <2>2, <2>4, <2>5, <2>6
<1> QED BY <1>4, <1>5
----------------------------------------------------------------------------
(* What a step does to the calls, to the scheduler and to what it started.  *)
Continues(r) ==
  \E h : /\ handler' = [handler EXCEPT ![r] = h]
         /\ handler[r].at # "idle" /\ h.at # "idle"
         /\ h.op = handler[r].op /\ h.caller = handler[r].caller
         /\ h.outcome = handler[r].outcome \/ Advances(r)

Leaves(r) == handler[r].at # "idle" /\ (Return(r) \/ Reject(r))

Withdraws == scheduler' = "idle" /\ (ScheduleGivesUp \/ (ReadingThrows /\ view.by = Scheduler))

LEMMA CallContinues ==
  ASSUME Ordered, NEW r \in Requests, CallStep(r)
  PROVE  UNCHANGED pending /\ (UNCHANGED <<handler, scheduler>> \/ (UNCHANGED scheduler /\ Continues(r)) \/ Leaves(r))
<1> DEFINE Goal == UNCHANGED <<handler, scheduler>> \/ (UNCHANGED scheduler /\ Continues(r)) \/ Leaves(r)
<1>1. UNCHANGED pending
  BY DEF CallStep, CallReads, CallHasRead, CallGivesUp, StartRefused, StartWaits, Create, Cancel, Prepare,
         ChangeRefused, Pause, Resume, Retry, ChangeFails, Enqueue, Load, LookForOwner, Dispatch, RollBack,
         Record
<1> SUFFICES Goal
  BY <1>1
<1>2. handler[r] \in HandlerRecord
  BY DEF Ordered, Inv, TypeOK
<1>3. ASSUME NEW step, step # "idle", handler[r].at # "idle", UNCHANGED scheduler, Go(r, step), Advances(r)
      PROVE  Goal
  <2> DEFINE h == [handler[r] EXCEPT !.at = step]
  <2>1. handler' = [handler EXCEPT ![r] = h]
    BY <1>3 DEF Go
  <2>2. h.at # "idle" /\ h.op = handler[r].op /\ h.caller = handler[r].caller
    BY <1>2, <1>3 DEF HandlerRecord
  <2> HIDE DEF h
  <2> QED BY <1>3, <2>1, <2>2 DEF Continues
<1>4. ASSUME NEW outcome, handler[r].at # "idle", UNCHANGED scheduler, Answer(r, outcome), Advances(r)
      PROVE  Goal
  <2> DEFINE step == IF outcome = "not-configured" /\ handler[r].op # "start" THEN "rollback" ELSE "record"
             h == [handler[r] EXCEPT !.outcome = outcome, !.at = step]
  <2>1. handler' = [handler EXCEPT ![r] = h]
    BY <1>4 DEF Answer
  <2>2. step # "idle"
    OBVIOUS
  <2> HIDE DEF step
  <2>3. h.at # "idle" /\ h.op = handler[r].op /\ h.caller = handler[r].caller
    BY <1>2, <2>2 DEF HandlerRecord
  <2> HIDE DEF h
  <2> QED BY <1>4, <2>1, <2>3 DEF Continues
<1>5. CASE CallHasRead(r)
  <2> DEFINE missing == Incomplete(r, view.seen)
             h == [handler[r] EXCEPT !.at = "decide", !.mine = view.seen[r], !.missing = missing]
  <2>1. handler' = [handler EXCEPT ![r] = h] /\ UNCHANGED scheduler
    BY <1>5 DEF CallHasRead
  <2> HIDE DEF missing
  <2>2. h.at # "idle" /\ h.op = handler[r].op /\ h.caller = handler[r].caller /\ h.outcome = handler[r].outcome
    BY <1>2 DEF HandlerRecord
  <2>3. handler[r].at = "view"
    BY <1>5 DEF CallHasRead, Ordered, Inv, LinkInv, ReadingInv
  <2> HIDE DEF h
  <2>4. handler[r].at # "idle"
    BY <2>3
  <2>5. Continues(r)
    BY <2>1, <2>2, <2>4 DEF Continues
  <2> QED BY <2>1, <2>5
<1>6. ASSUME NEW n \in Runs, NEW preflight \in Preflights, Create(r, n, preflight) PROVE Goal
  <2> DEFINE h == [handler[r] EXCEPT !.at = "enqueue", !.run = n, !.mine = Queued]
  <2>1. handler' = [handler EXCEPT ![r] = h] /\ UNCHANGED scheduler /\ handler[r].at = "decide"
    BY <1>6 DEF Create, Deciding
  <2>2. h.at # "idle" /\ h.op = handler[r].op /\ h.caller = handler[r].caller /\ h.outcome = handler[r].outcome
    BY <1>2 DEF HandlerRecord
  <2> HIDE DEF h
  <2> QED BY <2>1, <2>2 DEF Continues
<1>7. ~Prepare(r) /\ ~Pause(r) /\ ~Resume(r) /\ ~Retry(r) /\ ~RollBack(r)
  <2>1. handler[r].op \in {"start", "cancel"} /\ handler[r].at # "rollback"
    BY DEF Ordered, OrderInv, Starting
  <2> QED BY <2>1 DEF Prepare, Pause, Resume, Retry, RollBack, Changing
<1>8. CASE Enqueue(r) \/ Load(r) \/ LookForOwner(r) \/ Dispatch(r)
  BY <1>3, <1>4, <1>8 DEF Enqueue, Load, LookForOwner, Dispatch, Advances
<1>9. CASE CallGivesUp(r) \/ StartRefused(r) \/ StartWaits(r) \/ Cancel(r) \/ ChangeRefused(r)
           \/ ChangeFails(r) \/ Record(r)
  BY <1>9 DEF CallGivesUp, StartRefused, StartWaits, Cancel, ChangeRefused, ChangeFails, Record, Leaves,
              Deciding, Changing
<1> QED BY <1>5, <1>6, <1>7, <1>8, <1>9 DEF CallStep, CallReads

LEMMA SlotSteps ==
  ASSUME Scheduled, Ordered, [Next]_vars
  PROVE  \/ UNCHANGED <<handler, scheduler, pending>>
         \/ \E r \in Requests : UNCHANGED <<scheduler, pending>> /\ Continues(r)
         \/ \E r \in Requests : UNCHANGED pending /\ Leaves(r)
         \/ \E r \in Requests : Call(r, "cancel") \/ ScheduledStart(r)
         \/ Schedule \/ (UNCHANGED <<handler, pending>> /\ Withdraws)
         \/ ScheduleSelects \/ ScheduleReturns \/ Crash
<1> DEFINE Goal == \/ UNCHANGED <<handler, scheduler, pending>>
                   \/ \E r \in Requests : UNCHANGED <<scheduler, pending>> /\ Continues(r)
                   \/ \E r \in Requests : UNCHANGED pending /\ Leaves(r)
                   \/ \E r \in Requests : Call(r, "cancel") \/ ScheduledStart(r)
                   \/ Schedule \/ (UNCHANGED <<handler, pending>> /\ Withdraws)
                   \/ ScheduleSelects \/ ScheduleReturns \/ Crash
<1> SUFFICES Goal
  OBVIOUS
<1>1. ASSUME NEW r \in Requests, CallStep(r) PROVE Goal
  BY <1>1, CallContinues
<1>2. ASSUME NEW r \in Requests, NEW op \in Operations, Call(r, op) PROVE Goal
  <2>1. op = "cancel"
    BY <1>2, QueueAssumption DEF Call, Scheduled, Forward
  <2> QED BY <1>2, <2>1
<1>3. ASSUME NEW r \in Requests, CallThrows(r) PROVE Goal
  BY <1>3 DEF CallThrows, Leaves
<1>4. CASE ReadingThrows
  <2>1. CASE view.by \in Requests /\ Reject(view.by)
    <3>1. handler[view.by].at = "view"
      BY <2>1 DEF Ordered, Inv, LinkInv, ReadingInv
    <3> QED BY <1>4, <2>1, <3>1 DEF ReadingThrows, Leaves
  <2> QED BY <1>4, <2>1 DEF ReadingThrows, Withdraws
<1>5. CASE Visit \/ ReadingStep \/ ScheduleReads \/ ScheduleGivesUp
  BY <1>5 DEF Visit, ReadingStep, ReadRequest, ReadRun, Project, VisitEnds, ScheduleReads, ScheduleGivesUp,
              Withdraws
<1>6. ASSUME NEW n \in Runs, SupervisorStep(n) \/ SupervisorThrows(n) PROVE Goal
  BY <1>6 DEF SupervisorStep, SupervisorThrows, Supervise, StartRun, Reload, Advance, Conclude, Exhaust,
              Leave, Supervised
<1>7. CASE UNCHANGED vars
  BY <1>7 DEF vars
<1>8. CASE Schedule \/ ScheduleStep \/ Crash
  BY <1>5, <1>8 DEF ScheduleStep
<1>9. ASSUME NEW r \in Requests, ScheduledStart(r) PROVE Goal
  BY <1>9
<1> HIDE DEF Goal
<1> QED BY <1>1, <1>2, <1>3, <1>4, <1>5, <1>6, <1>7, <1>8, <1>9 DEF Next

(* Only a schedule lets the scheduler read.                                 *)
LEMMA SchedulerReads ==
  ASSUME Inv, [Next]_vars, view'.by = Scheduler
  PROVE  view.by = Scheduler \/ ScheduleReads
<1> DEFINE Goal == view.by = Scheduler \/ ScheduleReads
<1>1. view \in ViewRecord
  BY DEF Inv, TypeOK
<1>2. \A r \in Requests : r # Scheduler
  BY QueueAssumption DEF Scheduler, Requests
<1>3. Visitor # Scheduler /\ Nobody # Scheduler
  BY QueueAssumption DEF Scheduler, Visitor, Nobody
<1>4. CASE UNCHANGED view
  BY <1>4
<1>5. ASSUME NEW who, BeginReading(who) PROVE who = Scheduler
  BY <1>5 DEF BeginReading, NoView
<1>6. view' # NoView
  BY <1>3 DEF NoView
<1>7. CASE Visit \/ ReadingStep \/ ReadingThrows
  <2>1. CASE ReadRequest \/ ReadRun \/ Project
    BY <1>1, <2>1, ReadsRequest, ReadsRun, Projected
  <2> QED BY <1>3, <1>5, <1>6, <1>7, <2>1 DEF ReadingStep, Visit, VisitEnds, EndReading, ReadingThrows
<1>8. ASSUME NEW r \in Requests, CallStep(r) PROVE Goal
  BY <1>2, <1>4, <1>5, <1>6, <1>8
     DEF CallStep, CallReads, CallHasRead, EndReading, CallGivesUp, StartRefused, StartWaits,
         Create, Cancel, Prepare, ChangeRefused, Pause, Resume, Retry, ChangeFails, Enqueue,
         Load, LookForOwner, Dispatch, RollBack, Record
<1>9. ASSUME NEW r \in Requests, ScheduledStart(r) \/ CallThrows(r) \/ \E op \in Operations : Call(r, op)
      PROVE  UNCHANGED view
  BY <1>9 DEF ScheduledStart, CallThrows, Call
<1>10. CASE Schedule \/ ScheduleStep
  BY <1>4, <1>6, <1>10 DEF Schedule, ScheduleStep, ScheduleGivesUp, ScheduleSelects, ScheduleReturns, EndReading
<1>11. ASSUME NEW n \in Runs, SupervisorStep(n) \/ SupervisorThrows(n) PROVE UNCHANGED view
  BY <1>11 DEF SupervisorStep, SupervisorThrows, Supervise, StartRun, Reload, Advance, Conclude,
              Exhaust, Leave, Supervised
<1>12. CASE Crash \/ UNCHANGED vars
  BY <1>4, <1>6, <1>12 DEF Crash, vars
<1> QED BY <1>4, <1>7, <1>8, <1>9, <1>10, <1>11, <1>12 DEF Next
----------------------------------------------------------------------------
(* The scheduler and its starts take turns.                                 *)
LEMMA Alone ==
  ASSUME Bounded, MaxConcurrent = 1, NEW r \in Inflight
  PROVE  Inflight = {r}
<1> DEFINE S == Running \cup Inflight
<1>1. IsFiniteSet(S) /\ Cardinality(S) \in Nat /\ Cardinality(S) <= 1
  BY FiniteRequests DEF Running, Inflight, Bounded
<1>2. r \in S /\ Inflight \subseteq S
  OBVIOUS
<1> HIDE DEF S
<1>3. IsFiniteSet(S \ {r}) /\ Cardinality(S \ {r}) = Cardinality(S) - 1
  BY <1>1, <1>2, FS_RemoveElement
<1>4. Cardinality(S \ {r}) \in Nat
  BY <1>3, FS_CardinalityType
<1>5. Cardinality(S \ {r}) = 0
  BY <1>1, <1>3, <1>4
<1>6. S \ {r} = {}
  BY <1>3, <1>5, FS_EmptySet
<1> QED BY <1>2, <1>6

Turns == (\A r \in Requests : OfSchedule(r)) /\ (scheduler # "starting" => Inflight = {})

LEMMA StartsMove ==
  ASSUME Slotted, [Next]_vars, NoneLeftBehind'
  PROVE  Turns' /\ (Inflight' \subseteq Inflight \/ ScheduleSelects)
<1> DEFINE Goal == Turns' /\ (Inflight' \subseteq Inflight \/ ScheduleSelects)
<1> SUFFICES Goal
  OBVIOUS
<1>1. /\ handler \in [Requests -> HandlerRecord] /\ pending \subseteq Requests \X Schedules
      /\ \A r \in Requests : OfSchedule(r) 
      /\ scheduler # "starting" => Inflight = {}
  BY DEF Slotted, Ordered, Inv, TypeOK, SlotsInv, Alternating
<1>2. \A r \in Requests : <<r, "past">> \notin pending
  BY <1>1 DEF OfSchedule
<1>3. Idle.at = "idle" /\ Idle.caller = "owner" /\ Idle.op = "start"
  BY DEF Idle
<1>4. ASSUME UNCHANGED <<handler, pending>>, UNCHANGED scheduler \/ scheduler # "starting" PROVE Goal
  <2>1. Inflight' = Inflight /\ \A r \in Requests : OfSchedule(r)'
    BY <1>1, <1>4 DEF Inflight, OfSchedule
  <2> QED BY <1>1, <1>4, <2>1 DEF Turns
<1>5. CASE Schedule \/ (UNCHANGED <<handler, pending>> /\ Withdraws)
  BY <1>4, <1>5 DEF Schedule, Withdraws, ScheduleGivesUp, Slotted, SlotsInv, Alternating
<1>6. ASSUME NEW r \in Requests, NEW h, handler' = [handler EXCEPT ![r] = h]
      PROVE  handler'[r] = h /\ \A q \in Requests \ {r} : handler'[q] = handler[q]
  BY <1>1, <1>6
<1>7. ASSUME NEW r \in Requests, NEW h, handler' = [handler EXCEPT ![r] = h], UNCHANGED pending,
             h.caller = handler[r].caller \/ h.caller = "owner",
             h.caller = "schedule" <=> h.at # "idle" /\ h.op = "start",
             UNCHANGED scheduler \/ scheduler # "starting"
                \/ (r \in Inflight /\ MaxConcurrent = 1 /\ handler[r].caller = "schedule" /\ h.caller = "owner")
      PROVE  Goal
  <2>1. handler'[r] = h /\ \A q \in Requests \ {r} : handler'[q] = handler[q]
    BY <1>6, <1>7
  <2>2. \A q \in Requests : OfSchedule(q)'
    <3>1. OfSchedule(r)'
      BY <1>1, <1>7, <2>1 DEF OfSchedule
    <3>2. ASSUME NEW q \in Requests \ {r} PROVE OfSchedule(q)'
      BY <1>1, <1>7, <2>1 DEF OfSchedule
    <3> QED BY <3>1, <3>2
  <2>3. Inflight' \subseteq Inflight
    BY <1>7, <2>1 DEF Inflight
  <2>4. CASE r \in Inflight /\ MaxConcurrent = 1 /\ handler[r].caller = "schedule" /\ h.caller = "owner"
    <3>1. Inflight = {r}
      BY <2>4, Alone DEF Slotted, SlotsInv
    <3>2. r \notin Inflight'
      BY <1>1, <1>7, <2>1, <2>4 DEF Inflight, OfSchedule
    <3> QED BY <2>2, <2>3, <3>1, <3>2 DEF Turns
  <2> QED BY <1>1, <1>7, <2>2, <2>3, <2>4 DEF Turns
<1>8. ASSUME NEW r \in Requests, UNCHANGED pending, Leaves(r) PROVE Goal
  <2>1. handler' = [handler EXCEPT ![r] = Idle]
    BY <1>8 DEF Leaves, Return, Reject
  <2>2. CASE UNCHANGED scheduler
    BY <1>3, <1>7, <1>8, <2>1, <2>2
  <2>3. CASE handler[r].caller = "schedule" /\ scheduler' = "rejected"
    <3>1. r \in Inflight /\ MaxConcurrent = 1
      BY <2>3 DEF Inflight, NoneLeftBehind
    <3> QED BY <1>3, <1>7, <1>8, <2>1, <2>3, <3>1
  <2> QED BY <1>8, <2>2, <2>3 DEF Leaves, Return, Reject
<1>9. ASSUME NEW r \in Requests, UNCHANGED <<scheduler, pending>>, Continues(r) PROVE Goal
  <2>1. PICK h : /\ handler' = [handler EXCEPT ![r] = h]
                 /\ handler[r].at # "idle" /\ h.at # "idle"
                 /\ h.op = handler[r].op /\ h.caller = handler[r].caller
    BY <1>9 DEF Continues
  <2>2. h.caller = "schedule" <=> h.at # "idle" /\ h.op = "start"
    BY <1>1, <2>1 DEF OfSchedule
  <2> QED BY <1>7, <1>9, <2>1, <2>2
<1>10. ASSUME NEW r \in Requests, Call(r, "cancel") PROVE Goal
  <2> DEFINE h == [Idle EXCEPT !.op = "cancel", !.at = "view"]
  <2>1. handler' = [handler EXCEPT ![r] = h] /\ UNCHANGED <<scheduler, pending>>
    BY <1>10 DEF Call
  <2>2. h.caller = "owner" /\ h.op = "cancel"
    BY DEF Idle
  <2> HIDE DEF h
  <2> QED BY <1>7, <2>1, <2>2
<1>11. ASSUME NEW r \in Requests, ScheduledStart(r) PROVE Goal
  <2>1. /\ <<r, "current">> \in pending /\ pending' = pending \ {<<r, "current">>}
        /\ \/ /\ handler[r].at = "idle"
              /\ handler' = [handler EXCEPT ![r] = Started("current")]
              /\ UNCHANGED scheduler
           \/ /\ handler[r].at # "idle"
              /\ scheduler' = "rejected"
              /\ UNCHANGED handler
    BY <1>2, <1>11 DEF ScheduledStart, Schedules
  <2>2. \A q \in Requests : <<q, "past">> \notin pending'
    BY <1>2, <2>1
  <2>3. \A q \in Requests : <<q, "current">> \in pending' <=> q # r /\ <<q, "current">> \in pending
    BY <2>1
  <2>4. r \in Inflight
    BY <2>1 DEF Inflight
  <2> DEFINE h == Started("current")
  <2>5. CASE handler' = [handler EXCEPT ![r] = h] /\ UNCHANGED scheduler
    <3>1. h.at = "view" /\ h.caller = "schedule" /\ h.op = "start"
      BY DEF Started, Idle
    <3> HIDE DEF h
    <3>2. handler'[r] = h /\ \A q \in Requests \ {r} : handler'[q] = handler[q]
      BY <1>6, <2>5
    <3>3. ASSUME NEW q \in Requests PROVE OfSchedule(q)'
      BY <1>1, <2>2, <2>3, <3>1, <3>2 DEF OfSchedule
    <3>4. Inflight' \subseteq Inflight
      BY <2>3, <2>4, <3>2 DEF Inflight
    <3> QED BY <1>1, <2>5, <3>3, <3>4 DEF Turns
  <2>6. CASE scheduler' = "rejected" /\ UNCHANGED handler
    <3>1. Inflight = {r}
      BY <2>4, <2>6, Alone DEF Slotted, SlotsInv, NoneLeftBehind
    <3>2. handler[r].caller = "owner"
      BY <1>1, <2>1 DEF OfSchedule
    <3>3. Inflight' \subseteq Inflight /\ r \notin Inflight'
      BY <2>3, <2>6, <3>2 DEF Inflight
    <3>4. ASSUME NEW q \in Requests PROVE OfSchedule(q)'
      BY <1>1, <2>2, <2>3, <2>6 DEF OfSchedule
    <3> QED BY <2>6, <3>1, <3>3, <3>4 DEF Turns
  <2> QED BY <2>1, <2>5, <2>6
<1>12. CASE ScheduleSelects
  <2>1. scheduler = "view" /\ UNCHANGED handler /\ scheduler' = "starting"
    BY <1>12 DEF ScheduleSelects, Slotted, SlotsInv, Alternating
  <2>2. \A r \in Requests : handler[r].caller # "schedule"
    BY <1>1, <2>1 DEF Inflight
  <2>3. \A r \in Requests : <<r, "past">> \notin pending'
    BY <1>2, <1>12 DEF ScheduleSelects
  <2>4. ASSUME NEW r \in Requests PROVE OfSchedule(r)'
    BY <1>1, <2>1, <2>2, <2>3 DEF OfSchedule, HandlerRecord
  <2> QED BY <1>12, <2>1, <2>4 DEF Turns
<1>13. CASE ScheduleReturns
  <2>1. Inflight = {}
    <3>1. CASE scheduler = "rejected"
      BY <1>1, <3>1
    <3>2. CASE \A r \in Requests : <<r, "current">> \notin pending /\ handler[r].caller = "owner"
      BY <3>2 DEF Inflight
    <3> QED BY <1>13, <3>1, <3>2 DEF ScheduleReturns
  <2>2. \A r \in Requests : handler[r].caller # "schedule" /\ <<r, "current">> \notin pending
    BY <2>1 DEF Inflight
  <2>3. \A r \in Requests : \A of \in Schedules : <<r, of>> \notin pending
    BY <1>2, <2>2 DEF Schedules
  <2>4. pending' = {}
    BY <1>13, <2>3 DEF ScheduleReturns
  <2>5. ASSUME NEW r \in Requests
        PROVE  /\ handler'[r].caller = "owner"
               /\ handler'[r].at = handler[r].at /\ handler'[r].op = handler[r].op
    BY <1>1, <1>13 DEF ScheduleReturns, HandlerRecord
  <2>6. ASSUME NEW r \in Requests PROVE OfSchedule(r)'
    BY <1>1, <2>2, <2>4, <2>5 DEF OfSchedule
  <2>7. Inflight' = {}
    BY <2>4, <2>5 DEF Inflight
  <2> QED BY <2>6, <2>7 DEF Turns
<1>14. CASE Crash
  <2>1. pending' = {} /\ \A r \in Requests : handler'[r] = Idle
    BY <1>14 DEF Crash
  <2>2. Inflight' = {}
    BY <1>3, <2>1 DEF Inflight
  <2>3. ASSUME NEW r \in Requests PROVE OfSchedule(r)'
    BY <1>3, <2>1 DEF OfSchedule
  <2> QED BY <2>2, <2>3 DEF Turns
<1>15. CASE UNCHANGED <<handler, scheduler, pending>>
  BY <1>4, <1>15
<1> HIDE DEF Goal
<1> QED BY <1>5, <1>8, <1>9, <1>10, <1>11, <1>12, <1>13, <1>14, <1>15, SlotSteps DEF Slotted

LEMMA AlternatingStays ==
  ASSUME Slotted, [Next]_vars, NoneLeftBehind'
  PROVE  Alternating'
<1>1. Turns'
  BY StartsMove
<1>2. Nobody # Scheduler
  BY QueueAssumption DEF Scheduler, Nobody
<1>3. CASE view'.by = Scheduler
  <2>1. CASE ScheduleReads
    BY <1>1, <2>1 DEF ScheduleReads, Alternating, Turns
  <2>2. CASE view.by = Scheduler
    <3>1. scheduler = "view" /\ Inflight = {}
      BY <2>2 DEF Slotted, SlotsInv, Alternating
    <3>2. ~ScheduleSelects /\ ~Crash /\ ~ReadingThrows
      BY <1>2, <1>3 DEF ScheduleSelects, EndReading, Crash, ReadingThrows, NoView
    <3>3. \A r \in Requests : ~ScheduledStart(r) /\ handler[r].caller # "schedule"
      <4>1. \A r \in Requests : <<r, "past">> \notin pending /\ <<r, "current">> \notin pending
        BY <3>1 DEF Inflight, Slotted, SlotsInv, Alternating, OfSchedule
      <4> QED BY <3>1, <4>1 DEF ScheduledStart, Schedules, Inflight
    <3>4. \A r \in Requests : Leaves(r) \/ Call(r, "cancel") => UNCHANGED scheduler
      BY <3>3 DEF Leaves, Return, Reject, Call
    <3>5. ~Schedule /\ ~ScheduleReturns /\ ~Withdraws
      BY <2>2, <3>1, <3>2 DEF Schedule, ScheduleReturns, Withdraws, ScheduleGivesUp
    <3>6. UNCHANGED scheduler
      BY <3>2, <3>3, <3>4, <3>5, SlotSteps DEF Slotted
    <3> QED BY <1>1, <3>1, <3>6 DEF Alternating, Turns
  <2> QED BY <1>3, <2>1, <2>2, SchedulerReads DEF Slotted, Ordered
<1> QED BY <1>1, <1>3 DEF Alternating, Turns
----------------------------------------------------------------------------
(* What a step does to a run and its supervision, faults included.          *)
LEMMA RunTurns ==
  ASSUME Ordered, [Next]_vars, NEW n \in Runs
  PROVE  \/ Same(n) \/ SupervisorStep(n)
         \/ run'[n] = run[n] /\ supervisor'[n] \in {"none", "leaving"}
         \/ \E r \in Requests : Dispatch(r) /\ handler[r].run = n
         \/ \E r \in Requests, preflight \in Preflights : Create(r, n, preflight)
<1> DEFINE Goal == \/ Same(n) \/ SupervisorStep(n)
                   \/ run'[n] = run[n] /\ supervisor'[n] \in {"none", "leaving"}
                   \/ \E r \in Requests : Dispatch(r) /\ handler[r].run = n
                   \/ \E r \in Requests, preflight \in Preflights : Create(r, n, preflight)
<1> SUFFICES Goal
  OBVIOUS
<1>1. run \in [Runs -> RunRecord] /\ supervisor \in [Runs -> SupervisorSteps]
  BY DEF Ordered, Inv, TypeOK
<1>2. CASE UNCHANGED <<run, supervisor>>
  BY <1>2 DEF Same
<1>3. ASSUME NEW m \in Runs, NEW step, supervisor' = [supervisor EXCEPT ![m] = step], m # n, UNCHANGED run
      PROVE  Goal
  BY <1>1, <1>3 DEF Same
<1>4. ASSUME NEW r \in Requests, Dispatch(r) PROVE Goal
  <2>1. handler[r].run \in Runs
    BY <1>4, ChosenRun DEF Dispatch, Chosen, Ordered
  <2> QED BY <1>3, <1>4, <2>1 DEF Dispatch
<1>5. ASSUME NEW r \in Requests, NEW m \in Runs, NEW preflight \in Preflights, Create(r, m, preflight) PROVE Goal
  <2>1. UNCHANGED supervisor /\ \A o \in Runs \ {m} : run'[o] = run[o]
    BY <1>5, NewRun
  <2> QED BY <1>5, <2>1 DEF Same
<1>6. ASSUME NEW m \in Runs, SupervisorThrows(m) PROVE Goal
  BY <1>1, <1>6 DEF SupervisorThrows, Same
<1>7. ASSUME NEW m \in Runs, SupervisorStep(m) PROVE Goal
  <2>1. CASE m = n
    BY <1>7, <2>1
  <2>2. CASE m # n
    <3>1. CASE UNCHANGED run
      <4>1. \E step : supervisor' = [supervisor EXCEPT ![m] = step]
        BY <1>7 DEF SupervisorStep, Supervise, StartRun, Reload, Advance, Conclude, Exhaust, Leave, Supervised
      <4> QED BY <1>3, <2>2, <3>1, <4>1
    <3>2. CASE ~UNCHANGED run
      <4>1. Concludes(m)
        BY <1>7, <3>2 DEF SupervisorStep, Supervise, Reload, Leave, StartRun, Advance, Conclude, Exhaust,
                          Supervised, Concludes, RunStatuses
      <4> QED BY <2>2, <4>1, ConcludedRun DEF Same
    <3> QED BY <3>1, <3>2
  <2> QED BY <2>1, <2>2
<1>8. CASE Crash
  BY <1>8 DEF Crash
<1>9. ASSUME NEW r \in Requests, CallStep(r), ~Dispatch(r),
             ~\E m \in Runs, preflight \in Preflights : Create(r, m, preflight)
      PROVE  UNCHANGED <<run, supervisor>>
  <2>1. handler[r].op \in {"start", "cancel"} /\ handler[r].at # "rollback"
    BY DEF Ordered, OrderInv, Starting
  <2>2. ~Pause(r) /\ ~Resume(r) /\ ~Retry(r) /\ ~RollBack(r)
    BY <2>1 DEF Pause, Resume, Retry, RollBack, Changing
  <2> QED BY <1>9, <2>2
          DEF CallStep, CallReads, CallHasRead, CallGivesUp, StartRefused, StartWaits, Cancel, Prepare,
              ChangeRefused, ChangeFails, Enqueue, Load, LookForOwner, Record
<1>10. CASE Visit \/ ReadingStep \/ ReadingThrows \/ Schedule \/ ScheduleStep
  BY <1>2, <1>10 DEF ReadingStep, Visit, ReadRequest, ReadRun, Project, VisitEnds, ReadingThrows, Schedule,
              ScheduleStep, ScheduleReads, ScheduleGivesUp, ScheduleSelects, ScheduleReturns
<1>11. ASSUME NEW r \in Requests, ScheduledStart(r) \/ CallThrows(r) \/ \E op \in Operations : Call(r, op)
       PROVE  UNCHANGED <<run, supervisor>>
  BY <1>11 DEF ScheduledStart, CallThrows, Call
<1>12. CASE UNCHANGED vars
  BY <1>2, <1>12 DEF vars
<1> HIDE DEF Goal
<1> QED BY <1>2, <1>4, <1>5, <1>6, <1>7, <1>8, <1>9, <1>10, <1>11, <1>12 DEF Next

LEMMA QuietStays ==
  ASSUME Slotted, [Next]_vars, NEW n \in Runs
  PROVE  Quiet(n)'
<1>1. Quiet(n) /\ Ordered
  BY DEF Slotted, SlotsInv, Halts
<1>2. CASE SupervisorStep(n)
  <2>1. Calm(n)
    BY <1>1 DEF Calm, Quiet
  <2>2. /\ Calm(n)' /\ (run'[n].status = "PAUSED" => run[n].status = "PAUSED")
        /\ ~Active(n) => ~Active(n)'
    BY <1>1, <1>2, <2>1, Supervision DEF Ordered
  <2> QED BY <1>1, <2>2 DEF Calm, Quiet, Runnable
<1>3. ASSUME NEW r \in Requests, Dispatch(r), handler[r].run = n PROVE Quiet(n)'
  BY <1>3 DEF Dispatch, Slotted, SlotsInv, Halts, Occupies, Quiet
<1>4. ASSUME NEW r \in Requests, NEW preflight \in Preflights, Create(r, n, preflight) PROVE Quiet(n)'
  <2>1. ~Created(n) /\ UNCHANGED supervisor
    BY <1>1, <1>4, NewRun
  <2> QED BY <1>1, <2>1 DEF Ordered, OrderInv, Ongoing, Quiet, Active
<1> QED BY <1>1, <1>2, <1>3, <1>4, RunTurns DEF Same, Quiet, Active

LEMMA StoppedStays ==
  ASSUME Slotted, [Next]_vars, NEW n \in Runs, Stopped(n)
  PROVE  Stopped(n)'
<1>1. Quiet(n) /\ Ordered
  BY DEF Slotted, SlotsInv, Halts
<1>2. CASE SupervisorStep(n)
  BY <1>1, <1>2, Supervision DEF Ordered, Calm, Stopped
<1>3. ASSUME NEW r \in Requests, Dispatch(r), handler[r].run = n PROVE FALSE
  BY <1>3 DEF Dispatch, Slotted, SlotsInv, Halts, Occupies, Stopped
<1>4. ASSUME NEW r \in Requests, NEW preflight \in Preflights, Create(r, n, preflight) PROVE FALSE
  BY <1>1, <1>4, NewRun DEF Created, Stopped
<1> QED BY <1>1, <1>2, <1>3, <1>4, RunTurns DEF Same, Stopped, Active
----------------------------------------------------------------------------
(* What a step does to a request, to what is read of it and to an outcome.  *)
LEMMA RequestTurns ==
  ASSUME Slotted, [Next]_vars, NEW r \in Requests
  PROVE  \/ request'[r] = request[r]
         \/ /\ Project /\ view.next = r /\ request'[r].status # "running"
            /\ request'[r].run = view.seen[view.next].run
         \/ request'[r].status = "cancelled"
         \/ request'[r].status = "waiting" /\ request'[r].run = NoRun
         \/ /\ Record(r) /\ handler[r].op = "start" /\ handler[r].at = "record"
            /\ request'[r].run = handler[r].run /\ handler[r].run # NoRun
            /\ request'[r].status = "running"
                 \/ (request'[r].status = "waiting" /\ handler[r].outcome = "not-configured")
<1>1. /\ Ordered /\ Inv /\ request \in [Requests -> WorkRequest]
      /\ view.at = "write" => view.found \notin Runnable \cup {"absent"}
  BY DEF Slotted, Ordered, Inv, TypeOK, SlotsInv, Halts
<1>2. CASE Project
  <2>1. /\ request'[view.next].run = view.seen[view.next].run
        /\ \A q \in Requests \ {view.next} : request'[q] = request[q]
        /\ view.next \in Requests
    BY <1>1, <1>2, ReadingWrites
  <2>2. view.found \in {"WAITING", "PAUSED", "DONE", "FAILED_FINAL"}
    BY <1>1, <1>2 DEF Project, Inv, TypeOK, ViewRecord, RunStatuses, Runnable
  <2>3. StatusForRun(view.found) # "running"
    BY <2>2 DEF StatusForRun
  <2>4. view.next = r => request'[r].status = StatusForRun(view.found) \/ request'[r] = request[r]
    BY <1>1, <1>2, RequestMoves DEF Project
  <2> QED BY <1>2, <2>1, <2>3, <2>4
<1>3. CASE StartWaits(r)
  <2>1. handler[r].mine.run = NoRun /\ handler[r].mine.run = request[r].run
    BY <1>1, <1>3 DEF StartWaits, Deciding, MayStart, Mine, Linked, Ordered, QueuedFree, Free, Inv, LinkInv,
                      CallInv
  <2> QED BY <1>1, <1>3, <2>1 DEF StartWaits, Wait, WorkRequest
<1>4. CASE Cancel(r)
  BY <1>1, <1>4 DEF Cancel, WorkRequest
<1>5. CASE Record(r)
  <2> DEFINE waits == handler[r].op = "pause" \/ handler[r].outcome = "not-configured"
             w == [status |-> IF waits THEN "waiting" ELSE "running", run |-> handler[r].run]
  <2>1. handler[r].op = "start" /\ handler[r].at = "record" /\ handler[r].run # NoRun
    BY <1>1, <1>5 DEF Record, Ordered, OrderInv, Starting, Chosen, Inv, LinkInv, CallInv
  <2>2. request' = [request EXCEPT ![r] = w]
    BY <1>5 DEF Record
  <2>3. w.run = handler[r].run /\ (w.status = "running" \/ (w.status = "waiting" /\ waits))
    OBVIOUS
  <2> HIDE DEF w
  <2>4. request'[r] = w
    BY <1>1, <2>2
  <2> QED BY <1>5, <2>1, <2>3, <2>4
<1>6. ASSUME NEW q \in Requests \ {r}, StartWaits(q) \/ Cancel(q) \/ Record(q) PROVE request'[r] = request[r]
  BY <1>1, <1>6, CallWrites
<1> QED BY <1>2, <1>3, <1>4, <1>5, <1>6, Writers

LEMMA SeenTurns ==
  ASSUME Ordered, [Next]_vars, NEW r \in Requests
  PROVE  \/ view' = NoView
         \/ view'.seen[r] = request'[r]
         \/ view'.seen[r] = view.seen[r] /\ view'.by = view.by
<1>1. Inv /\ view \in ViewRecord /\ request \in [Requests -> WorkRequest]
  BY DEF Ordered, Inv, TypeOK
<1>2. view.seen \in [Requests -> WorkRequest]
  BY <1>1 DEF ViewRecord
<1>3. CASE ReadRequest
  <2>1. view.next \in Requests /\ UNCHANGED request /\ view'.by = view.by
        /\ view'.seen = [view.seen EXCEPT ![view.next] = request[view.next]]
    BY <1>1, <1>3, ReadsRequest
  <2> QED BY <1>2, <2>1
<1>4. CASE ReadRun
  BY <1>1, <1>4, ReadsRun
<1>5. CASE Project
  <2>1. view'.by = view.by
    BY <1>1, <1>5, Projected
  <2> QED BY <1>5, <2>1, ReadingWrites
<1>6. ASSUME NEW who, BeginReading(who), UNCHANGED request PROVE view'.seen[r] = request'[r]
  BY <1>6 DEF BeginReading, NoView
<1> QED BY <1>3, <1>4, <1>5, <1>6, Readers, <1>1

LEMMA OutcomeTurns ==
  ASSUME Scheduled, Ordered, [Next]_vars, NEW r \in Requests
  PROVE  \/ handler'[r].outcome = handler[r].outcome \/ Advances(r)
         \/ handler'[r].at \in {"idle", "view"}
<1> DEFINE Goal == \/ handler'[r].outcome = handler[r].outcome \/ Advances(r)
                   \/ handler'[r].at \in {"idle", "view"}
<1> SUFFICES Goal
  OBVIOUS
<1>1. handler \in [Requests -> HandlerRecord] /\ Idle.at = "idle"
  BY DEF Ordered, Inv, TypeOK, Idle
<1>2. CASE UNCHANGED handler
  BY <1>2
<1>3. ASSUME NEW q \in Requests, Continues(q) PROVE Goal
  BY <1>1, <1>3 DEF Continues
<1>4. ASSUME NEW q \in Requests, Leaves(q) PROVE Goal
  BY <1>1, <1>4 DEF Leaves, Return, Reject
<1>5. ASSUME NEW q \in Requests, NEW h, h.at = "view", handler' = [handler EXCEPT ![q] = h] PROVE Goal
  BY <1>1, <1>5
<1>6. ASSUME NEW q \in Requests, Call(q, "cancel") PROVE Goal
  <2> DEFINE h == [Idle EXCEPT !.op = "cancel", !.at = "view"]
  <2>1. h.at = "view" /\ handler' = [handler EXCEPT ![q] = h]
    BY <1>6 DEF Call, Idle
  <2> HIDE DEF h
  <2> QED BY <1>5, <2>1
<1>7. ASSUME NEW q \in Requests, ScheduledStart(q) PROVE Goal
  <2>1. ASSUME NEW of \in Schedules, handler' = [handler EXCEPT ![q] = Started(of)] PROVE Goal
    <3> DEFINE h == Started(of)
    <3>1. h.at = "view" /\ handler' = [handler EXCEPT ![q] = h]
      BY <2>1 DEF Started, Idle
    <3> HIDE DEF h
    <3> QED BY <1>5, <3>1
  <2> QED BY <1>2, <1>7, <2>1 DEF ScheduledStart
<1>8. CASE Schedule \/ ScheduleSelects
  BY <1>2, <1>8 DEF Schedule, ScheduleSelects
<1>9. CASE ScheduleReturns
  BY <1>1, <1>9 DEF ScheduleReturns, HandlerRecord
<1>10. CASE Crash
  BY <1>1, <1>10 DEF Crash
<1> HIDE DEF Goal
<1> QED BY <1>2, <1>3, <1>4, <1>6, <1>7, <1>8, <1>9, <1>10, SlotSteps
----------------------------------------------------------------------------
(* Each part of the invariant is kept.                                      *)
LEMMA WaitsStay ==
  ASSUME Slotted, [Next]_vars, NEW w \in WorkRequest, Waits(w)
  PROVE  Waits(w)'
<1>1. w.status = "waiting" /\ w.run # NoRun => w.run \in Runs
  BY DEF WorkRequest
<1> QED BY <1>1, StoppedStays DEF Waits

LEMMA RecordsStay ==
  ASSUME Slotted, [Next]_vars, NEW r \in Requests
  PROVE  Waits(request[r])' /\ Links(request[r])'
<1>1. /\ Ordered /\ Inv /\ request[r] \in WorkRequest /\ Occupies(r)
      /\ view.at = "write" => Stopped(view.seen[view.next].run)
  BY DEF Slotted, Ordered, Inv, TypeOK, SlotsInv, Halts
<1>2. CASE request'[r] = request[r]
  <2>1. PICK w \in WorkRequest : w = request[r]
    BY <1>1
  <2>2. Waits(w)' /\ Links(w)
    BY <1>1, <2>1, WaitsStay DEF Occupies
  <2> QED BY <1>2, <2>1, <2>2 DEF Waits, Links
<1>3. CASE Project /\ view.next = r /\ request'[r].status # "running"
           /\ request'[r].run = view.seen[view.next].run
  <2>1. view.seen[view.next].run \in Runs
    BY <1>1, <1>3, ReadingWrites
  <2>2. PICK n \in Runs : n = view.seen[view.next].run
    BY <2>1
  <2>3. Stopped(n)'
    BY <1>1, <1>3, <2>2, StoppedStays DEF Project
  <2> QED BY <1>3, <2>2, <2>3 DEF Waits, Links
<1>4. CASE /\ Record(r) /\ handler[r].op = "start" /\ handler[r].at = "record"
           /\ request'[r].run = handler[r].run /\ handler[r].run # NoRun
           /\ request'[r].status = "running"
                \/ (request'[r].status = "waiting" /\ handler[r].outcome = "not-configured")
  <2>1. handler[r].run \in Runs
    BY <1>1, <1>4, ChosenRun DEF Chosen
  <2>2. PICK n \in Runs : n = handler[r].run
    BY <2>1
  <2>3. request'[r].status = "waiting" => Stopped(n)'
    BY <1>1, <1>4, <2>2, StoppedStays DEF Occupies
  <2> QED BY <1>4, <2>2, <2>3 DEF Waits, Links
<1>5. CASE request'[r].status = "cancelled" \/ (request'[r].status = "waiting" /\ request'[r].run = NoRun)
  BY <1>5 DEF Waits, Links
<1> QED BY <1>2, <1>3, <1>4, <1>5, RequestTurns

LEMMA SeenStays ==
  ASSUME Slotted, [Next]_vars, NEW r \in Requests
  PROVE  Waits(view.seen[r])' /\ Links(view.seen[r])'
<1>1. Ordered /\ view.seen[r] \in WorkRequest /\ Occupies(r)
  BY DEF Slotted, Ordered, Inv, TypeOK, ViewRecord, SlotsInv, Halts
<1>2. CASE view'.seen[r] = request'[r]
  BY <1>2, RecordsStay DEF Waits, Links
<1>3. CASE view'.seen[r] = view.seen[r]
  <2>1. PICK w \in WorkRequest : w = view.seen[r]
    BY <1>1
  <2>2. Waits(w)' /\ Links(w)
    BY <1>1, <2>1, WaitsStay DEF Occupies
  <2> QED BY <1>3, <2>1, <2>2 DEF Waits, Links
<1>4. CASE view' = NoView
  BY <1>4 DEF NoView, Queued, Waits, Links
<1> QED BY <1>1, <1>2, <1>3, <1>4, SeenTurns

LEMMA DispatchesStay ==
  ASSUME Slotted, [Next]_vars, NEW r \in Requests, handler'[r].at \in {"owner", "dispatch"}
  PROVE  run'[handler'[r].run].status \in Runnable
<1> DEFINE n == handler[r].run
<1>1. Ordered /\ Inv /\ Occupies(r) /\ Starting(r) /\ handler \in [Requests -> HandlerRecord]
  BY DEF Slotted, Ordered, Inv, TypeOK, OrderInv, SlotsInv, Halts
<1>2. CASE Unmoved(r)
  <2>1. handler'[r].run = n /\ handler[r].at \in {"owner", "dispatch"}
    BY <1>2 DEF Unmoved
  <2>2. n \in Runs /\ run[n].status \in Runnable /\ supervisor[n] = "none"
    BY <1>1, <2>1, ChosenRun DEF Chosen, Dispatching, Starting, Occupies
  <2>3. ~SupervisorStep(n)
    BY <2>2 DEF SupervisorStep, Supervise, StartRun, Reload, Advance, Conclude, Exhaust, Leave
  <2>4. \A q \in Requests, preflight \in Preflights : ~Create(q, n, preflight)
    BY <2>2 DEF Create, Runnable
  <2>5. run'[n] = run[n]
    BY <1>1, <2>2, <2>3, <2>4, RunTurns DEF Same, Dispatch
  <2> QED BY <2>1, <2>2, <2>5
<1>3. CASE Load(r) \/ LookForOwner(r)
  <2>1. ASSUME NEW outcome, Answer(r, outcome) PROVE FALSE
    <3> DEFINE step == IF outcome = "not-configured" /\ handler[r].op # "start" THEN "rollback" ELSE "record"
               h == [handler[r] EXCEPT !.outcome = outcome, !.at = step]
    <3>1. handler' = [handler EXCEPT ![r] = h]
      BY <2>1 DEF Answer
    <3>2. step \in {"rollback", "record"}
      OBVIOUS
    <3> HIDE DEF step
    <3>3. h.at = step
      BY <1>1 DEF HandlerRecord
    <3> HIDE DEF h
    <3>4. handler'[r].at = step
      BY <1>1, <3>1, <3>3
    <3> QED BY <3>2, <3>4
  <2>2. ASSUME NEW step, Go(r, step) PROVE handler'[r].run = n
    <3> DEFINE h == [handler[r] EXCEPT !.at = step]
    <3>1. handler' = [handler EXCEPT ![r] = h]
      BY <2>2 DEF Go
    <3>2. h.run = n
      BY <1>1 DEF HandlerRecord
    <3> HIDE DEF h
    <3> QED BY <1>1, <3>1, <3>2
  <2>3. run[n].status \in Runnable /\ UNCHANGED run /\ \E step : Go(r, step)
    BY <1>1, <1>3, <2>1 DEF Load, LookForOwner, Occupies
  <2> QED BY <2>2, <2>3
<1>4. CASE Enqueue(r) \/ Dispatch(r)
  <2>1. handler'[r].at \in {"load", "record", "rollback"}
    <3>1. CASE Go(r, "load")
      BY <1>1, <3>1, HandlerGoes DEF HandlerSteps, Inv
    <3>2. CASE \E outcome \in Outcomes : Answer(r, outcome)
      BY <1>1, <3>2, HandlerAnswers DEF Inv
    <3> QED BY <1>4, <3>1, <3>2 DEF Enqueue, Dispatch, Outcomes
  <2> QED BY <2>1
<1>5. CASE CallHasRead(r)
  BY <1>1, <1>5 DEF CallHasRead, HandlerRecord
<1>6. ASSUME NEW m \in Runs, NEW preflight \in Preflights, Create(r, m, preflight) PROVE FALSE
  BY <1>1, <1>6, NewRun
<1> QED BY <1>1, <1>2, <1>3, <1>4, <1>5, <1>6, CallSteps DEF Advances

LEMMA OutcomesStay ==
  ASSUME Slotted, [Next]_vars, NEW r \in Requests,
         handler'[r].at = "record", handler'[r].outcome = "not-configured"
  PROVE  Stopped(handler[r].run)' /\ handler'[r].run = handler[r].run
<1> DEFINE n == handler[r].run
<1>1. Ordered /\ Inv /\ Occupies(r) /\ Starting(r) /\ handler \in [Requests -> HandlerRecord] /\ Scheduled
  BY DEF Slotted, Ordered, Inv, TypeOK, OrderInv, SlotsInv, Halts
<1>2. CASE Advances(r)
  <2>1. n \in Runs /\ supervisor[n] = "none" /\ run[n].status # "absent"
    BY <1>1, <1>2, ChosenRun DEF Advances, Enqueue, Load, LookForOwner, Dispatch, Chosen, Dispatching,
                                Starting, Created
  <2>2. ASSUME NEW outcome, Answer(r, outcome) PROVE handler'[r].outcome = outcome /\ handler'[r].run = n
    <3> DEFINE step == IF outcome = "not-configured" /\ handler[r].op # "start" THEN "rollback" ELSE "record"
               h == [handler[r] EXCEPT !.outcome = outcome, !.at = step]
    <3>1. handler' = [handler EXCEPT ![r] = h]
      BY <2>2 DEF Answer
    <3> HIDE DEF step
    <3>2. h.outcome = outcome /\ h.run = n
      BY <1>1 DEF HandlerRecord
    <3> HIDE DEF h
    <3> QED BY <1>1, <3>1, <3>2
  <2>3. ~Go(r, "load") /\ ~Go(r, "owner") /\ ~Go(r, "dispatch")
    BY <1>1, HandlerGoes DEF HandlerSteps, Inv
  <2>4. Load(r)
    BY <1>2, <2>2, <2>3 DEF Advances, Enqueue, LookForOwner, Dispatch
  <2>5. run[n].status \notin Runnable /\ Answer(r, "not-configured") /\ UNCHANGED <<run, supervisor>>
    BY <2>3, <2>4 DEF Load
  <2>6. Stopped(n)
    BY <2>1, <2>5 DEF Stopped, Active
  <2> QED BY <2>1, <2>2, <2>5, <2>6, StoppedStays
<1>3. CASE Unmoved(r) /\ ~Advances(r)
  <2>1. handler[r].at = "record" /\ handler[r].outcome = "not-configured" /\ handler'[r].run = n
    BY <1>1, <1>3, OutcomeTurns DEF Unmoved
  <2>2. n \in Runs /\ Stopped(n)
    BY <1>1, <2>1, ChosenRun DEF Occupies, Chosen
  <2> QED BY <2>1, <2>2, StoppedStays
<1>4. CASE CallHasRead(r)
  BY <1>1, <1>4 DEF CallHasRead, HandlerRecord
<1>5. ASSUME NEW m \in Runs, NEW preflight \in Preflights, Create(r, m, preflight) PROVE FALSE
  BY <1>1, <1>5, NewRun
<1> QED BY <1>1, <1>2, <1>3, <1>4, <1>5, CallSteps

(* While the scheduler reads, no request starts to run.                     *)
LEMMA RunningTurns ==
  ASSUME Slotted, [Next]_vars, NEW r \in Requests, request'[r].status = "running"
  PROVE  request[r].status = "running" \/ r \in Inflight
<1>1. CASE Record(r) /\ handler[r].op = "start" /\ handler[r].at = "record"
  BY <1>1 DEF Slotted, SlotsInv, Alternating, OfSchedule, Inflight
<1> QED BY <1>1, RequestTurns

LEMMA SchedulesStay ==
  ASSUME Slotted, [Next]_vars, NEW r \in Requests, view'.by = Scheduler, request'[r].status = "running"
  PROVE  view'.seen[r].status = "running"
<1>1. Ordered /\ Inv
  BY DEF Slotted, Ordered
<1>2. CASE ScheduleReads
  BY <1>2 DEF ScheduleReads, BeginReading, NoView
<1>3. CASE view.by = Scheduler
  <2>1. Inflight = {}
    BY <1>3 DEF Slotted, SlotsInv, Alternating
  <2>2. request[r].status = "running"
    BY <2>1, RunningTurns
  <2>3. view.seen[r].status = "running"
    BY <1>3, <2>2 DEF Slotted, SlotsInv, Halts, Occupies
  <2>4. view' # NoView
    BY QueueAssumption DEF NoView, Scheduler, Nobody
  <2> QED BY <1>1, <2>3, <2>4, SeenTurns
<1> QED BY <1>1, <1>2, <1>3, SchedulerReads

LEMMA WritesStay ==
  ASSUME Slotted, [Next]_vars, view'.at = "write"
  PROVE  /\ view'.found \notin Runnable \cup {"absent"}
         /\ \E n \in Runs : n = view'.seen[view'.next].run /\ Stopped(n)'
<1>1. Ordered /\ Inv /\ view \in ViewRecord
  BY DEF Slotted, Ordered, Inv, TypeOK
<1>2. CASE UNCHANGED view
  <2>1. view.next \in Requests /\ view.seen[view.next].run # NoRun
    BY <1>1, <1>2 DEF Inv, LinkInv, ReadingInv
  <2>2. PICK n \in Runs : n = view.seen[view.next].run
    BY <1>1, <2>1 DEF ViewRecord, WorkRequest
  <2>3. Stopped(n) /\ view.found \notin Runnable \cup {"absent"}
    BY <1>2, <2>2 DEF Slotted, SlotsInv, Halts
  <2> QED BY <1>2, <2>2, <2>3, StoppedStays
<1>3. CASE /\ ReadRun /\ view.at = "run" /\ view'.at = "write" /\ view'.next = view.next
           /\ request[view.next].run # NoRun
           /\ view'.found = run[request[view.next].run].status
           /\ Projects(view.seen[view.next].status, StatusForRun(view'.found))
  <2>1. /\ view.next \in Requests /\ view.seen[view.next].run # NoRun /\ view'.seen = view.seen
        /\ view.seen[view.next] \in WorkRequest
        /\ request[view.next].run = view.seen[view.next].run
    BY <1>1, <1>3, ReadsRun DEF ViewRecord, Inv, LinkInv, ReadingInv, SeenLinks
  <2>2. PICK i \in Requests : i = view.next
    BY <2>1
  <2>3. PICK n \in Runs : n = view.seen[i].run
    BY <2>1, <2>2 DEF WorkRequest
  <2>4. view'.found = run[n].status
    BY <1>3, <2>1, <2>2, <2>3
  <2>5. Quiet(n) /\ Waits(view.seen[i]) /\ Free(view.seen[i])
    BY <1>1 DEF Slotted, Ordered, QueuedFree, SlotsInv, Halts, Occupies
  <2>6. Stopped(n)
    <3>1. CASE run[n].status \in Runnable \cup {"absent"}
      <4>1. StatusForRun(view'.found) = "running"
        BY <2>4, <3>1 DEF StatusForRun, Runnable, EndedRun
      <4>2. view.seen[i].status \in {"queued", "waiting"}
        BY <1>3, <2>1, <2>2, <4>1 DEF Projects, WorkRequest, RequestStatuses, EndedRequest
      <4>3. view.seen[i].run # NoRun
        BY <2>1, <2>2
      <4> QED BY <2>3, <2>5, <4>2, <4>3 DEF Free, Waits
    <3>2. CASE run[n].status \notin Runnable \cup {"absent"}
      BY <2>5, <3>2 DEF Quiet, Stopped
    <3> QED BY <3>1, <3>2
  <2>7. view'.seen[view'.next].run = n
    BY <1>3, <2>1, <2>2, <2>3
  <2>8. view'.found \notin Runnable \cup {"absent"}
    BY <2>4, <2>6 DEF Stopped
  <2> QED BY <2>6, <2>7, <2>8, StoppedStays
<1> QED BY <1>1, <1>2, <1>3, ReadingSteps

LEMMA HaltsStay ==
  ASSUME Slotted, [Next]_vars
  PROVE  Halts'
<1>1. ASSUME NEW n \in Runs PROVE Quiet(n)'
  BY QuietStays
<1>2. ASSUME NEW r \in Requests PROVE Occupies(r)'
  <2>1. Waits(request[r])' /\ Links(request[r])' /\ Waits(view.seen[r])' /\ Links(view.seen[r])'
    BY RecordsStay, SeenStays
  <2>2. handler'[r].at \in {"owner", "dispatch"} => run'[handler'[r].run].status \in Runnable
    BY DispatchesStay
  <2>3. handler'[r].at = "record" /\ handler'[r].outcome = "not-configured" => Stopped(handler[r].run)'
    BY OutcomesStay
  <2>4. view'.by = Scheduler /\ request'[r].status = "running" => view'.seen[r].status = "running"
    BY SchedulesStay
  <2> QED BY <2>1, <2>2, <2>3, <2>4 DEF Occupies
<1>3. view'.at = "write" =>
        Stopped(view.seen[view.next].run)' /\ view'.found \notin Runnable \cup {"absent"}
  <2> SUFFICES ASSUME view'.at = "write"
               PROVE  Stopped(view.seen[view.next].run)' /\ view'.found \notin Runnable \cup {"absent"}
    OBVIOUS
  <2>1. PICK n \in Runs : n = view'.seen[view'.next].run /\ Stopped(n)'
    BY WritesStay
  <2> QED BY <2>1, WritesStay DEF Stopped, Active
<1> QED BY <1>1, <1>2, <1>3 DEF Halts
----------------------------------------------------------------------------
(* The slots that are taken: only a selection takes more, and it takes what *)
(* the requests it has seen running leave.                                  *)
LEMMA SelectedFit ==
  ASSUME NEW seen \in [Requests -> WorkRequest], NEW S \in SUBSET Requests,
         \A r \in S : seen[r].status = "running" /\ seen[r].run # NoRun,
         Cardinality(S) <= MaxConcurrent
  PROVE  Cardinality(S \cup Selected(seen)) <= MaxConcurrent
<1> DEFINE O == {r \in Requests : seen[r].status = "running" /\ seen[r].run # NoRun}
           ready == {r \in Requests : seen[r].status = "queued" /\ Incomplete(r, seen) = {}}
           T == {r \in ready : Cardinality({q \in ready : q < r}) + Cardinality(O) < MaxConcurrent}
           k == MaxConcurrent - Cardinality(O)
           F == {r \in ready : Cardinality({q \in ready : q < r}) < k}
<1>1. Selected(seen) = T
  BY DEF Selected
<1>2. MaxConcurrent \in Nat
  BY QueueAssumption
<1>3. /\ IsFiniteSet(O) /\ Cardinality(O) \in Nat
      /\ T \in SUBSET Requests /\ IsFiniteSet(T) /\ Cardinality(T) \in Nat /\ ready \in SUBSET Requests
      /\ S \subseteq O
      /\ \A r \in ready : {q \in ready : q < r} \in SUBSET Requests
  BY FiniteRequests
<1>4. \A r \in ready : Cardinality({q \in ready : q < r}) \in Nat
  <2> HIDE DEF ready
  <2> QED BY <1>3, FiniteRequests
<1> HIDE DEF O, ready
<1>5. CASE Cardinality(O) < MaxConcurrent
  <2>1. k \in Nat
    BY <1>2, <1>3, <1>5
  <2>2. \A r \in ready : Cardinality({q \in ready : q < r}) + Cardinality(O) < MaxConcurrent
                         <=> Cardinality({q \in ready : q < r}) < k
    BY <1>2, <1>3, <1>4
  <2>3. T = F
    BY <2>2
  <2>4. Cardinality(F) <= k
    <3> HIDE DEF k
    <3> QED BY <1>3, <2>1, FewBefore
  <2> HIDE DEF T, F
  <2>5. /\ IsFiniteSet(O \cup T)
        /\ Cardinality(O \cup T) = Cardinality(O) + Cardinality(T) - Cardinality(O \cap T)
    BY <1>3, FS_Union
  <2>6. Cardinality(O \cap T) \in Nat
    BY <1>3, FS_Subset, FS_CardinalityType
  <2>7. S \cup T \in SUBSET (O \cup T)
    BY <1>3
  <2>8. Cardinality(S \cup T) <= Cardinality(O \cup T) /\ IsFiniteSet(S \cup T)
    BY <2>5, <2>7, FS_Subset
  <2>9. Cardinality(S \cup T) \in Nat /\ Cardinality(O \cup T) \in Nat
    BY <2>5, <2>8, FS_CardinalityType
  <2>10. Cardinality(O) + Cardinality(T) <= MaxConcurrent
    BY <1>2, <1>3, <2>1, <2>3, <2>4
  <2> HIDE DEF k
  <2> QED BY <1>1, <1>2, <1>3, <2>5, <2>6, <2>8, <2>9, <2>10
<1>6. CASE ~(Cardinality(O) < MaxConcurrent)
  <2>1. \A r \in ready : ~(Cardinality({q \in ready : q < r}) + Cardinality(O) < MaxConcurrent)
    BY <1>2, <1>3, <1>4, <1>6
  <2>2. S \cup T = S
    BY <2>1
  <2> HIDE DEF T
  <2> QED BY <1>1, <2>2
<1> QED BY <1>5, <1>6

LEMMA BoundedStays ==
  ASSUME Slotted, [Next]_vars, NoneLeftBehind'
  PROVE  Bounded'
<1>1. Bounded /\ Inv /\ Running' \subseteq Running \cup Inflight
  BY RunningTurns DEF Slotted, Ordered, SlotsInv, Running
<1>2. MaxConcurrent \in Nat
  BY QueueAssumption
<1>3. Running \in SUBSET Requests /\ Inflight \in SUBSET Requests
  BY DEF Running, Inflight
<1>4. CASE Inflight' \subseteq Inflight
  <2>1. Running' \cup Inflight' \in SUBSET (Running \cup Inflight)
    BY <1>1, <1>4
  <2>2. IsFiniteSet(Running \cup Inflight) /\ Cardinality(Running \cup Inflight) \in Nat
    BY <1>3, FiniteRequests
  <2>3. /\ Cardinality(Running' \cup Inflight') <= Cardinality(Running \cup Inflight)
        /\ Cardinality(Running' \cup Inflight') \in Nat
    BY <2>1, <2>2, FS_Subset, FS_CardinalityType
  <2> QED BY <1>1, <1>2, <2>2, <2>3 DEF Bounded
<1>5. CASE ScheduleSelects
  <2>1. Inflight = {} /\ view.by = Scheduler /\ UNCHANGED request
    BY <1>5 DEF ScheduleSelects, Slotted, SlotsInv, Alternating
  <2>2. view.seen \in [Requests -> WorkRequest]
    BY <1>1 DEF Inv, TypeOK, ViewRecord
  <2>3. \A r \in Running : view.seen[r].status = "running" /\ view.seen[r].run # NoRun
    BY <1>3, <2>1 DEF Running, Slotted, SlotsInv, Halts, Occupies, Links
  <2>4. Cardinality(Running) <= MaxConcurrent
    BY <1>1, <2>1 DEF Bounded
  <2>5. Cardinality(Running \cup Selected(view.seen)) <= MaxConcurrent
    BY <1>3, <2>2, <2>3, <2>4, SelectedFit
  <2>6. Inflight' = Selected(view.seen)
    <3>1. Selected(view.seen) \subseteq Requests
      BY DEF Selected
    <3>2. \A r \in Requests : <<r, "current">> \notin pending /\ handler[r].caller # "schedule"
      BY <2>1 DEF Inflight
    <3>3. \A r \in Requests : <<r, "current">> \in pending' <=> r \in Selected(view.seen)
      BY <1>5, <3>2 DEF ScheduleSelects
    <3>4. UNCHANGED handler
      BY <1>5 DEF ScheduleSelects
    <3> QED BY <3>1, <3>2, <3>3, <3>4 DEF Inflight
  <2>7. Running' = Running
    BY <2>1 DEF Running
  <2> QED BY <2>5, <2>6, <2>7 DEF Bounded
<1> QED BY <1>4, <1>5, StartsMove

LEMMA InitSlots == Init => SlotsInv
<1> SUFFICES ASSUME Init PROVE SlotsInv
  OBVIOUS
<1>1. /\ \A r \in Requests : handler[r] = Idle /\ request[r] = Queued /\ view.seen[r] = Queued
      /\ pending = {} /\ scheduler = "idle" /\ view.by = Nobody /\ view.at = "request"
      /\ \A n \in Runs : supervisor[n] = "none"
  BY DEF Init, NoView
<1>2. Idle.at = "idle" /\ Idle.caller = "owner" /\ Queued.status = "queued"
  BY DEF Idle, Queued
<1>3. Inflight = {} /\ Running = {}
  BY <1>1, <1>2 DEF Inflight, Running
<1>4. Alternating
  BY <1>1, <1>2, <1>3, QueueAssumption DEF Alternating, OfSchedule, Nobody, Scheduler
<1>5. Halts
  BY <1>1, <1>2, QueueAssumption DEF Halts, Quiet, Active, Occupies, Waits, Links, Nobody, Scheduler
<1>6. Bounded
  <2>1. Running \cup Inflight = {}
    BY <1>3
  <2> QED BY <2>1, FS_EmptySet, QueueAssumption DEF Bounded
<1> QED BY <1>4, <1>5, <1>6 DEF SlotsInv

(* Where the owner schedules and cancels, whatever throws or crashes, the   *)
(* scheduler keeps the promise scheduleProjectRuns makes with maxConcurrent, *)
(* with one slot always and with more as long as no start is rejected.      *)
THEOREM SlotsKept == Scheduled /\ Spec /\ []NoneLeftBehind => []SlotsRespected
<1>1. SlotsInv => SlotsRespected
  <2> SUFFICES ASSUME SlotsInv PROVE SlotsRespected
    OBVIOUS
  <2>1. Running \in SUBSET Requests /\ Inflight \in SUBSET Requests
    BY DEF Running, Inflight
  <2>2. IsFiniteSet(Running \cup Inflight) /\ Cardinality(Running \cup Inflight) \in Nat
    BY <2>1, FiniteRequests
  <2>3. Cardinality(Running) <= Cardinality(Running \cup Inflight) /\ Cardinality(Running) \in Nat
    BY <2>1, <2>2, FiniteRequests, FS_Subset
  <2> QED BY <2>2, <2>3, QueueAssumption DEF SlotsInv, Bounded, SlotsRespected, Running
<1>2. CASE Scheduled
  <2>1. SlotsInv /\ Ordered /\ NoneLeftBehind' /\ [Next]_vars => SlotsInv'
    BY <1>2, AlternatingStays, HaltsStay, BoundedStays DEF Slotted, SlotsInv
  <2>2. Spec => []Ordered
    <3>1. Forward
      BY <1>2 DEF Scheduled
    <3> QED BY <3>1, Orderly
  <2>3. Spec /\ []NoneLeftBehind => []SlotsInv
    BY <2>1, <2>2, InitSlots, PTL DEF Spec
  <2> QED BY <1>1, <2>3, PTL
<1> QED BY <1>2
=============================================================================
