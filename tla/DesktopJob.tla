----------------------------- MODULE DesktopJob -----------------------------
(***************************************************************************)
(* One job of the desktop agent, from the stage executor of the core to    *)
(* the agent's machine and back (src/src/desktop-agent).  The core keeps   *)
(* the job with its lease on disk (job-store.ts), the connections, the     *)
(* awaited and the received result in memory (transport.ts); the agent     *)
(* keeps its results in memory and on its own disk (ws-client.ts,          *)
(* result-store.ts).  Connections break at any time, both processes may    *)
(* restart, and an operator or a reality inspection may settle the job     *)
(* behind the executor's back.  Every await is a step of its own.          *)
(***************************************************************************)
EXTENDS Naturals, Sequences

CONSTANTS
  Outcomes,          \* how an execution of the task pack can end
  MaxSessions,       \* bound: connections the agent opens
  MaxRuns,           \* bound: executions of the task pack at the agent
  MaxCalls,          \* bound: executor and inspector calls, the pack mutates
  MaxReadingCalls,   \* bound: the same, the pack only reads
  MaxDisturbances    \* bound: operator calls, restarts and failed writes

ASSUME DesktopAssumption ==
  /\ Outcomes \subseteq {"completed", "retryable", "final"}
  /\ MaxSessions \in Nat /\ MaxRuns \in Nat
  /\ MaxCalls \in Nat /\ MaxReadingCalls \in Nat /\ MaxDisturbances \in Nat

VARIABLES
  pack,        \* the task pack: mutates the workspace, failures are captured
  job,         \* the durable record with its lease
  contained,   \* the revision an operator has contained, if any
  operator,    \* the operator call under way
  executor,    \* the executor or inspector call under way
  core,        \* the transport: sessions, the awaited and the received result
  socket,      \* the connection the agent has open, or 0
  opened,      \* connections opened so far
  unnoticed,   \* broken connections the core has not seen close
  toAgent,     \* how many task frames are on the way to the agent
  toCore,      \* per connection, the result frames on the way to the core
  agent,       \* the agent: results in memory and on disk, tasks under way
  ran,         \* history: how each execution of the task pack ended
  used         \* calls and disturbances so far, and the disturbances that
               \* cost the core its memory or the agent a result

vars == <<pack, job, contained, operator, executor, core, socket,
          opened, unnoticed, toAgent, toCore, agent, ran, used>>

coreVars == <<pack, job, contained, operator>>
wireVars == <<socket, opened, unnoticed, toAgent, toCore>>
storeVars == <<pack, contained, ran>>

Sessions == 1..MaxSessions
Nobody == 0                         \* no lease, no session
Inspector == MaxSessions + 1        \* lease owners of their own, new for each call
Reconciler == MaxSessions + 2

Result == [by : Nat, status : Outcomes \cup {"completed", "error"}]
NoResult == [by |-> 0, status |-> "none"]
Recovered == [by |-> 0, status |-> "completed"]

Results == Result \cup {NoResult}

Statuses == {"none", "pending", "leased", "indeterminate", "completed"}
Attempting == {"send", "waiting", "timeout", "failed", "answered", "record"}
ExecutorSteps == {"idle", "create", "acquire", "claim"} \cup Attempting
OperatorSteps == {"idle", "contain", "claim", "record"}

JobRecord == [status : Statuses, attempts : Nat, owner : 0..Reconciler,
              lease : {"live", "over"}, result : Results]
OperatorCall == [pc : OperatorSteps, revision : Nat, result : Results]
ExecutorCall == [pc : ExecutorSteps, session : 0..Reconciler, attempt : Nat,
                 retries : Nat, result : Results]
CoreMemory == [session : 0..MaxSessions, known : SUBSET Sessions,
               accepting : SUBSET Sessions, pending : Nat, completed : Results]
Frame == [result : Result, kind : {"result", "replay"}]
Task == [socket : 0..MaxSessions, result : Results]
Agent == [memory : Results, disk : Results, tasks : SUBSET Task]

TypeOK ==
  /\ pack \in [mutates : BOOLEAN, capture : BOOLEAN]
  /\ job \in JobRecord /\ contained \subseteq Nat
  /\ operator \in OperatorCall /\ executor \in ExecutorCall
  /\ core \in CoreMemory
  /\ socket \in 0..MaxSessions /\ opened \in 0..MaxSessions
  /\ unnoticed \subseteq Sessions
  /\ toAgent \in Nat /\ toCore \in [Sessions -> Seq(Frame)]
  /\ agent \in Agent /\ ran \in Seq(Outcomes)
  /\ used \in [calls : Nat, disturbances : Nat, losses : Nat]

IdleExecutor == [pc |-> "idle", session |-> Nobody, attempt |-> 0, retries |-> 0,
                 result |-> NoResult]
IdleOperator == [pc |-> "idle", revision |-> 0, result |-> NoResult]
FreshCore == [session |-> Nobody, known |-> {}, accepting |-> {}, pending |-> 0,
              completed |-> NoResult]

Init ==
  /\ pack \in [mutates : BOOLEAN, capture : BOOLEAN]
  /\ job = [status |-> "none", attempts |-> 0, owner |-> Nobody, lease |-> "over",
            result |-> NoResult]
  /\ contained = {}
  /\ operator = IdleOperator
  /\ executor = IdleExecutor
  /\ core = FreshCore
  /\ socket = 0 /\ opened = 0 /\ unnoticed = {}
  /\ toAgent = 0
  /\ toCore = [s \in Sessions |-> <<>>]
  /\ agent = [memory |-> NoResult, disk |-> NoResult, tasks |-> {}]
  /\ ran = <<>>
  /\ used = [calls |-> 0, disturbances |-> 0, losses |-> 0]

Call ==
  /\ used.calls < IF pack.mutates THEN MaxCalls ELSE MaxReadingCalls
  /\ used' = [used EXCEPT !.calls = @ + 1]

Disturb(losses) ==
  /\ used.disturbances < MaxDisturbances /\ job.status # "completed"
  /\ used' = [used EXCEPT !.disturbances = @ + 1, !.losses = @ + losses]

Retryable(result) == result.status \in {"retryable", "error"}

(* Fault: any execution counts as the effect.                               *)
AppliedIfStarted == ran # <<>>

(* The operation's effect is there to be seen on the agent's machine.       *)
Applied == \E i \in DOMAIN ran : ran[i] = "completed"
----------------------------------------------------------------------------
(* The job store.  Each operation runs under the job's lock: one step.      *)

Open == job.status \notin {"none", "completed"}

(* acquireDesktopJobLease: a live lease of another owner refuses, one of    *)
(* the same owner is returned as it is, an expired one is replaced,         *)
(* whatever the status of the job.                                          *)
Live == job.lease = "live"

CanAcquire(owner) == Open /\ (Live => job.owner = owner)

Leased(owner) ==
  IF Live THEN job
  ELSE [status |-> "leased", attempts |-> job.attempts + 1, owner |-> owner,
        lease |-> "live", result |-> job.result]

Holds(owner) == Open /\ job.owner = owner

(* completeDesktopJob: the owner counts, the expiry of its lease does not.  *)
Complete(owner, result) ==
  job' = IF Holds(owner) THEN [job EXCEPT !.status = "completed", !.lease = "over", !.result = result]
         ELSE job

MarkIndeterminate(owner) ==
  job' = IF Holds(owner) THEN [job EXCEPT !.status = "indeterminate"] ELSE job

Requeued == [status |-> "pending", attempts |-> job.attempts, owner |-> Nobody,
             lease |-> "over", result |-> NoResult]

(* The clock passes expiresAt.                                              *)
LeaseExpires ==
  /\ Live
  /\ job' = [job EXCEPT !.lease = "over"]
  /\ UNCHANGED <<pack, contained, operator, executor, core, wireVars,
                 agent, ran, used>>
----------------------------------------------------------------------------
(* The stage executor (desktop-executor.ts) and the reality inspector       *)
(* (reality-inspector.ts); the run's own lock keeps them one at a time.     *)

executorFrame == <<storeVars, operator, wireVars, agent>>

(* An online agent was found, its capability snapshot belongs to the        *)
(* session, and the pack is compiled.                                       *)
BeginExecute ==
  /\ executor.pc = "idle" /\ core.session # Nobody
  /\ Call
  /\ executor' = [IdleExecutor EXCEPT !.pc = "create", !.session = core.session]
  /\ UNCHANGED <<executorFrame, job, core>>

(* createDesktopJob finds the job by its idempotency key or saves it; a     *)
(* completed or indeterminate job ends the call.                            *)
CreateJob ==
  /\ executor.pc = "create"
  /\ job' = IF job.status = "none" THEN [job EXCEPT !.status = "pending"] ELSE job
  /\ executor' = IF job.status \in {"completed", "indeterminate"} THEN IdleExecutor
                 ELSE [executor EXCEPT !.pc = "acquire"]
  /\ UNCHANGED <<executorFrame, core, used>>

(* isDesktopJobContained and acquireDesktopJobLease: a refusal returns or   *)
(* throws.                                                                  *)
Acquire ==
  /\ executor.pc = "acquire"
  /\ IF contained = {} /\ CanAcquire(executor.session)
     THEN /\ job' = Leased(executor.session)
          /\ executor' = [executor EXCEPT !.pc = "send", !.attempt = job'.attempts]
     ELSE executor' = IdleExecutor /\ UNCHANGED job
  /\ UNCHANGED <<executorFrame, core, used>>

(* sendTask of a job that is already awaited joins the wait: only a newer   *)
(* attempt of a pack that mutates nothing is sent again.                    *)
Resend == executor.attempt > core.pending /\ (core.pending > 0 => ~pack.mutates)

(* sendTask and the first part of awaitResult, which looks at the completed *)
(* results of earlier attempts first.                                       *)
Send ==
  /\ executor.pc = "send"
  /\ IF core.session # executor.session
     THEN /\ executor' = [executor EXCEPT !.pc = "failed", !.attempt = 0]
          /\ UNCHANGED <<core, toAgent>>
     ELSE /\ core' = IF Resend THEN [core EXCEPT !.pending = executor.attempt] ELSE core
          /\ toAgent' = IF Resend /\ socket = core.session THEN toAgent + 1 ELSE toAgent
          /\ executor' = IF core.completed = NoResult
                         THEN [executor EXCEPT !.pc = "waiting", !.attempt = 0]
                         ELSE [executor EXCEPT !.pc = "answered", !.attempt = 0,
                                               !.result = core.completed]
  /\ UNCHANGED <<storeVars, job, operator, socket, opened, unnoticed, toCore, agent, used>>

(* Fault: the wait ends only when the session is gone.                      *)
TimeOutOnClose ==
  /\ executor.pc = "waiting" /\ core.session # executor.session
  /\ executor' = [executor EXCEPT !.pc = "timeout"]
  /\ UNCHANGED <<executorFrame, job, core, used>>

(* The wait is at least as long as the lease and starts after it.           *)
TimeOut ==
  /\ executor.pc = "waiting"
  /\ ~(Live /\ job.owner = executor.session)
  /\ executor' = [executor EXCEPT !.pc = "timeout"]
  /\ UNCHANGED <<executorFrame, job, core, used>>

(* Nothing came back from a pack that may have changed the workspace.       *)
GiveUpMutation ==
  /\ executor.pc \in {"timeout", "failed"} /\ pack.mutates
  /\ MarkIndeterminate(executor.session)
  /\ executor' = IdleExecutor
  /\ UNCHANGED <<executorFrame, core, used>>

(* A pack that only reads is requeued, and after its first timeout sent     *)
(* again through the agent's session of that moment.                        *)
GiveUpReading ==
  /\ executor.pc \in {"timeout", "failed"} /\ ~pack.mutates
  /\ job' = IF Holds(executor.session) THEN Requeued ELSE job
  /\ executor' =
       IF /\ Holds(executor.session) /\ core.session # Nobody
          /\ executor.pc = "timeout" /\ executor.retries = 0
       THEN [IdleExecutor EXCEPT !.pc = "acquire", !.session = core.session, !.retries = 1]
       ELSE IdleExecutor
  /\ UNCHANGED <<executorFrame, core, used>>

(* A retryable result requeues the job unless the caller captures it.       *)
Requeue ==
  /\ executor.pc = "answered" /\ Retryable(executor.result) /\ ~pack.capture
  /\ job' = IF Holds(executor.session) THEN Requeued ELSE job
  /\ executor' = IdleExecutor
  /\ UNCHANGED <<executorFrame, core, used>>

RecordResult ==
  /\ executor.pc = "answered" /\ (Retryable(executor.result) => pack.capture)
  /\ Complete(executor.session, executor.result)
  /\ executor' = IdleExecutor
  /\ UNCHANGED <<executorFrame, core, used>>

(* reconcileApplyPatchJob looks for the effect of an indeterminate patch,   *)
(* inspect for the commit of any job that can be recovered; the patch is    *)
(* claimed for a new owner, the commit for the agent's session.             *)
Inspect ==
  /\ executor.pc = "idle" /\ core.session # Nobody
  /\ pack.mutates /\ Applied /\ Open /\ ~Live
  /\ pack.capture => job.status = "indeterminate"
  /\ ~pack.capture => contained = {}
  /\ Call
  /\ executor' = [IdleExecutor EXCEPT !.pc = "claim",
                    !.session = IF pack.capture THEN Inspector ELSE core.session]
  /\ UNCHANGED <<executorFrame, job, core>>

Claim ==
  /\ executor.pc = "claim"
  /\ IF /\ contained = {} /\ CanAcquire(executor.session)
        /\ executor.session = Inspector => ~Live
     THEN job' = Leased(executor.session) /\ executor' = [executor EXCEPT !.pc = "record"]
     ELSE executor' = IdleExecutor /\ UNCHANGED job
  /\ UNCHANGED <<executorFrame, core, used>>

RecordRecovered ==
  /\ executor.pc = "record"
  /\ Complete(executor.session, Recovered)
  /\ executor' = IdleExecutor
  /\ UNCHANGED <<executorFrame, core, used>>
----------------------------------------------------------------------------
(* The operator (operator-reconciliation.ts); the operator lock of the job  *)
(* keeps the calls one at a time.                                           *)

operatorFrame == <<pack, executor, core, wireVars, agent, ran>>

(* containDesktopJobAsOperator inspects the job and consumes an approval of  *)
(* the revision it saw: the number of attempts, for a pending job.          *)
BeginContain ==
  /\ operator.pc = "idle"
  /\ job.status = "pending" /\ contained = {}
  /\ Disturb(0)
  /\ operator' = [IdleOperator EXCEPT !.pc = "contain", !.revision = job.attempts]
  /\ UNCHANGED <<operatorFrame, job, contained>>

(* Fault: the revision is not compared again.                               *)
ContainUncompared ==
  /\ operator.pc = "contain"
  /\ contained' = IF contained = {} /\ job.owner = Nobody /\ job.status = "pending"
                  THEN {operator.revision} ELSE contained
  /\ operator' = IdleOperator
  /\ UNCHANGED <<operatorFrame, job, used>>

(* containDesktopJob compares the revision once more under the job's lock.  *)
Contain ==
  /\ operator.pc = "contain"
  /\ contained' = IF /\ contained = {} /\ job.owner = Nobody /\ job.status = "pending"
                     /\ job.attempts = operator.revision
                  THEN {operator.revision} ELSE contained
  /\ operator' = IdleOperator
  /\ UNCHANGED <<operatorFrame, job, used>>

(* reconcileVerifiedDesktopJobResult: the result file of the agent.         *)
BeginReconcile ==
  /\ operator.pc = "idle"
  /\ Open /\ agent.disk # NoResult
  /\ Disturb(0)
  /\ operator' = [IdleOperator EXCEPT !.pc = "claim", !.result = agent.disk]
  /\ UNCHANGED <<operatorFrame, job, contained>>

(* Acquired for an owner of its own, contained or not.                      *)
ReconcileClaim ==
  /\ operator.pc = "claim"
  /\ IF Open /\ ~Live
     THEN job' = Leased(Reconciler) /\ operator' = [operator EXCEPT !.pc = "record"]
     ELSE operator' = IdleOperator /\ UNCHANGED job
  /\ UNCHANGED <<operatorFrame, contained, used>>

ReconcileRecord ==
  /\ operator.pc = "record"
  /\ Complete(Reconciler, operator.result)
  /\ operator' = IdleOperator
  /\ UNCHANGED <<operatorFrame, contained, used>>
----------------------------------------------------------------------------
(* Connections (transport.ts, ws-server.ts, ws-client.ts).  The agent keeps *)
(* one open and opens the next when it has closed.                          *)

wireFrame == <<coreVars, executor, agent, ran, used>>

(* The hello reaches acceptHello, which closes the previous session and     *)
(* then awaits the registration of the agent.  Nothing that still comes     *)
(* from the previous session has an effect.                                 *)
Connect ==
  /\ socket = 0 /\ opened < MaxSessions
  /\ opened' = opened + 1
  /\ socket' = opened'
  /\ core' = [core EXCEPT !.known = @ \ {core.session}, !.session = Nobody,
                          !.accepting = @ \cup {opened'}]
  /\ unnoticed' = unnoticed \ {core.session}
  /\ toCore' = [s \in Sessions |-> IF s = core.session THEN <<>> ELSE toCore[s]]
  /\ UNCHANGED <<wireFrame, toAgent>>

ToCore(s, result, kind) ==
  IF socket = s /\ result # NoResult
  THEN [toCore EXCEPT ![s] = Append(@, [result |-> result, kind |-> kind])]
  ELSE toCore

(* The registration is saved, whether or not the connection still exists.   *)
(* The agent answers "accepted" with a replay of what it remembers; nothing *)
(* is on the way to it before that frame, so both are one step.             *)
Accept(s) ==
  /\ s \in core.accepting
  /\ core' = [core EXCEPT !.accepting = @ \ {s}, !.known = @ \cup {s}, !.session = s]
  /\ toCore' = ToCore(s, agent.memory, "replay")
  /\ UNCHANGED <<wireFrame, socket, opened, unnoticed, toAgent>>

(* The connection breaks: what was on the way to the agent is lost, what    *)
(* was on the way to the core may still arrive before the close is seen.    *)
Broken(s) ==
  IF socket = s /\ s # 0
  THEN socket' = 0 /\ toAgent' = 0 /\ unnoticed' = unnoticed \cup {s}
  ELSE UNCHANGED <<socket, toAgent, unnoticed>>

Disconnect ==
  /\ socket # 0
  /\ Broken(socket)
  /\ UNCHANGED <<wireFrame, core, opened, toCore>>

(* The close event: disconnect(sessionId).                                  *)
NoticeClose(s) ==
  /\ s \in unnoticed
  /\ unnoticed' = unnoticed \ {s}
  /\ toCore' = [toCore EXCEPT ![s] = <<>>]
  /\ core' = [core EXCEPT !.known = @ \ {s}, !.session = IF @ = s THEN Nobody ELSE @]
  /\ UNCHANGED <<wireFrame, socket, opened, toAgent>>

(* handleMessage of a result: it is taken once, if it is awaited; the same  *)
(* result again and a replay nobody awaits are ignored; everything else     *)
(* closes the connection.                                                   *)
Taken(s, frame) == s \in core.known /\ core.completed = NoResult /\ core.pending > 0

Ignored(s, frame) ==
  /\ s \in core.known
  /\ \/ core.completed = frame.result
     \/ core.completed = NoResult /\ core.pending = 0 /\ frame.kind = "replay"

ReceiveResult(s) ==
  /\ toCore[s] # <<>>
  /\ toCore' = [toCore EXCEPT ![s] = Tail(@)]
  /\ LET frame == Head(toCore[s]) IN
     \/ /\ Taken(s, frame)
        /\ core' = [core EXCEPT !.pending = 0, !.completed = frame.result]
        /\ executor' = IF executor.pc = "waiting"
                       THEN [executor EXCEPT !.pc = "answered", !.result = frame.result]
                       ELSE executor
        /\ UNCHANGED <<socket, toAgent, unnoticed>>
     \/ /\ Ignored(s, frame)
        /\ UNCHANGED <<core, executor, socket, toAgent, unnoticed>>
     \/ /\ ~Taken(s, frame) /\ ~Ignored(s, frame)
        /\ Broken(s)
        /\ UNCHANGED <<core, executor>>
  /\ UNCHANGED <<coreVars, opened, agent, ran, used>>
----------------------------------------------------------------------------
(* The agent (ws-client.ts, runtime.ts, agent-service.ts).                  *)

agentFrame == <<coreVars, executor, core, opened>>

(* A task whose result the agent remembers is answered from memory; any     *)
(* other is started, also one that still runs for an earlier connection.    *)
ReceiveTask ==
  /\ toAgent > 0
  /\ toAgent' = toAgent - 1
  /\ toCore' = ToCore(socket, agent.memory, "result")
  /\ agent' = IF agent.memory # NoResult THEN agent
              ELSE [agent EXCEPT !.tasks = @ \cup
                      {[socket |-> socket, result |-> NoResult]}]
  /\ UNCHANGED <<agentFrame, socket, unnoticed, ran, used>>

(* executeDesktopTaskPack: the operations run, up to the first that fails.  *)
RunPack(task) ==
  /\ task \in agent.tasks /\ task.result = NoResult /\ Len(ran) < MaxRuns
  /\ \E outcome \in Outcomes :
       /\ ran' = Append(ran, outcome)
       /\ agent' = [agent EXCEPT !.tasks = (@ \ {task}) \cup
                      {[task EXCEPT !.result = [by |-> Len(ran'), status |-> outcome]]}]
  /\ UNCHANGED <<agentFrame, wireVars, used>>

(* The result is remembered, and sent if the connection the task came on is *)
(* still the one that is open.                                              *)
Answer(task, result) ==
  /\ toCore' = ToCore(task.socket, result, "result")
  /\ UNCHANGED <<agentFrame, socket, unnoticed, toAgent, ran>>

(* Fault: the result is remembered and sent but not written.                *)
ReportUnsaved(task) ==
  /\ task \in agent.tasks /\ task.result # NoResult
  /\ agent' = [agent EXCEPT !.memory = task.result, !.tasks = @ \ {task}]
  /\ Answer(task, task.result)
  /\ UNCHANGED used

Report(task) ==
  /\ task \in agent.tasks /\ task.result # NoResult
  /\ agent' = [memory |-> task.result, disk |-> task.result, tasks |-> agent.tasks \ {task}]
  /\ Answer(task, task.result)
  /\ UNCHANGED used

(* The result cannot be written: a task error is remembered instead.        *)
PersistFails(task) ==
  /\ task \in agent.tasks /\ task.result # NoResult
  /\ Disturb(1)
  /\ LET error == [task.result EXCEPT !.status = "error"] IN
     /\ agent' = [agent EXCEPT !.memory = error, !.tasks = @ \ {task}]
     /\ Answer(task, error)

(* The agent's process ends; the next one loads its results from disk.      *)
RestartAgent ==
  /\ Disturb(0)
  /\ agent' = [agent EXCEPT !.memory = agent.disk, !.tasks = {}]
  /\ Broken(socket)
  /\ UNCHANGED <<coreVars, executor, core, opened, toCore, ran>>

(* The core's process ends: only the job store survives.                    *)
RestartCore ==
  /\ Disturb(1)
  /\ executor' = IdleExecutor /\ operator' = IdleOperator
  /\ core' = FreshCore
  /\ socket' = 0 /\ unnoticed' = {} /\ toAgent' = 0
  /\ toCore' = [s \in Sessions |-> <<>>]
  /\ UNCHANGED <<storeVars, job, opened, agent>>
----------------------------------------------------------------------------
Execution ==
  \/ CreateJob \/ Acquire \/ Send \/ TimeOut \/ GiveUpMutation \/ GiveUpReading
  \/ Requeue \/ RecordResult \/ Claim \/ RecordRecovered

Operation ==
  \/ Contain \/ ReconcileClaim \/ ReconcileRecord

Transport == \E s \in Sessions : Accept(s) \/ NoticeClose(s) \/ ReceiveResult(s)

Work ==
  \/ ReceiveTask
  \/ \E task \in agent.tasks : RunPack(task) \/ Report(task) \/ PersistFails(task)

Next ==
  \/ LeaseExpires
  \/ BeginExecute \/ Inspect \/ Execution
  \/ BeginContain \/ BeginReconcile \/ Operation
  \/ Connect \/ Disconnect \/ Transport
  \/ Work \/ RestartAgent \/ RestartCore

Spec == Init /\ [][Next]_vars

(* The event loop runs every continuation, and the clock passes the expiry  *)
(* of a lease and the end of a wait.  Nothing forces the agent to work, to  *)
(* connect or to stay connected.                                            *)
Fairness == WF_vars(Execution) /\ WF_vars(LeaseExpires)

FairSpec == Spec /\ Fairness
----------------------------------------------------------------------------
(* The job seen from the run that waits for it.                             *)
Receipt == INSTANCE JobReceipt WITH
  NoReceipt <- NoResult,
  receipt <- IF job.status = "completed" THEN job.result ELSE NoResult

(* The job store, the transport and the agent together implement the        *)
(* receipt: whatever is replayed, late, reconciled by the operator or       *)
(* recovered by an inspection, the record of a completed job says what an   *)
(* execution at the agent did, and nobody replaces it.                      *)
ImplementsReceipt == Receipt!Spec

(* A contained job is out of the executor's hands: it stays at the revision *)
(* the operator's approval names, no attempt is being sent or awaited, and  *)
(* only the operator's own reconciliation moves the job on.                 *)
ContainmentHolds ==
  contained # {} =>
    /\ executor.pc \notin Attempting
    /\ \/ job.status = "pending" /\ job.attempts \in contained
       \/ job.status \in {"leased", "completed"} /\ job.owner = Reconciler

(* As long as the core does not restart and the agent can write its         *)
(* results, a pack that mutates the workspace runs at most once, however    *)
(* often connections break, the agent restarts or the run is retried.       *)
MutationOnce ==
  pack.mutates /\ used.losses = 0 => Len(ran) <= 1

(* execute and inspect come back, also when the agent never answers.        *)
EveryExecutionReturns == executor.pc # "idle" ~> executor.pc = "idle"
=============================================================================
