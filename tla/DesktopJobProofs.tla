-------------------------- MODULE DesktopJobProofs --------------------------
(***************************************************************************)
(* Proofs about the desktop job, for any bounds and any set of outcomes.   *)
(***************************************************************************)
EXTENDS DesktopJob, SequenceTheorems, TLAPS

LEMMA ConstantsTyped ==
  /\ Inspector \in 0..Reconciler /\ Reconciler \in 0..Reconciler /\ Nobody \in 0..Reconciler
  /\ Inspector # Nobody /\ Reconciler # Nobody
  /\ \A s \in 0..MaxSessions : s \in 0..Reconciler
  /\ NoResult \in Results /\ Recovered \in Results
  /\ NoResult \notin Result
BY DesktopAssumption DEF Inspector, Reconciler, Nobody, Results, Result, Recovered, NoResult

(* What the operations of the store leave behind is a job record.           *)
LEMMA JobSteps ==
  ASSUME job \in JobRecord
  PROVE  /\ \A owner \in 0..Reconciler : Leased(owner) \in JobRecord
         /\ Requeued \in JobRecord
         /\ \A owner \in 0..Reconciler : \A result \in Results :
              Complete(owner, result) => job' \in JobRecord
         /\ \A owner \in 0..Reconciler : MarkIndeterminate(owner) => job' \in JobRecord
<1>1. \A owner \in 0..Reconciler : Leased(owner) \in JobRecord
  BY DEF JobRecord, Leased, Live, Statuses
<1>2. Requeued \in JobRecord
  BY ConstantsTyped DEF JobRecord, Requeued, Statuses
<1>3. \A owner \in 0..Reconciler : \A result \in Results :
        Complete(owner, result) => job' \in JobRecord
  BY DEF JobRecord, Complete, Statuses
<1>4. \A owner \in 0..Reconciler : MarkIndeterminate(owner) => job' \in JobRecord
  BY DEF JobRecord, MarkIndeterminate, Statuses
<1> QED
  BY <1>1, <1>2, <1>3, <1>4

LEMMA CallsTyped ==
  /\ IdleExecutor \in ExecutorCall /\ IdleOperator \in OperatorCall /\ FreshCore \in CoreMemory
  /\ \A e \in ExecutorCall : \A pc \in ExecutorSteps :
       /\ [e EXCEPT !.pc = pc] \in ExecutorCall
       /\ \A r \in Results : [e EXCEPT !.pc = pc, !.result = r] \in ExecutorCall
  /\ \A s \in 0..Reconciler : \A pc \in ExecutorSteps :
       /\ [IdleExecutor EXCEPT !.pc = pc, !.session = s] \in ExecutorCall
       /\ [IdleExecutor EXCEPT !.pc = pc, !.session = s, !.retries = 1] \in ExecutorCall
<1>1. IdleExecutor \in ExecutorCall /\ IdleOperator \in OperatorCall /\ FreshCore \in CoreMemory
  BY ConstantsTyped, DesktopAssumption
     DEF IdleExecutor, ExecutorCall, IdleOperator, OperatorCall, FreshCore, CoreMemory,
         ExecutorSteps, OperatorSteps, Nobody
<1>2. \A e \in ExecutorCall : \A pc \in ExecutorSteps :
       /\ [e EXCEPT !.pc = pc] \in ExecutorCall
       /\ \A r \in Results : [e EXCEPT !.pc = pc, !.result = r] \in ExecutorCall
  BY DEF ExecutorCall
<1>3. \A s \in 0..Reconciler : \A pc \in ExecutorSteps :
       /\ [IdleExecutor EXCEPT !.pc = pc, !.session = s] \in ExecutorCall
       /\ [IdleExecutor EXCEPT !.pc = pc, !.session = s, !.retries = 1] \in ExecutorCall
  BY ConstantsTyped DEF IdleExecutor, ExecutorCall
<1> QED
  BY <1>1, <1>2, <1>3

LEMMA SendsTyped ==
  ASSUME toCore \in [Sessions -> Seq(Frame)]
  PROVE  \A s \in 0..MaxSessions : \A result \in Results : \A kind \in {"result", "replay"} :
           ToCore(s, result, kind) \in [Sessions -> Seq(Frame)]
<1> SUFFICES ASSUME NEW s \in 0..MaxSessions, NEW result \in Results,
                    NEW kind \in {"result", "replay"}
             PROVE  ToCore(s, result, kind) \in [Sessions -> Seq(Frame)]
  OBVIOUS
<1>1. CASE socket = s /\ result # NoResult
  <2> DEFINE frame == [result |-> result, kind |-> kind]
  <2>1. frame \in Frame
    BY <1>1 DEF Frame, Results
  <2> HIDE DEF frame
  <2>2. ASSUME s \in Sessions PROVE Append(toCore[s], frame) \in Seq(Frame)
    BY <2>1, <2>2
  <2>3. ToCore(s, result, kind) = [toCore EXCEPT ![s] = Append(@, frame)]
    BY <1>1 DEF ToCore, frame
  <2> QED
    BY <2>2, <2>3
<1>2. CASE ~(socket = s /\ result # NoResult)
  BY <1>2 DEF ToCore
<1> QED
  BY <1>1, <1>2

LEMMA UseTyped ==
  ASSUME used \in [calls : Nat, disturbances : Nat, losses : Nat],
         Call \/ Disturb(0) \/ Disturb(1)
  PROVE  used' \in [calls : Nat, disturbances : Nat, losses : Nat]
<1>1. CASE Call
  BY <1>1 DEF Call
<1>2. ASSUME NEW n \in {0, 1}, Disturb(n)
      PROVE  used' \in [calls : Nat, disturbances : Nat, losses : Nat]
  <2>1. used.disturbances + 1 \in Nat /\ used.losses + n \in Nat
    OBVIOUS
  <2>2. used' = [used EXCEPT !.disturbances = used.disturbances + 1,
                             !.losses = used.losses + n]
    BY <1>2 DEF Disturb
  <2> QED
    BY <2>1, <2>2
<1> QED
  BY <1>1, <1>2

(* TypeOK is inductive: the executor's and inspector's steps, ...           *)
LEMMA ExecutorTyped ==
  ASSUME TypeOK, LeaseExpires \/ BeginExecute \/ Inspect \/ Execution
  PROVE  TypeOK'
<1> USE DEF TypeOK, wireVars, storeVars, executorFrame
<1>1. executor.session \in 0..Reconciler /\ executor.result \in Results
  /\ executor.attempt \in Nat /\ core.session \in 0..Reconciler
  /\ core.completed \in Results /\ core.session \in 0..MaxSessions
  BY ConstantsTyped DEF ExecutorCall, CoreMemory
<1>2. CASE LeaseExpires
  <2>1. job' \in JobRecord
    BY <1>2 DEF LeaseExpires, JobRecord
  <2> QED
    BY <1>2, <2>1 DEF LeaseExpires
<1>3. CASE BeginExecute
  <2>1. executor' \in ExecutorCall
    BY <1>1, <1>3, CallsTyped DEF BeginExecute, ExecutorSteps
  <2>2. used' \in [calls : Nat, disturbances : Nat, losses : Nat]
    BY <1>3, UseTyped DEF BeginExecute
  <2> QED
    BY <1>3, <2>1, <2>2 DEF BeginExecute
<1>4. CASE Inspect
  <2>1. executor' \in ExecutorCall
    BY <1>1, <1>4, CallsTyped, ConstantsTyped DEF Inspect, ExecutorSteps
  <2>2. used' \in [calls : Nat, disturbances : Nat, losses : Nat]
    BY <1>4, UseTyped DEF Inspect
  <2> QED
    BY <1>4, <2>1, <2>2 DEF Inspect
<1>5. CASE CreateJob
  <2>1. executor' \in ExecutorCall
    BY <1>1, <1>5, CallsTyped DEF CreateJob, ExecutorSteps
  <2>2. job' \in JobRecord
    BY <1>5 DEF CreateJob, JobRecord, Statuses
  <2> QED
    BY <1>5, <2>1, <2>2 DEF CreateJob
<1>6. CASE Acquire
  <2>1. job' \in JobRecord
    BY <1>1, <1>6, JobSteps DEF Acquire
  <2>2. job'.attempts \in Nat /\ "send" \in ExecutorSteps
    BY <2>1 DEF JobRecord, ExecutorSteps, Attempting
  <2>3. executor' \in ExecutorCall
    <3>1. \/ executor' = IdleExecutor
          \/ executor' = [executor EXCEPT !.pc = "send", !.attempt = job'.attempts]
      BY <1>6 DEF Acquire
    <3>2. [executor EXCEPT !.pc = "send", !.attempt = job'.attempts] \in ExecutorCall
      BY <2>2 DEF ExecutorCall
    <3> QED
      BY <3>1, <3>2, CallsTyped
  <2> QED
    BY <1>6, <2>1, <2>3 DEF Acquire
<1>7. CASE Send
  <2>1. core' \in CoreMemory
    BY <1>1, <1>7 DEF Send, CoreMemory
  <2>2. toAgent' \in Nat
    BY <1>7 DEF Send
  <2>3. {"failed", "waiting", "answered"} \subseteq ExecutorSteps
    BY DEF ExecutorSteps, Attempting
  <2>4. executor' \in ExecutorCall
    <3>1. \/ executor' = [executor EXCEPT !.pc = "failed", !.attempt = 0]
          \/ executor' = [executor EXCEPT !.pc = "waiting", !.attempt = 0]
          \/ executor' = [executor EXCEPT !.pc = "answered", !.attempt = 0,
                                          !.result = core.completed]
      BY <1>7 DEF Send
    <3>2. /\ [executor EXCEPT !.pc = "failed", !.attempt = 0] \in ExecutorCall
          /\ [executor EXCEPT !.pc = "waiting", !.attempt = 0] \in ExecutorCall
          /\ [executor EXCEPT !.pc = "answered", !.attempt = 0,
                              !.result = core.completed] \in ExecutorCall
      BY <1>1, <2>3 DEF ExecutorCall
    <3> QED
      BY <3>1, <3>2
  <2> QED
    BY <1>7, <2>1, <2>2, <2>4 DEF Send
<1>8. CASE TimeOut
  <2>1. "timeout" \in ExecutorSteps
    BY DEF ExecutorSteps, Attempting
  <2> QED
    BY <1>8, <2>1, CallsTyped, ConstantsTyped DEF TimeOut
<1>9. CASE GiveUpMutation
  BY <1>1, <1>9, JobSteps, CallsTyped DEF GiveUpMutation
<1>10. CASE GiveUpReading
  <2>1. "acquire" \in ExecutorSteps
    BY DEF ExecutorSteps
  <2>2. executor' \in ExecutorCall
    BY <1>1, <1>10, <2>1, CallsTyped DEF GiveUpReading
  <2> QED
    BY <1>10, <2>2, JobSteps DEF GiveUpReading
<1>11. CASE Requeue
  BY <1>11, JobSteps, CallsTyped DEF Requeue
<1>12. CASE RecordResult
  BY <1>1, <1>12, JobSteps, CallsTyped DEF RecordResult
<1>13. CASE Claim
  <2>1. "record" \in ExecutorSteps
    BY DEF ExecutorSteps, Attempting
  <2>2. executor' \in ExecutorCall
    <3>1. executor' = IdleExecutor \/ executor' = [executor EXCEPT !.pc = "record"]
      BY <1>13 DEF Claim
    <3>2. [executor EXCEPT !.pc = "record"] \in ExecutorCall
      BY <2>1 DEF ExecutorCall
    <3> QED
      BY <3>1, <3>2, CallsTyped
  <2>3. job' \in JobRecord
    BY <1>1, <1>13, JobSteps DEF Claim
  <2> QED
    BY <1>13, <2>2, <2>3 DEF Claim
<1>14. CASE RecordRecovered
  BY <1>1, <1>14, JobSteps, CallsTyped, ConstantsTyped DEF RecordRecovered
<1> QED
  BY <1>2, <1>3, <1>4, <1>5, <1>6, <1>7, <1>8, <1>9, <1>10, <1>11, <1>12, <1>13, <1>14
     DEF Execution

(* ... the operator's ...                                                   *)
LEMMA OperatorTyped ==
  ASSUME TypeOK, BeginContain \/ BeginReconcile \/ Operation
  PROVE  TypeOK'
<1> USE DEF TypeOK, wireVars, operatorFrame
<1>1. /\ job.attempts \in Nat /\ agent.disk \in Results
      /\ operator.revision \in Nat /\ operator.result \in Results
  BY DEF JobRecord, Agent, OperatorCall
<1>2. CASE BeginContain
  <2>1. operator' \in OperatorCall
    BY <1>1, <1>2, CallsTyped DEF BeginContain, IdleOperator, OperatorCall, OperatorSteps
  <2> QED
    BY <1>2, <2>1, UseTyped DEF BeginContain
<1>3. CASE BeginReconcile
  <2>1. operator' \in OperatorCall
    BY <1>1, <1>3, CallsTyped DEF BeginReconcile, IdleOperator, OperatorCall, OperatorSteps
  <2> QED
    BY <1>3, <2>1, UseTyped DEF BeginReconcile
<1>4. CASE Contain
  BY <1>1, <1>4, CallsTyped DEF Contain
<1>5. CASE ReconcileClaim
  <2>1. operator' \in OperatorCall
    BY <1>5, CallsTyped DEF ReconcileClaim, OperatorCall, OperatorSteps
  <2> QED
    BY <1>5, <2>1, JobSteps, ConstantsTyped DEF ReconcileClaim
<1>6. CASE ReconcileRecord
  BY <1>1, <1>6, CallsTyped, JobSteps, ConstantsTyped DEF ReconcileRecord
<1> QED
  BY <1>2, <1>3, <1>4, <1>5, <1>6 DEF Operation

(* ... those of the connection ...                                          *)
LEMMA BreakTyped ==
  ASSUME TypeOK, NEW s \in 0..MaxSessions, Broken(s)
  PROVE  socket' \in 0..MaxSessions /\ toAgent' \in Nat /\ unnoticed' \subseteq Sessions
<1>1. CASE socket = s /\ s # 0
  <2>1. s \in Sessions /\ 0 \in 0..MaxSessions
    BY <1>1, DesktopAssumption DEF Sessions
  <2>2. socket' = 0 /\ toAgent' = 0 /\ unnoticed' = unnoticed \cup {s}
    BY <1>1 DEF Broken
  <2> QED
    BY <2>1, <2>2 DEF TypeOK
<1>2. CASE ~(socket = s /\ s # 0)
  BY <1>2 DEF TypeOK, Broken
<1> QED
  BY <1>1, <1>2

LEMMA TransportTyped ==
  ASSUME TypeOK, Connect \/ Disconnect \/ Transport
  PROVE  TypeOK'
<1> USE DesktopAssumption DEF TypeOK, coreVars, wireFrame
<1>1. CASE Connect
  <2>1. opened' \in Sessions /\ socket' \in 0..MaxSessions
    BY <1>1 DEF Connect, Sessions
  <2>2. core' \in CoreMemory
    BY <1>1, <2>1 DEF Connect, CoreMemory, Nobody
  <2>3. toCore' \in [Sessions -> Seq(Frame)]
    BY <1>1 DEF Connect
  <2> QED
    BY <1>1, <2>1, <2>2, <2>3 DEF Connect, Sessions
<1>2. CASE Disconnect
  BY <1>2, BreakTyped DEF Disconnect
<1>3. ASSUME NEW s \in Sessions, Accept(s) PROVE TypeOK'
  <2>0. s \in 0..MaxSessions /\ agent.memory \in Results
    BY DEF Sessions, Agent
  <2>1. core' \in CoreMemory
    BY <1>3, <2>0 DEF Accept, CoreMemory
  <2>2. toCore' \in [Sessions -> Seq(Frame)]
    BY <1>3, <2>0, SendsTyped DEF Accept
  <2> QED
    BY <1>3, <2>1, <2>2 DEF Accept
<1>4. ASSUME NEW s \in Sessions, NoticeClose(s) PROVE TypeOK'
  <2>0. 0 \in 0..MaxSessions
    OBVIOUS
  <2>1. core' \in CoreMemory
    BY <1>4, <2>0 DEF NoticeClose, CoreMemory, Nobody
  <2> QED
    BY <1>4, <2>1 DEF NoticeClose
<1>5. ASSUME NEW s \in Sessions, ReceiveResult(s) PROVE TypeOK'
  <2> DEFINE frame == Head(toCore[s])
  <2>1. toCore[s] \in Seq(Frame) /\ toCore[s] # <<>>
    BY <1>5 DEF ReceiveResult
  <2>a. frame \in Frame
    BY <2>1
  <2>2. frame.result \in Results /\ frame.result # NoResult
    BY <2>a, ConstantsTyped DEF Frame, Results
  <2>3. toCore' \in [Sessions -> Seq(Frame)]
    BY <1>5, <2>1 DEF ReceiveResult
  <2> HIDE DEF frame
  <2>4. CASE Taken(s, frame)
    <3>0. ~Ignored(s, frame)
      BY <2>2, <2>4 DEF Taken, Ignored, CoreMemory
    <3>1. /\ core' = [core EXCEPT !.pending = 0, !.completed = frame.result]
          /\ executor' = IF executor.pc = "waiting"
                         THEN [executor EXCEPT !.pc = "answered", !.result = frame.result]
                         ELSE executor
          /\ UNCHANGED <<socket, toAgent, unnoticed>>
      BY <1>5, <2>4, <3>0 DEF ReceiveResult, frame
    <3>2. core' \in CoreMemory
      BY <3>1, <2>2 DEF CoreMemory
    <3>3. "answered" \in ExecutorSteps
      BY DEF ExecutorSteps, Attempting
    <3>4. executor' \in ExecutorCall
      BY <3>1, <2>2, <3>3, CallsTyped
    <3> QED
      BY <1>5, <2>3, <3>1, <3>2, <3>4 DEF ReceiveResult
  <2>5. CASE ~Taken(s, frame)
    <3>1. UNCHANGED <<core, executor>>
      BY <1>5, <2>5 DEF ReceiveResult, frame
    <3>0. s \in 0..MaxSessions
      BY DEF Sessions
    <3>2. socket' \in 0..MaxSessions /\ toAgent' \in Nat /\ unnoticed' \subseteq Sessions
      <4>1. CASE Broken(s)
        BY <4>1, <3>0, BreakTyped
      <4>2. CASE UNCHANGED <<socket, toAgent, unnoticed>>
        BY <4>2
      <4> QED
        BY <1>5, <2>5, <4>1, <4>2 DEF ReceiveResult, frame
    <3> QED
      BY <1>5, <2>3, <3>1, <3>2 DEF ReceiveResult
  <2> QED
    BY <2>4, <2>5
<1> QED
  BY <1>1, <1>2, <1>3, <1>4, <1>5 DEF Transport

(* ... those of the agent, and the restarts keep the types.                 *)
LEMMA AnswerTyped ==
  ASSUME TypeOK, NEW task \in Task, NEW result \in Results, Answer(task, result),
         agent' \in Agent, used' \in [calls : Nat, disturbances : Nat, losses : Nat]
  PROVE  TypeOK'
<1>1. toCore' \in [Sessions -> Seq(Frame)]
  BY SendsTyped DEF TypeOK, Answer, Task
<1> QED
  BY <1>1 DEF TypeOK, Answer, agentFrame, coreVars

LEMMA WorkTyped ==
  ASSUME TypeOK, Work \/ RestartAgent \/ RestartCore
  PROVE  TypeOK'
<1> USE DesktopAssumption DEF TypeOK, coreVars, wireVars, storeVars, agentFrame
<1>1. CASE ReceiveTask
  <2>1. agent' \in Agent
    <3>1. [socket |-> socket, result |-> NoResult] \in Task
      BY ConstantsTyped DEF Task
    <3> QED
      BY <3>1, <1>1 DEF ReceiveTask, Agent
  <2>2. toCore' \in [Sessions -> Seq(Frame)]
    BY <1>1, SendsTyped DEF ReceiveTask, Agent
  <2>3. toAgent' \in Nat
    BY <1>1 DEF ReceiveTask
  <2> QED
    BY <1>1, <2>1, <2>2, <2>3 DEF ReceiveTask
<1>2. ASSUME NEW task \in agent.tasks, RunPack(task) PROVE TypeOK'
  <2>1. PICK outcome \in Outcomes :
          /\ ran' = Append(ran, outcome)
          /\ agent' = [agent EXCEPT !.tasks = (@ \ {task}) \cup
               {[task EXCEPT !.result = [by |-> Len(ran'), status |-> outcome]]}]
    BY <1>2 DEF RunPack
  <2>2. ran' \in Seq(Outcomes) /\ Len(ran') \in Nat
    BY <2>1
  <2>3. [by |-> Len(ran'), status |-> outcome] \in Results
    BY <2>2 DEF Results, Result
  <2>4. task \in Task
    BY DEF Agent
  <2>5. [task EXCEPT !.result = [by |-> Len(ran'), status |-> outcome]] \in Task
    BY <2>3, <2>4 DEF Task
  <2>6. agent' \in Agent
    BY <2>1, <2>5 DEF Agent
  <2> QED
    BY <1>2, <2>2, <2>6 DEF RunPack
<1>3. ASSUME NEW task \in agent.tasks, Report(task) PROVE TypeOK'
  <2>1. task \in Task /\ task.result \in Results
    BY DEF Agent, Task
  <2>2. agent' \in Agent
    BY <1>3, <2>1 DEF Report, Agent
  <2> QED
    BY <1>3, <2>1, <2>2, AnswerTyped DEF Report
<1>4. ASSUME NEW task \in agent.tasks, PersistFails(task) PROVE TypeOK'
  <2> DEFINE error == [task.result EXCEPT !.status = "error"]
  <2>1. task \in Task /\ task.result \in Result
    BY <1>4 DEF Agent, Task, PersistFails, Results
  <2>2. error \in Results
    BY <2>1 DEF Result, Results
  <2>3. agent' \in Agent
    BY <1>4, <2>2 DEF PersistFails, Agent
  <2>4. Answer(task, error)
    BY <1>4 DEF PersistFails
  <2>5. used' \in [calls : Nat, disturbances : Nat, losses : Nat]
    BY <1>4, UseTyped DEF PersistFails
  <2> HIDE DEF error
  <2> QED
    BY <2>1, <2>2, <2>3, <2>4, <2>5, AnswerTyped
<1>5. CASE RestartAgent
  <2>1. agent' \in Agent
    BY <1>5 DEF RestartAgent, Agent
  <2>2. used' \in [calls : Nat, disturbances : Nat, losses : Nat]
    BY <1>5, UseTyped DEF RestartAgent
  <2> QED
    BY <1>5, <2>1, <2>2, BreakTyped DEF RestartAgent
<1>6. CASE RestartCore
  <2>1. toCore' \in [Sessions -> Seq(Frame)]
    BY <1>6 DEF RestartCore
  <2>2. used' \in [calls : Nat, disturbances : Nat, losses : Nat]
    BY <1>6, UseTyped DEF RestartCore
  <2>3. socket' \in 0..MaxSessions /\ unnoticed' \subseteq Sessions /\ toAgent' \in Nat
    BY <1>6 DEF RestartCore
  <2>4. /\ executor' \in ExecutorCall /\ operator' \in OperatorCall /\ core' \in CoreMemory
    BY <1>6, CallsTyped DEF RestartCore
  <2> QED
    BY <1>6, <2>1, <2>2, <2>3, <2>4 DEF RestartCore
<1> QED
  BY <1>1, <1>2, <1>3, <1>4, <1>5, <1>6 DEF Work

LEMMA TypeInductive == TypeOK /\ [Next]_vars => TypeOK'
<1>1. TypeOK /\ UNCHANGED vars => TypeOK'
  BY DEF TypeOK, vars
<1> QED
  BY <1>1, ExecutorTyped, OperatorTyped, TransportTyped, WorkTyped DEF Next

(* The job's record, the calls under way, the core's and the agent's memory *)
(* and the frames have their types.                                         *)
THEOREM DesktopTyped == Spec => []TypeOK
<1>1. Init => TypeOK
  <2> SUFFICES ASSUME Init PROVE TypeOK
    OBVIOUS
  <2>1. job \in JobRecord
    BY ConstantsTyped DEF Init, JobRecord, Statuses, Nobody
  <2>2. agent \in Agent
    BY ConstantsTyped DEF Init, Agent
  <2>3. /\ executor \in ExecutorCall /\ operator \in OperatorCall /\ core \in CoreMemory
    BY CallsTyped DEF Init
  <2>4. socket \in 0..MaxSessions /\ opened \in 0..MaxSessions
    BY DesktopAssumption DEF Init
  <2>5. toCore \in [Sessions -> Seq(Frame)] /\ ran \in Seq(Outcomes)
    BY DEF Init
  <2>6. used \in [calls : Nat, disturbances : Nat, losses : Nat]
    BY DEF Init
  <2> QED
    BY <2>1, <2>2, <2>3, <2>4, <2>5, <2>6 DEF Init, TypeOK
<1> QED
  BY <1>1, TypeInductive, PTL DEF Spec

(* A result that is received answers an executor that waits, and changes    *)
(* nothing else of the calls and of the job.                                *)
LEMMA ReceiveAnswers ==
  ASSUME NEW s \in Sessions, ReceiveResult(s)
  PROVE  /\ UNCHANGED <<job, contained, pack, operator, opened, agent, ran, used>>
         /\ \/ UNCHANGED executor
            \/ /\ executor.pc = "waiting" /\ Taken(s, Head(toCore[s]))
               /\ executor' = [executor EXCEPT !.pc = "answered",
                                               !.result = Head(toCore[s]).result]
<1>1. UNCHANGED <<job, contained, pack, operator, opened, agent, ran, used>>
  BY DEF ReceiveResult, coreVars
<1>2. \/ UNCHANGED executor
      \/ /\ Taken(s, Head(toCore[s]))
         /\ executor' = IF executor.pc = "waiting"
                        THEN [executor EXCEPT !.pc = "answered", !.result = Head(toCore[s]).result]
                        ELSE executor
  BY DEF ReceiveResult
<1> QED
  BY <1>1, <1>2

(* Between the lease and the end of a call the job has an owner, so that an *)
(* operator cannot contain it.                                              *)
Owned ==
  /\ executor.pc \in Attempting => job.owner # Nobody
  /\ executor.pc # "idle" => executor.session # Nobody

LEMMA OwnedInductive == TypeOK /\ Owned /\ [Next]_vars => Owned'
<1> SUFFICES ASSUME TypeOK, Owned, [Next]_vars PROVE Owned'
  OBVIOUS
<1> USE ConstantsTyped DEF Owned, Attempting, coreVars, wireVars, storeVars, executorFrame,
        operatorFrame, wireFrame, agentFrame
<1>1. job \in JobRecord /\ executor \in ExecutorCall
  BY DEF TypeOK
<1> USE DEF JobRecord, ExecutorCall, IdleExecutor
<1>2. CASE LeaseExpires
  BY <1>1, <1>2 DEF LeaseExpires
<1>3. CASE BeginExecute \/ Inspect
  BY <1>1, <1>3 DEF BeginExecute, Inspect, Call
<1>4. CASE CreateJob
  BY <1>1, <1>4 DEF CreateJob
<1>5. CASE Acquire
  <2>1. CASE executor' = IdleExecutor
    BY <2>1
  <2>2. CASE executor' # IdleExecutor
    <3>1. executor.session # Nobody
      BY <1>5 DEF Acquire
    <3>2. CanAcquire(executor.session) /\ job' = Leased(executor.session)
      BY <1>5, <2>2 DEF Acquire
    <3>3. job'.owner = executor.session
      BY <1>1, <3>2 DEF CanAcquire, Leased, Live
    <3>4. executor'.session = executor.session
      BY <1>1, <1>5, <2>2 DEF Acquire
    <3> QED
      BY <3>1, <3>3, <3>4
  <2> QED
    BY <2>1, <2>2
<1>6. CASE Send
  BY <1>1, <1>6 DEF Send
<1>7. CASE TimeOut
  BY <1>1, <1>7 DEF TimeOut
<1>8. CASE GiveUpMutation
  BY <1>1, <1>8 DEF GiveUpMutation
<1>9. CASE GiveUpReading
  BY <1>1, <1>9 DEF GiveUpReading
<1>10. CASE Requeue \/ RecordResult \/ RecordRecovered
  BY <1>1, <1>10 DEF Requeue, RecordResult, RecordRecovered
<1>11. CASE Claim
  BY <1>1, <1>11 DEF Claim, CanAcquire, Leased, Live
<1>12. CASE BeginContain \/ BeginReconcile \/ Contain
  BY <1>1, <1>12 DEF BeginContain, BeginReconcile, Contain
<1>13. CASE ReconcileClaim
  BY <1>1, <1>13 DEF ReconcileClaim, Leased
<1>14. CASE ReconcileRecord
  BY <1>1, <1>14 DEF ReconcileRecord, Complete
<1>15. CASE Connect \/ Disconnect \/ ReceiveTask
  BY <1>1, <1>15 DEF Connect, Disconnect, ReceiveTask
<1>16. ASSUME NEW s \in Sessions, Accept(s) \/ NoticeClose(s) PROVE Owned'
  BY <1>1, <1>16 DEF Accept, NoticeClose
<1>17. ASSUME NEW s \in Sessions, ReceiveResult(s) PROVE Owned'
  <2>1. CASE UNCHANGED executor
    BY <1>17, <2>1, ReceiveAnswers
  <2>2. CASE executor.pc = "waiting"
    <3>1. executor'.session = executor.session /\ executor'.pc # "idle" /\ UNCHANGED job
      BY <1>1, <1>17, <2>2, ReceiveAnswers
    <3> QED
      BY <2>2, <3>1
  <2> QED
    BY <1>17, <2>1, <2>2, ReceiveAnswers
<1>18. ASSUME NEW task \in agent.tasks, RunPack(task) \/ Report(task) \/ PersistFails(task)
       PROVE  Owned'
  BY <1>1, <1>18 DEF RunPack, Report, PersistFails, Answer
<1>19. CASE RestartAgent \/ RestartCore
  BY <1>1, <1>19 DEF RestartAgent, RestartCore
<1>20. CASE UNCHANGED vars
  BY <1>1, <1>20 DEF vars
<1> QED
  BY <1>2, <1>3, <1>4, <1>5, <1>6, <1>7, <1>8, <1>9, <1>10, <1>11, <1>12, <1>13, <1>14,
     <1>15, <1>16, <1>17, <1>18, <1>19, <1>20
     DEF Next, Execution, Operation, Transport, Work

LEMMA ContainmentInductive ==
  TypeOK /\ Owned /\ ContainmentHolds /\ [Next]_vars => ContainmentHolds'
<1> SUFFICES ASSUME TypeOK, Owned, ContainmentHolds, [Next]_vars, contained' # {}
             PROVE  ContainmentHolds'
  BY DEF ContainmentHolds
<1> USE DEF Owned, Attempting, ContainmentHolds, coreVars, wireVars, storeVars, executorFrame,
        operatorFrame, wireFrame, agentFrame
<1>1. job \in JobRecord /\ executor \in ExecutorCall
  BY DEF TypeOK
<1> USE DEF JobRecord, ExecutorCall, IdleExecutor
<1>2. CASE LeaseExpires
  BY <1>1, <1>2 DEF LeaseExpires
<1>3. CASE BeginExecute \/ Inspect
  <2>1. UNCHANGED <<job, contained>>
    BY <1>3 DEF BeginExecute, Inspect
  <2>2. executor'.pc \in {"create", "claim"}
    BY <1>3 DEF BeginExecute, Inspect
  <2> QED
    BY <2>1, <2>2
<1>4. CASE CreateJob
  BY <1>1, <1>4 DEF CreateJob
<1>5. CASE Acquire \/ Claim
  BY <1>1, <1>5 DEF Acquire, Claim
<1>6. CASE Send \/ TimeOut \/ GiveUpMutation \/ GiveUpReading \/ Requeue \/ RecordResult
           \/ RecordRecovered
  BY <1>1, <1>6 DEF Send, TimeOut, GiveUpMutation, GiveUpReading, Requeue, RecordResult,
     RecordRecovered
<1>7. CASE BeginContain \/ BeginReconcile
  BY <1>1, <1>7 DEF BeginContain, BeginReconcile
<1>8. CASE Contain
  BY <1>1, <1>8 DEF Contain
<1>9. CASE ReconcileClaim
  BY <1>1, <1>9 DEF ReconcileClaim, Leased
<1>10. CASE ReconcileRecord
  <2>1. \/ UNCHANGED job
        \/ /\ job.owner = Reconciler
           /\ job' = [job EXCEPT !.status = "completed", !.lease = "over",
                                 !.result = operator.result]
    BY <1>10 DEF ReconcileRecord, Complete, Holds
  <2>2. UNCHANGED <<contained, executor>>
    BY <1>10 DEF ReconcileRecord
  <2>3. CASE UNCHANGED job
    BY <2>2, <2>3
  <2>4. CASE ~UNCHANGED job
    <3>1. job'.status = "completed" /\ job'.owner = Reconciler
      BY <1>1, <2>1, <2>4
    <3> QED
      BY <2>2, <3>1
  <2> QED
    BY <2>3, <2>4
<1>11. CASE Connect \/ Disconnect \/ ReceiveTask
  BY <1>1, <1>11 DEF Connect, Disconnect, ReceiveTask
<1>12. ASSUME NEW s \in Sessions, Accept(s) \/ NoticeClose(s) PROVE ContainmentHolds'
  BY <1>1, <1>12 DEF Accept, NoticeClose
<1>13. ASSUME NEW s \in Sessions, ReceiveResult(s) PROVE ContainmentHolds'
  <2>1. UNCHANGED <<job, contained>>
    BY <1>13, ReceiveAnswers
  <2>2. UNCHANGED executor
    BY <1>13, <2>1, ReceiveAnswers
  <2> QED
    BY <2>1, <2>2
<1>14. ASSUME NEW task \in agent.tasks, RunPack(task) \/ Report(task) \/ PersistFails(task)
       PROVE  ContainmentHolds'
  BY <1>1, <1>14 DEF RunPack, Report, PersistFails, Answer
<1>15. CASE RestartAgent \/ RestartCore
  BY <1>1, <1>15 DEF RestartAgent, RestartCore
<1>16. CASE UNCHANGED vars
  BY <1>1, <1>16 DEF vars
<1> QED
  BY <1>2, <1>3, <1>4, <1>5, <1>6, <1>7, <1>8, <1>9, <1>10, <1>11, <1>12, <1>13, <1>14,
     <1>15, <1>16
     DEF Next, Execution, Operation, Transport, Work

(* Containment withdraws a job from the executor for good.                  *)
THEOREM ContainmentWithdraws == Spec => []ContainmentHolds
<1>1. Init => Owned /\ ContainmentHolds
  BY DEF Init, Owned, ContainmentHolds, IdleExecutor, Attempting
<1> QED
  BY <1>1, DesktopTyped, OwnedInductive, ContainmentInductive, PTL DEF Spec

(* The results an execution really had: its outcome, or an error in place   *)
(* of an outcome that could not be written.                                 *)
Known == {r \in Result : r.by \in DOMAIN ran /\ r.status \in {ran[r.by], "error"}}
KnownOrNone == Known \cup {NoResult}

KnownFrame == [result : Known, kind : {"result", "replay"}]

WireTrue ==
  /\ core.completed \in KnownOrNone
  /\ agent.memory \in KnownOrNone /\ agent.disk \in KnownOrNone
  /\ \A task \in agent.tasks : task.result \in KnownOrNone
  /\ toCore \in [Sessions -> Seq(KnownFrame)]

CallsTrue ==
  /\ executor.result \in KnownOrNone
  /\ executor.pc = "answered" => executor.result # NoResult
  /\ executor.pc \in {"claim", "record"} => Applied
  /\ operator.result \in KnownOrNone
  /\ operator.pc \in {"claim", "record"} => operator.result # NoResult

Truth == WireTrue /\ CallsTrue

(* An execution adds to what is known and takes nothing back.               *)
LEMMA KnownGrows ==
  ASSUME TypeOK, NEW outcome \in Outcomes, ran' = Append(ran, outcome)
  PROVE  /\ Known \subseteq Known'
         /\ Applied => Applied'
         /\ [by |-> Len(ran'), status |-> outcome] \in Known'
<1>1. /\ ran \in Seq(Outcomes) /\ Len(ran') = Len(ran) + 1 /\ Len(ran) \in Nat
      /\ DOMAIN ran = 1..Len(ran) /\ DOMAIN ran' = 1..Len(ran')
      /\ \A i \in 1..Len(ran) : ran'[i] = ran[i]
      /\ ran'[Len(ran')] = outcome
  BY DEF TypeOK
<1>2. Known \subseteq Known'
  BY <1>1 DEF Known
<1>3. Applied => Applied'
  BY <1>1 DEF Applied
<1>4. [by |-> Len(ran'), status |-> outcome] \in Known'
  BY <1>1 DEF Known, Result
<1> QED
  BY <1>2, <1>3, <1>4

LEMMA TruthUnchanged ==
  ASSUME Truth, UNCHANGED <<ran, core, agent, toCore, executor, operator>> PROVE Truth'
BY DEF Truth, WireTrue, CallsTrue, Known, KnownOrNone, KnownFrame, Applied

LEMMA SendsKnown ==
  ASSUME toCore \in [Sessions -> Seq(KnownFrame)]
  PROVE  \A s \in 0..MaxSessions : \A result \in KnownOrNone : \A kind \in {"result", "replay"} :
           ToCore(s, result, kind)
             \in [Sessions -> Seq(KnownFrame)]
<1> SUFFICES ASSUME NEW s \in 0..MaxSessions, NEW result \in KnownOrNone,
                    NEW kind \in {"result", "replay"}
             PROVE  ToCore(s, result, kind) \in [Sessions -> Seq(KnownFrame)]
  OBVIOUS
<1>1. CASE socket = s /\ result # NoResult
  <2> DEFINE frame == [result |-> result, kind |-> kind]
  <2>1. frame \in KnownFrame
    BY <1>1 DEF KnownOrNone, KnownFrame
  <2> HIDE DEF frame
  <2>3. ASSUME s \in Sessions PROVE Append(toCore[s], frame) \in Seq(KnownFrame)
    BY <2>1, <2>3
  <2>4. ToCore(s, result, kind) = [toCore EXCEPT ![s] = Append(@, frame)]
    BY <1>1 DEF ToCore, frame
  <2> QED
    BY <2>3, <2>4
<1>2. CASE ~(socket = s /\ result # NoResult)
  BY <1>2 DEF ToCore
<1> QED
  BY <1>1, <1>2

(* The calls keep to what is known ...                                      *)
LEMMA CallsTell ==
  ASSUME TypeOK, Truth,
         \/ LeaseExpires \/ BeginExecute \/ Inspect \/ Execution
         \/ BeginContain \/ BeginReconcile \/ Operation
  PROVE  Truth'
<1> USE DEF Truth, CallsTrue, wireVars, storeVars, executorFrame, operatorFrame
<1>1. executor \in ExecutorCall /\ operator \in OperatorCall /\ core \in CoreMemory
  BY DEF TypeOK
<1>2. UNCHANGED <<ran, agent, toCore>>
  BY DEF LeaseExpires, BeginExecute, Inspect, Execution, CreateJob, Acquire, Send, TimeOut,
     GiveUpMutation, GiveUpReading, Requeue, RecordResult, Claim, RecordRecovered,
     BeginContain, BeginReconcile, Operation, Contain, ReconcileClaim, ReconcileRecord
<1>3. UNCHANGED <<Known, KnownOrNone, KnownFrame, Applied>>
  BY <1>2 DEF Known, KnownOrNone, KnownFrame, Applied
<1>4. NoResult \in KnownOrNone
  BY DEF KnownOrNone
<1>5. core'.completed = core.completed
  BY <1>1 DEF LeaseExpires, BeginExecute, Inspect, Execution, CreateJob, Acquire, Send, TimeOut,
     GiveUpMutation, GiveUpReading, Requeue, RecordResult, Claim, RecordRecovered,
     BeginContain, BeginReconcile, Operation, Contain, ReconcileClaim, ReconcileRecord,
     CoreMemory
<1>6. WireTrue'
  BY <1>2, <1>3, <1>5 DEF WireTrue
<1> USE DEF ExecutorCall, OperatorCall, IdleExecutor, IdleOperator
<1>7. CASE LeaseExpires
  BY <1>3, <1>6, <1>7 DEF LeaseExpires
<1>8. CASE BeginExecute
  BY <1>1, <1>3, <1>4, <1>6, <1>8 DEF BeginExecute
<1>9. CASE Inspect
  BY <1>1, <1>3, <1>4, <1>6, <1>9 DEF Inspect
<1>10. CASE CreateJob
  BY <1>1, <1>3, <1>4, <1>6, <1>10 DEF CreateJob
<1>11. CASE Acquire
  <2>1. UNCHANGED operator
    BY <1>11 DEF Acquire
  <2>2. CASE executor' = IdleExecutor
    BY <1>3, <1>4, <1>6, <2>1, <2>2
  <2>3. CASE executor' = [executor EXCEPT !.pc = "send", !.attempt = job'.attempts]
    <3>1. executor'.result = executor.result /\ executor'.pc = "send"
      BY <1>1, <2>3
    <3> QED
      BY <1>3, <1>6, <2>1, <3>1
  <2> QED
    BY <1>11, <2>2, <2>3 DEF Acquire
<1>12. CASE Send
  <2>1. core.completed \in KnownOrNone
    BY DEF WireTrue
  <2> QED
    BY <1>1, <1>3, <1>4, <1>6, <1>12, <2>1 DEF Send
<1>13. CASE TimeOut
  BY <1>1, <1>3, <1>6, <1>13 DEF TimeOut
<1>14. CASE GiveUpMutation \/ Requeue \/ RecordResult \/ RecordRecovered
  BY <1>1, <1>3, <1>4, <1>6, <1>14 DEF GiveUpMutation, Requeue, RecordResult, RecordRecovered
<1>15. CASE GiveUpReading
  <2>1. executor' = IdleExecutor \/ executor' = [IdleExecutor EXCEPT !.pc = "acquire",
                                           !.session = core.session, !.retries = 1]
    BY <1>15 DEF GiveUpReading
  <2>2. UNCHANGED operator
    BY <1>15 DEF GiveUpReading
  <2>a. CASE executor' = IdleExecutor
    BY <2>a, <1>3, <1>4, <1>6, <2>2
  <2>b. CASE executor' = [IdleExecutor EXCEPT !.pc = "acquire", !.session = core.session,
                                             !.retries = 1]
    <3>1. executor'.result = NoResult /\ executor'.pc = "acquire"
      BY <2>b
    <3> QED
      BY <1>3, <1>4, <1>6, <2>2, <3>1
  <2> QED
    BY <2>1, <2>a, <2>b
<1>16. CASE Claim
  <2>1. executor' = IdleExecutor \/ executor' = [executor EXCEPT !.pc = "record"]
    BY <1>16 DEF Claim
  <2>2. UNCHANGED operator /\ executor.pc = "claim"
    BY <1>16 DEF Claim
  <2>3. executor'.result \in KnownOrNone /\ executor'.pc # "answered"
    BY <1>1, <1>4, <2>1
  <2> QED
    BY <1>3, <1>6, <2>2, <2>3
<1>17. CASE BeginContain \/ Contain \/ ReconcileRecord
  <2>1. operator'.result = NoResult /\ operator'.pc \in {"idle", "contain"}
    <3>1. CASE BeginContain
      BY <3>1 DEF BeginContain
    <3>2. CASE Contain \/ ReconcileRecord
      BY <3>2 DEF Contain, ReconcileRecord
    <3> QED
      BY <1>17, <3>1, <3>2
  <2>2. UNCHANGED executor
    BY <1>17 DEF BeginContain, Contain, ReconcileRecord
  <2> QED
    BY <1>3, <1>4, <1>6, <2>1, <2>2
<1>18. CASE BeginReconcile
  <2>1. agent.disk \in KnownOrNone /\ agent.disk # NoResult
    BY <1>18 DEF WireTrue, BeginReconcile
  <2> QED
    BY <1>1, <1>3, <1>6, <1>18, <2>1 DEF BeginReconcile
<1>19. CASE ReconcileClaim
  <2>1. operator' = IdleOperator \/ operator' = [operator EXCEPT !.pc = "record"]
    BY <1>19 DEF ReconcileClaim
  <2>2. UNCHANGED executor /\ operator.pc = "claim"
    BY <1>19 DEF ReconcileClaim
  <2>3. operator'.result \in KnownOrNone
    BY <1>1, <1>4, <2>1
  <2>4. operator'.pc \in {"claim", "record"} => operator'.result # NoResult
    BY <1>1, <2>1, <2>2
  <2> QED
    BY <1>3, <1>6, <2>2, <2>3, <2>4
<1> QED
  BY <1>7, <1>8, <1>9, <1>10, <1>11, <1>12, <1>13, <1>14, <1>15, <1>16, <1>17, <1>18, <1>19
     DEF Execution, Operation

(* ... so do the frames and the agent's results ...                         *)
LEMMA WireTells ==
  ASSUME TypeOK, Truth,
         Connect \/ Disconnect \/ Transport \/ ReceiveTask \/ RestartAgent \/ RestartCore
  PROVE  Truth'
<1>1. /\ executor \in ExecutorCall /\ operator \in OperatorCall /\ core \in CoreMemory
      /\ agent \in Agent /\ socket \in 0..MaxSessions
  BY DEF TypeOK
<1>2. toCore \in [Sessions -> Seq(KnownFrame)]
  BY DEF Truth, WireTrue
<1>3. UNCHANGED ran
  BY DEF Connect, Disconnect, Transport, Accept, NoticeClose, ReceiveResult, ReceiveTask,
     RestartAgent, RestartCore, wireFrame, coreVars, storeVars, agentFrame
<1>4. UNCHANGED <<Known, KnownOrNone, KnownFrame, Applied>>
  BY <1>3 DEF Known, KnownOrNone, KnownFrame, Applied
<1>5. NoResult \in KnownOrNone
  BY DEF KnownOrNone
<1>6. ASSUME UNCHANGED <<executor, operator>>, core'.completed = core.completed,
             agent'.memory \in KnownOrNone, agent'.disk = agent.disk,
             \A task \in agent'.tasks : task.result \in KnownOrNone,
             toCore' \in [Sessions -> Seq(KnownFrame)]
      PROVE  Truth'
  BY <1>4, <1>6 DEF Truth, WireTrue, CallsTrue
<1> USE DEF coreVars, wireFrame, storeVars, agentFrame
<1>7. CASE Connect
  <2>1. core'.completed = core.completed
    BY <1>1, <1>7 DEF Connect, CoreMemory
  <2>2. toCore' \in [Sessions -> Seq(KnownFrame)]
    BY <1>2, <1>7 DEF Connect
  <2> QED
    BY <1>6, <1>7, <2>1, <2>2 DEF Connect, Truth, WireTrue
<1>8. CASE Disconnect
  BY <1>2, <1>6, <1>8 DEF Disconnect, Truth, WireTrue
<1>9. ASSUME NEW s \in Sessions, Accept(s) PROVE Truth'
  <2>1. core'.completed = core.completed
    BY <1>1, <1>9 DEF Accept, CoreMemory
  <2>2. s \in 0..MaxSessions /\ agent.memory \in KnownOrNone
    BY DEF Sessions, Truth, WireTrue
  <2>3. toCore' \in [Sessions -> Seq(KnownFrame)]
    BY <1>2, <1>9, <2>2, SendsKnown DEF Accept
  <2> QED
    BY <1>6, <1>9, <2>1, <2>3 DEF Accept, Truth, WireTrue
<1>10. ASSUME NEW s \in Sessions, NoticeClose(s) PROVE Truth'
  <2>1. core'.completed = core.completed
    BY <1>1, <1>10 DEF NoticeClose, CoreMemory
  <2>2. toCore' \in [Sessions -> Seq(KnownFrame)]
    BY <1>2, <1>10 DEF NoticeClose
  <2> QED
    BY <1>6, <1>10, <2>1, <2>2 DEF NoticeClose, Truth, WireTrue
<1>11. ASSUME NEW s \in Sessions, ReceiveResult(s) PROVE Truth'
  <2> DEFINE frame == Head(toCore[s])
  <2>0. toCore[s] \in Seq(KnownFrame) /\ toCore[s] # <<>>
    BY <1>2, <1>11 DEF ReceiveResult
  <2>1. frame \in KnownFrame
    BY <2>0
  <2>2. frame.result \in Known
    BY <2>1 DEF KnownFrame
  <2>3. toCore' \in [Sessions -> Seq(KnownFrame)]
    <3>1. Tail(toCore[s]) \in Seq(KnownFrame)
      BY <2>0
    <3>2. toCore' = [toCore EXCEPT ![s] = Tail(toCore[s])]
      BY <1>11 DEF ReceiveResult
    <3> QED
      BY <1>2, <3>1, <3>2
  <2>4. UNCHANGED <<agent, operator>>
    BY <1>11 DEF ReceiveResult
  <2> HIDE DEF frame
  <2>5. CASE UNCHANGED <<core, executor>>
    BY <1>6, <2>3, <2>4, <2>5 DEF Truth, WireTrue
  <2>6. CASE ~UNCHANGED <<core, executor>>
    <3>1. /\ core' = [core EXCEPT !.pending = 0, !.completed = frame.result]
          /\ executor' = IF executor.pc = "waiting"
                         THEN [executor EXCEPT !.pc = "answered", !.result = frame.result]
                         ELSE executor
      BY <1>11, <2>6 DEF ReceiveResult, frame
    <3>2. core'.completed \in KnownOrNone
      BY <1>1, <2>2, <3>1 DEF CoreMemory, KnownOrNone
    <3>3. frame.result # NoResult
      BY <2>2, ConstantsTyped DEF Known
    <3>4. CallsTrue'
      BY <1>1, <1>4, <2>2, <2>4, <3>1, <3>3
         DEF Truth, CallsTrue, ExecutorCall, KnownOrNone
    <3> QED
      BY <1>4, <2>3, <2>4, <3>2, <3>4 DEF Truth, WireTrue
  <2> QED
    BY <2>5, <2>6
<1>12. CASE ReceiveTask
  <2>1. agent.memory \in KnownOrNone
    BY DEF Truth, WireTrue
  <2>2. toCore' \in [Sessions -> Seq(KnownFrame)]
    BY <1>1, <1>2, <1>12, <2>1, SendsKnown DEF ReceiveTask
  <2>3. /\ agent'.memory = agent.memory /\ agent'.disk = agent.disk
        /\ \A task \in agent'.tasks : task \in agent.tasks \/ task.result = NoResult
    BY <1>1, <1>12 DEF ReceiveTask, Agent
  <2> QED
    BY <1>5, <1>6, <1>12, <2>1, <2>2, <2>3 DEF ReceiveTask, Truth, WireTrue
<1>13. CASE RestartAgent
  <2>1. /\ agent'.memory = agent.disk /\ agent'.disk = agent.disk /\ agent'.tasks = {}
    BY <1>1, <1>13 DEF RestartAgent, Agent
  <2> QED
    BY <1>2, <1>6, <1>13, <2>1 DEF RestartAgent, Truth, WireTrue
<1>14. CASE RestartCore
  <2>1. toCore' \in [Sessions -> Seq(KnownFrame)]
    BY <1>14 DEF RestartCore
  <2>2. WireTrue'
    BY <1>4, <1>5, <1>14, <2>1 DEF RestartCore, Truth, WireTrue, FreshCore
  <2>3. CallsTrue'
    BY <1>4, <1>5, <1>14 DEF RestartCore, CallsTrue, IdleExecutor, IdleOperator
  <2> QED
    BY <2>2, <2>3 DEF Truth
<1> QED
  BY <1>7, <1>8, <1>9, <1>10, <1>11, <1>12, <1>13, <1>14 DEF Transport

(* ... and what an execution adds.                                          *)
LEMMA AnswerTells ==
  ASSUME TypeOK, Truth, NEW task \in agent.tasks, NEW result \in KnownOrNone,
         Answer(task, result), agent'.memory = result,
         agent'.disk \in KnownOrNone, agent'.tasks \subseteq agent.tasks
  PROVE  Truth'
<1>1. UNCHANGED <<ran, core, executor, operator>>
  BY DEF Answer, agentFrame, coreVars
<1>2. UNCHANGED <<Known, KnownOrNone, KnownFrame, Applied>>
  BY <1>1 DEF Known, KnownOrNone, KnownFrame, Applied
<1>3. task.socket \in 0..MaxSessions
  BY DEF TypeOK, Agent, Task
<1>4. toCore' \in [Sessions -> Seq(KnownFrame)]
  BY <1>3, SendsKnown DEF Answer, Truth, WireTrue
<1>5. WireTrue'
  BY <1>1, <1>2, <1>4 DEF Truth, WireTrue
<1> QED
  BY <1>1, <1>2, <1>5 DEF Truth, CallsTrue

LEMMA WorkTells ==
  ASSUME TypeOK, Truth, NEW task \in agent.tasks,
         RunPack(task) \/ Report(task) \/ PersistFails(task)
  PROVE  Truth'
<1>1. task \in Task /\ agent \in Agent /\ task.result \in KnownOrNone
  BY DEF TypeOK, Agent, Truth, WireTrue
<1>2. CASE RunPack(task)
  <2>1. PICK outcome \in Outcomes :
          /\ ran' = Append(ran, outcome)
          /\ agent' = [agent EXCEPT !.tasks = (@ \ {task}) \cup
               {[task EXCEPT !.result = [by |-> Len(ran'), status |-> outcome]]}]
    BY <1>2 DEF RunPack
  <2> DEFINE new == [by |-> Len(ran'), status |-> outcome]
  <2>2. Known \subseteq Known' /\ (Applied => Applied') /\ new \in Known'
    BY <2>1, KnownGrows
  <2>3. UNCHANGED <<core, executor, operator, toCore>>
    BY <1>2 DEF RunPack, agentFrame, coreVars, wireVars
  <2>4. KnownOrNone \subseteq KnownOrNone'
    BY <2>2 DEF KnownOrNone
  <2>5. /\ agent'.memory = agent.memory /\ agent'.disk = agent.disk
        /\ \A t \in agent'.tasks : t \in agent.tasks \/ t = [task EXCEPT !.result = new]
    BY <1>1, <2>1 DEF Agent
  <2>6. [task EXCEPT !.result = new].result = new
    BY <1>1 DEF Task
  <2> HIDE DEF new
  <2>7. toCore' \in [Sessions -> Seq(KnownFrame')]
    <3>1. KnownFrame \subseteq KnownFrame'
      BY <2>2 DEF KnownFrame
    <3>2. \A s \in Sessions : toCore[s] \in Seq(KnownFrame')
      BY <3>1, SeqMonotonic DEF Truth, WireTrue
    <3> QED
      BY <2>3, <3>2 DEF Truth, WireTrue
  <2>8. WireTrue'
    BY <2>2, <2>3, <2>4, <2>5, <2>6, <2>7 DEF Truth, WireTrue, KnownOrNone
  <2> QED
    BY <2>2, <2>3, <2>4, <2>8 DEF Truth, CallsTrue
<1>3. CASE Report(task)
  <2>1. /\ agent'.memory = task.result /\ agent'.disk = task.result
        /\ agent'.tasks \subseteq agent.tasks /\ Answer(task, task.result)
    BY <1>3 DEF Report
  <2> QED
    BY <1>1, <2>1, AnswerTells
<1>4. CASE PersistFails(task)
  <2> DEFINE error == [task.result EXCEPT !.status = "error"]
  <2>1. task.result \in Known
    BY <1>1, <1>4 DEF PersistFails, KnownOrNone
  <2>2. error \in Known
    BY <2>1 DEF Known, Result
  <2>3. /\ agent'.memory = error /\ agent'.disk = agent.disk
        /\ agent'.tasks \subseteq agent.tasks /\ Answer(task, error)
    BY <1>1, <1>4 DEF PersistFails, Agent
  <2> HIDE DEF error
  <2>4. agent.disk \in KnownOrNone /\ error \in KnownOrNone
    BY <2>2 DEF Truth, WireTrue, KnownOrNone
  <2> QED
    BY <2>3, <2>4, AnswerTells
<1> QED
  BY <1>2, <1>3, <1>4

LEMMA TruthInductive == TypeOK /\ Truth /\ [Next]_vars => Truth'
<1>1. TypeOK /\ Truth /\ UNCHANGED vars => Truth'
  BY TruthUnchanged DEF vars
<1> QED
  BY <1>1, CallsTell, WireTells, WorkTells DEF Next, Work

(* The receipt of the job, as the abstract specification sees it.           *)
Got == IF job.status = "completed" THEN job.result ELSE NoResult

LEMMA ReceiptKept ==
  ASSUME TypeOK,
         \/ LeaseExpires \/ BeginExecute \/ Inspect \/ CreateJob \/ Acquire \/ Send \/ TimeOut
         \/ GiveUpMutation \/ GiveUpReading \/ Requeue \/ Claim
         \/ BeginContain \/ BeginReconcile \/ Contain \/ ReconcileClaim
  PROVE  UNCHANGED <<ran, Got>>
<1>1. job \in JobRecord
  BY DEF TypeOK
<1>2. UNCHANGED ran
  BY DEF LeaseExpires, BeginExecute, Inspect, CreateJob, Acquire, Send, TimeOut,
     GiveUpMutation, GiveUpReading, Requeue, Claim, BeginContain, BeginReconcile,
     Contain, ReconcileClaim, storeVars, executorFrame, operatorFrame
<1> USE DEF JobRecord, Got, Open
<1>3. CASE LeaseExpires
  BY <1>1, <1>2, <1>3 DEF LeaseExpires
<1>4. CASE BeginExecute \/ Inspect \/ Send \/ TimeOut \/ BeginContain \/ BeginReconcile \/ Contain
  <2>1. UNCHANGED job
    BY <1>4 DEF BeginExecute, Inspect, Send, TimeOut, BeginContain, BeginReconcile, Contain,
       executorFrame, operatorFrame
  <2> QED
    BY <1>2, <2>1
<1>5. CASE CreateJob
  BY <1>1, <1>2, <1>5 DEF CreateJob
<1>6. CASE Acquire \/ Claim
  <2>1. UNCHANGED job \/ (Open /\ job' = Leased(executor.session))
    BY <1>6 DEF Acquire, Claim, CanAcquire
  <2> QED
    BY <1>1, <1>2, <2>1 DEF Leased
<1>7. CASE ReconcileClaim
  <2>1. UNCHANGED job \/ (Open /\ job' = Leased(Reconciler))
    BY <1>7 DEF ReconcileClaim
  <2> QED
    BY <1>1, <1>2, <2>1 DEF Leased
<1>8. CASE GiveUpMutation
  BY <1>1, <1>2, <1>8 DEF GiveUpMutation, MarkIndeterminate, Holds
<1>9. CASE GiveUpReading \/ Requeue
  <2>1. UNCHANGED job \/ (Open /\ job' = Requeued)
    BY <1>9 DEF GiveUpReading, Requeue, Holds
  <2> QED
    BY <1>1, <1>2, <2>1 DEF Requeued
<1> QED
  BY <1>3, <1>4, <1>5, <1>6, <1>7, <1>8, <1>9

LEMMA ReceiptWritten ==
  ASSUME TypeOK, Truth, RecordResult \/ RecordRecovered \/ ReconcileRecord
  PROVE  /\ UNCHANGED ran
         /\ \/ UNCHANGED Got
            \/ /\ Got = NoResult
               /\ Got' \in Known \/ (Got' = Recovered /\ Applied)
<1>1. job \in JobRecord
  BY DEF TypeOK
<1>2. UNCHANGED ran
  BY DEF RecordResult, RecordRecovered, ReconcileRecord, storeVars, executorFrame, operatorFrame
<1>3. ASSUME NEW owner, NEW result, Complete(owner, result)
      PROVE  UNCHANGED Got \/ (Got = NoResult /\ Got' = result)
  BY <1>1, <1>3 DEF Complete, Holds, Open, Got, JobRecord
<1>4. CASE RecordResult
  <2>1. Complete(executor.session, executor.result) /\ executor.result \in Known
    BY <1>4 DEF RecordResult, Truth, CallsTrue, KnownOrNone
  <2> QED
    BY <1>2, <1>3, <2>1
<1>5. CASE RecordRecovered
  <2>1. Complete(executor.session, Recovered) /\ Applied
    BY <1>5 DEF RecordRecovered, Truth, CallsTrue
  <2> QED
    BY <1>2, <1>3, <2>1
<1>6. CASE ReconcileRecord
  <2>1. Complete(Reconciler, operator.result) /\ operator.result \in Known
    BY <1>6 DEF ReconcileRecord, Truth, CallsTrue, KnownOrNone
  <2> QED
    BY <1>2, <1>3, <2>1
<1> QED
  BY <1>4, <1>5, <1>6

LEMMA ReceiptElsewhere ==
  ASSUME TypeOK,
         \/ Connect \/ Disconnect \/ Transport \/ Work \/ RestartAgent \/ RestartCore
  PROVE  /\ UNCHANGED Got
         /\ UNCHANGED ran \/ \E outcome \in Outcomes : ran' = Append(ran, outcome)
<1>1. UNCHANGED job
  BY DEF Connect, Disconnect, Transport, Accept, NoticeClose, ReceiveResult, Work, ReceiveTask,
     RunPack, Report, PersistFails, Answer, RestartAgent, RestartCore, wireFrame, agentFrame,
     coreVars
<1>2. UNCHANGED ran \/ \E outcome \in Outcomes : ran' = Append(ran, outcome)
  BY DEF Connect, Disconnect, Transport, Accept, NoticeClose, ReceiveResult, Work, ReceiveTask,
     RunPack, Report, PersistFails, Answer, RestartAgent, RestartCore, wireFrame, agentFrame,
     storeVars
<1> QED
  BY <1>1, <1>2 DEF Got

LEMMA ReceiptStep ==
  ASSUME TypeOK, Truth, [Next]_vars
  PROVE  [Receipt!Next]_<<ran, Got>>
<1>1. ASSUME UNCHANGED ran, Got = NoResult, Got' \in Known \/ (Got' = Recovered /\ Applied)
      PROVE  Receipt!Next
  <2>1. ran \in Seq(Outcomes)
    BY DEF TypeOK
  <2>2. CASE Got' \in Known
    <3>1. Got' \in Result /\ Got'.by \in DOMAIN ran /\ Got'.status \in {ran[Got'.by], "error"}
      BY <2>2 DEF Known
    <3>2. Got'.by # 0 /\ Got'.status \in Outcomes \cup {"error"}
      BY <2>1, <3>1
    <3>3. Got' = [by |-> Got'.by, status |-> Got'.status]
      BY <3>1 DEF Result
    <3>4. Got' \in Receipt!Reported
      BY <3>1, <3>2, <3>3 DEF Receipt!Reported
    <3>5. Receipt!Truthful(Got')
      BY <3>1, <3>2 DEF Receipt!Truthful
    <3> QED
      BY <1>1, <3>4, <3>5 DEF Receipt!Next, Receipt!Record, Got
  <2>3. CASE Got' = Recovered /\ Applied
    <3>1. Receipt!Truthful(Got')
      BY <2>3 DEF Receipt!Truthful, Recovered, Applied
    <3> QED
      BY <1>1, <2>3, <3>1 DEF Receipt!Next, Receipt!Record, Got, Recovered
  <2> QED
    BY <1>1, <2>2, <2>3
<1>2. ASSUME UNCHANGED Got, \E outcome \in Outcomes : ran' = Append(ran, outcome)
      PROVE  Receipt!Next
  BY <1>2 DEF Receipt!Next, Receipt!Execute, Got
<1>3. CASE UNCHANGED vars
  BY <1>3 DEF vars, Got
<1> QED
  BY <1>1, <1>2, <1>3, ReceiptKept, ReceiptWritten, ReceiptElsewhere
     DEF Next, Execution, Operation

(* The store, the transport and the agent give the run one receipt of what  *)
(* an execution really did, and never replace it.                           *)
THEOREM DesktopImplementsReceipt == Spec => ImplementsReceipt
<1>1. Init => Truth
  BY DEF Init, Truth, WireTrue, CallsTrue, KnownOrNone, FreshCore, IdleExecutor, IdleOperator
<1>2. Init => Receipt!Init
  BY DEF Init, Receipt!Init
<1>3. TypeOK /\ Truth /\ [Next]_vars => [Receipt!Next]_<<ran, Got>>
  BY ReceiptStep
<1> QED
  BY <1>1, <1>2, <1>3, DesktopTyped, TruthInductive, PTL
     DEF Spec, ImplementsReceipt, Receipt!Spec, Got

(* Where a mutation is.  Before it ran it is at most at one place, on the   *)
(* way to the agent or at it, and awaited; once it ran, it is either still  *)
(* awaited with nothing on the way, or the agent remembers its result.      *)
NotRunYet ==
  /\ agent.memory = NoResult /\ core.completed = NoResult
  /\ \A s \in Sessions : toCore[s] = <<>>
  /\ \A t \in agent.tasks : t.result = NoResult
  /\ \A t, u \in agent.tasks : t = u
  /\ toAgent \in {0, 1}
  /\ toAgent = 1 => agent.tasks = {}
  /\ toAgent = 1 \/ agent.tasks # {} => core.pending > 0

RanOnce ==
  /\ Len(ran) = 1
  /\ \A t \in agent.tasks : t.result # NoResult
  /\ agent.memory = NoResult =>
       /\ toAgent = 0 /\ core.pending > 0 /\ core.completed = NoResult
       /\ \A s \in Sessions : toCore[s] = <<>>

Once ==
  /\ agent.memory = agent.disk
  /\ ran = <<>> => NotRunYet
  /\ ran # <<>> => RanOnce

OnceInv == pack.mutates /\ used.losses = 0 => Once

LEMMA OnceInductive == TypeOK /\ OnceInv /\ [Next]_vars => OnceInv'
<1> SUFFICES ASSUME TypeOK, OnceInv, [Next]_vars, pack'.mutates, used'.losses = 0
             PROVE  Once'
  BY DEF OnceInv
<1>1. /\ agent \in Agent /\ core \in CoreMemory /\ toAgent \in Nat /\ socket \in 0..MaxSessions
      /\ toCore \in [Sessions -> Seq(Frame)] /\ ran \in Seq(Outcomes)
      /\ used \in [calls : Nat, disturbances : Nat, losses : Nat]
      /\ executor \in ExecutorCall
  BY DEF TypeOK
<1>2. UNCHANGED pack
  BY DEF Next, vars, LeaseExpires, BeginExecute, Inspect, Execution, CreateJob, Acquire, Send,
     TimeOut, GiveUpMutation, GiveUpReading, Requeue, RecordResult, Claim, RecordRecovered,
     BeginContain, BeginReconcile, Operation, Contain, ReconcileClaim, ReconcileRecord,
     Connect, Disconnect, Transport, Accept, NoticeClose, ReceiveResult, Work, ReceiveTask,
     RunPack, Report, PersistFails, Answer, RestartAgent, RestartCore,
     coreVars, storeVars, executorFrame, operatorFrame, wireFrame, agentFrame
<1>3. ASSUME NEW n \in {0, 1}, Disturb(n) PROVE n = 0 /\ used.losses = 0
  BY <1>1, <1>3 DEF Disturb
<1>4. ASSUME Call PROVE used.losses = 0
  BY <1>1, <1>4 DEF Call
<1>5. used.losses = 0
  BY <1>3, <1>4
     DEF Next, vars, LeaseExpires, BeginExecute, Inspect, Execution, CreateJob, Acquire, Send,
     TimeOut, GiveUpMutation, GiveUpReading, Requeue, RecordResult, Claim, RecordRecovered,
     BeginContain, BeginReconcile, Operation, Contain, ReconcileClaim, ReconcileRecord,
     Connect, Disconnect, Transport, Accept, NoticeClose, ReceiveResult, Work, ReceiveTask,
     RunPack, Report, PersistFails, Answer, RestartAgent, RestartCore,
     wireFrame, agentFrame
<1>6. pack.mutates /\ Once
  BY <1>2, <1>5 DEF OnceInv
<1>7. ASSUME UNCHANGED <<core, toAgent, toCore, agent, ran>> PROVE Once'
  BY <1>6, <1>7 DEF Once, NotRunYet, RanOnce
<1> USE DEF coreVars, wireVars, storeVars, executorFrame, operatorFrame, wireFrame, agentFrame
<1>8. CASE \/ LeaseExpires \/ BeginExecute \/ Inspect \/ CreateJob \/ Acquire \/ TimeOut
           \/ GiveUpMutation \/ GiveUpReading \/ Requeue \/ RecordResult \/ Claim
           \/ RecordRecovered \/ BeginContain \/ BeginReconcile \/ Operation \/ UNCHANGED vars
  BY <1>7, <1>8
     DEF vars, LeaseExpires, BeginExecute, Inspect, CreateJob, Acquire, TimeOut,
     GiveUpMutation, GiveUpReading, Requeue, RecordResult, Claim, RecordRecovered,
     BeginContain, BeginReconcile, Operation, Contain, ReconcileClaim, ReconcileRecord
<1>9. CASE Send
  <2>1. UNCHANGED <<agent, toCore, ran>>
    BY <1>9 DEF Send
  <2>2. CASE UNCHANGED <<core, toAgent>>
    BY <1>7, <2>1, <2>2
  <2>3. CASE ~UNCHANGED <<core, toAgent>>
    <3>1. Resend /\ core' = [core EXCEPT !.pending = executor.attempt]
          /\ toAgent' \in {toAgent, toAgent + 1}
      BY <1>9, <2>3 DEF Send
    <3>2. core.pending = 0 /\ core'.pending > 0 /\ core'.completed = core.completed
      BY <1>1, <1>6, <3>1 DEF Resend, CoreMemory, ExecutorCall
    <3>3. ran = <<>> => toAgent = 0 /\ agent.tasks = {}
      BY <1>6, <3>2 DEF Once, NotRunYet
    <3>4. ran # <<>> => agent.memory # NoResult
      BY <1>6, <3>2 DEF Once, RanOnce
    <3> QED
      BY <1>1, <1>6, <2>1, <3>1, <3>2, <3>3, <3>4 DEF Once, NotRunYet, RanOnce
  <2> QED
    BY <2>2, <2>3
<1>10. CASE Connect
  <2>1. UNCHANGED <<agent, toAgent, ran>>
    BY <1>10 DEF Connect
  <2>2. core'.pending = core.pending /\ core'.completed = core.completed
    BY <1>1, <1>10 DEF Connect, CoreMemory
  <2>3. \A s \in Sessions : toCore[s] = <<>> => toCore'[s] = <<>>
    BY <1>10 DEF Connect
  <2> QED
    BY <1>6, <2>1, <2>2, <2>3 DEF Once, NotRunYet, RanOnce
<1>11. ASSUME NEW s \in 0..MaxSessions, Broken(s) PROVE toAgent' \in {0, toAgent}
  BY <1>11 DEF Broken
<1>12. CASE Disconnect
  <2>1. UNCHANGED <<agent, core, toCore, ran>> /\ toAgent' \in {0, toAgent}
    BY <1>1, <1>11, <1>12 DEF Disconnect
  <2> QED
    BY <1>6, <2>1 DEF Once, NotRunYet, RanOnce
<1>13. ASSUME NEW s \in 0..MaxSessions, NEW kind, agent.memory = NoResult
       PROVE  ToCore(s, agent.memory, kind) = toCore
  BY <1>13 DEF ToCore
<1>14. ASSUME NEW s \in Sessions, Accept(s) PROVE Once'
  <2>1. UNCHANGED <<agent, toAgent, ran>>
    BY <1>14 DEF Accept
  <2>2. core'.pending = core.pending /\ core'.completed = core.completed
    BY <1>1, <1>14 DEF Accept, CoreMemory
  <2>3. agent.memory = NoResult => toCore' = toCore
    BY <1>13, <1>14 DEF Accept, ToCore
  <2> QED
    BY <1>6, <2>1, <2>2, <2>3 DEF Once, NotRunYet, RanOnce
<1>15. ASSUME NEW s \in Sessions, NoticeClose(s) PROVE Once'
  <2>1. UNCHANGED <<agent, toAgent, ran>>
    BY <1>15 DEF NoticeClose
  <2>2. core'.pending = core.pending /\ core'.completed = core.completed
    BY <1>1, <1>15 DEF NoticeClose, CoreMemory
  <2>3. \A r \in Sessions : toCore[r] = <<>> => toCore'[r] = <<>>
    BY <1>1, <1>15 DEF NoticeClose
  <2> QED
    BY <1>6, <2>1, <2>2, <2>3 DEF Once, NotRunYet, RanOnce
<1>16. ASSUME NEW s \in Sessions, ReceiveResult(s) PROVE Once'
  <2>1. toCore[s] # <<>> /\ UNCHANGED <<agent, ran>>
    BY <1>16 DEF ReceiveResult
  <2>2. ran # <<>> /\ agent.memory # NoResult
    BY <1>6, <2>1 DEF Once, NotRunYet, RanOnce
  <2> QED
    BY <1>6, <2>1, <2>2 DEF Once, RanOnce
<1>17. CASE ReceiveTask
  <2>1. UNCHANGED <<core, ran>> /\ toAgent > 0 /\ toAgent' = toAgent - 1
    BY <1>17 DEF ReceiveTask
  <2>2. CASE ran = <<>>
    <3>1. /\ agent.memory = NoResult /\ toAgent = 1 /\ agent.tasks = {} /\ core.pending > 0
      BY <1>6, <2>1, <2>2 DEF Once, NotRunYet
    <3>2. UNCHANGED toCore
      BY <1>17, <3>1 DEF ReceiveTask, ToCore
    <3>3. /\ agent'.memory = agent.memory /\ agent'.disk = agent.disk
          /\ agent'.tasks = {[socket |-> socket, result |-> NoResult]}
      BY <1>1, <1>17, <3>1 DEF ReceiveTask, Agent
    <3>4. \A t \in agent'.tasks : t = [socket |-> socket, result |-> NoResult]
                                    /\ t.result = NoResult
      BY <3>3
    <3>5. toAgent' = 0 /\ agent.memory = agent.disk /\ NotRunYet
      BY <1>6, <2>1, <2>2, <3>1 DEF Once
    <3>6. NotRunYet'
      BY <2>1, <3>1, <3>2, <3>3, <3>4, <3>5 DEF NotRunYet
    <3> QED
      BY <2>1, <2>2, <3>3, <3>5, <3>6 DEF Once
  <2>3. CASE ran # <<>>
    <3>1. agent.memory # NoResult
      BY <1>6, <2>1, <2>3 DEF Once, RanOnce
    <3>2. UNCHANGED agent
      BY <1>17, <3>1 DEF ReceiveTask
    <3> QED
      BY <1>6, <2>1, <2>3, <3>1, <3>2 DEF Once, RanOnce
  <2> QED
    BY <2>2, <2>3
<1>18. ASSUME NEW task \in agent.tasks, RunPack(task) PROVE Once'
  <2>1. task.result = NoResult /\ UNCHANGED <<core, toAgent, toCore>>
    BY <1>18 DEF RunPack
  <2>2. ran = <<>>
    BY <1>6, <2>1 DEF Once, RanOnce
  <2>3. toAgent = 0 /\ core.pending > 0 /\ NotRunYet
    BY <1>6, <2>2 DEF Once, NotRunYet
  <2>4. PICK outcome \in Outcomes :
          /\ ran' = Append(ran, outcome)
          /\ agent' = [agent EXCEPT !.tasks = (@ \ {task}) \cup
               {[task EXCEPT !.result = [by |-> Len(ran'), status |-> outcome]]}]
    BY <1>18 DEF RunPack
  <2> DEFINE new == [by |-> Len(ran'), status |-> outcome]
  <2>5. ran' # <<>> /\ Len(ran') = 1
    BY <1>1, <2>2, <2>4
  <2>6. new # NoResult
    BY <2>5 DEF NoResult
  <2>7. task \in Task
    BY <1>1 DEF Agent
  <2>8. [task EXCEPT !.result = new].result = new
    BY <2>7 DEF Task
  <2>9. /\ agent'.memory = agent.memory /\ agent'.disk = agent.disk
        /\ \A t \in agent'.tasks : t = [task EXCEPT !.result = new]
    BY <1>1, <2>3, <2>4 DEF Agent, NotRunYet
  <2> HIDE DEF new
  <2> QED
    BY <1>6, <2>1, <2>3, <2>5, <2>6, <2>8, <2>9 DEF Once, NotRunYet, RanOnce
<1>19. ASSUME NEW task \in agent.tasks, Report(task) PROVE Once'
  <2>1. task.result # NoResult /\ UNCHANGED <<core, ran>>
    BY <1>19 DEF Report, Answer
  <2>2. ran # <<>>
    BY <1>6, <2>1 DEF Once, NotRunYet
  <2>3. /\ agent'.memory = task.result /\ agent'.disk = task.result
        /\ agent'.tasks \subseteq agent.tasks
    BY <1>19 DEF Report
  <2> QED
    BY <1>6, <2>1, <2>2, <2>3 DEF Once, RanOnce
<1>20. ASSUME NEW task \in agent.tasks, PersistFails(task) PROVE FALSE
  BY <1>3, <1>20 DEF PersistFails
<1>21. CASE RestartCore
  BY <1>3, <1>21 DEF RestartCore
<1>22. CASE RestartAgent
  <2>1. UNCHANGED <<core, toCore, ran>> /\ toAgent' \in {0, toAgent}
    BY <1>1, <1>11, <1>22 DEF RestartAgent
  <2>2. agent'.memory = agent.disk /\ agent'.disk = agent.disk /\ agent'.tasks = {}
    BY <1>1, <1>22 DEF RestartAgent, Agent
  <2> QED
    BY <1>6, <2>1, <2>2 DEF Once, NotRunYet, RanOnce
<1> QED
  BY <1>8, <1>9, <1>10, <1>12, <1>14, <1>15, <1>16, <1>17, <1>18, <1>19, <1>20, <1>21, <1>22
     DEF Next, Execution, Transport, Work

(* A pack that mutates runs at most once while the core keeps its memory    *)
(* and the agent can write, for any number of calls, broken connections and *)
(* agent restarts.                                                          *)
THEOREM MutationRunsOnce == Spec => []MutationOnce
<1>1. Init => OnceInv
  BY DEF Init, OnceInv, Once, NotRunYet, RanOnce, FreshCore
<1>2. TypeOK /\ OnceInv => MutationOnce
  <2> SUFFICES ASSUME TypeOK, OnceInv, pack.mutates, used.losses = 0 PROVE Len(ran) <= 1
    BY DEF MutationOnce
  <2>1. CASE ran = <<>>
    <3>1. Len(<<>>) = 0
      OBVIOUS
    <3> QED
      BY <2>1, <3>1
  <2>2. CASE ran # <<>>
    <3>1. Len(ran) = 1
      BY <2>2 DEF OnceInv, Once, RanOnce
    <3> QED
      BY <3>1
  <2> QED
    BY <2>1, <2>2
<1> QED
  BY <1>1, <1>2, DesktopTyped, OnceInductive, PTL DEF Spec
=============================================================================
