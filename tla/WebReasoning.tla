---------------------------- MODULE WebReasoning ----------------------------
(***************************************************************************)
(* The reasoning of one stage of a run in a ChatGPT conversation           *)
(* (chatgpt-web/web-reasoning-executor.ts): the session and its            *)
(* replacements, the turns, the budget of external requests, and the       *)
(* proposals of a campaign (idea-lab/chatgpt-proposal-provider.ts), which  *)
(* spend the same budget.  A run of the Idea Lab has a budget, a run of    *)
(* the Project Workspace has none.  One pass of the runtime drives the     *)
(* stage or a proposal, never both.                                        *)
(*                                                                         *)
(* Every write of one file is atomic and the process may end between two.  *)
(* A prompt is known by what it is compiled from: the generation, its      *)
(* kind, the turns, the feedback of the desktop and the rejections.        *)
(***************************************************************************)
EXTENDS Naturals, Sequences, FiniteSets

CONSTANTS
  Owners,          \* whose runs: "idea-lab" has a budget, "project" has none
  Limit,           \* the external request budget
  MaxTurns,        \* maxTurnsPerStage
  MaxRecoveries,   \* maxRecoveryAttempts
  MaxRejected,     \* maxRejectedIntents
  MaxBackoffs,     \* the length of rateLimitBackoffMs
  MaxProposals,    \* bound: proposals of the campaign
  MaxDisturbances  \* bound: executions and crashes, for each owner

ASSUME WebAssumption ==
  /\ Owners \subseteq {"idea-lab", "project"}
  /\ {Limit, MaxTurns, MaxRecoveries, MaxRejected} \subseteq Nat \ {0}
  /\ {MaxBackoffs, MaxProposals} \subseteq Nat
  /\ MaxDisturbances \in [Owners -> Nat]

VARIABLES
  owner,         \* whose run it is
  session,       \* the session file of each generation
  pointer,       \* the generation the active-session file names, 0 without one
  known,         \* the generations whose file names their conversation
  turns,         \* the request that each recorded turn answers
  feedback,      \* the results of desktop intents that a new prompt can name
  budget,        \* the requests of the budget file and their states
  driver,        \* what the browser driver remembers of its submissions
  exec,          \* the execution
  outcome,       \* what the last execution returned
  proposal,      \* the proposal being generated
  sent,          \* history: the budgeted requests whose submission returned
  repeated,      \* history: those of them that were submitted again
  disturbances   \* executions and crashes so far

stores == <<session, pointer, known, turns, feedback>>
history == <<sent, repeated>>
vars == <<owner, stores, budget, driver, exec, outcome, proposal, history, disturbances>>

Generations == 1 .. MaxRecoveries + 2
Kinds == {"initial", "feedback", "recovery"}
Errors == {"limited", "usage", "lost", "other"}
Outcomes == {"completed", "waiting", "retryable", "blocked", "thrown"}

(* A structured answer that is accepted, and the intent it carries.         *)
Answers == {"continue", "stage-complete", "blocked-user", "retryable"}
Intents == {"none", "accepted", "refused"}

ExecSteps == {"idle", "ensure", "lose", "replace", "point", "open", "reserve", "submit",
              "refer", "await", "settle", "handle", "intent", "record"}
NoRequest == [kind |-> "none"]
Idle == [at |-> "idle", gen |-> 0, kind |-> "initial", rejections |-> 0, accepted |-> 0,
         rejected |-> 0, recoveries |-> 0, identityless |-> 0, backoffs |-> 0, opened |-> 0,
         request |-> NoRequest, error |-> "none", submitted |-> "no", answer |-> "none",
         intent |-> "none"]

Fresh == [prompts |-> {}, pending |-> {}]
Charges == {"reserved", "consumed", "unknown"}

Init ==
  /\ owner \in Owners
  /\ session = [g \in Generations |-> "absent"]
  /\ pointer = 0 /\ known = {}
  /\ turns = <<>> /\ feedback = 0
  /\ budget = <<>>
  /\ driver = Fresh
  /\ exec = Idle /\ outcome = "none"
  /\ proposal = [at |-> "idle", attempt |-> 1]
  /\ sent = {} /\ repeated = {}
  /\ disturbances = 0
----------------------------------------------------------------------------
(* request-budget.ts; each operation is atomic under the lock of the file.  *)
Exhausted == Cardinality(DOMAIN budget) >= Limit

Charge(request, state) ==
  budget' = [q \in DOMAIN budget \cup {request} |-> IF q = request THEN state ELSE budget[q]]

Release(request) == budget' = [q \in DOMAIN budget \ {request} |-> budget[q]]

(* A submission returned.                                                   *)
Sent(request) ==
  /\ sent' = sent \cup {request}
  /\ repeated' = IF request \in sent THEN repeated \cup {request} ELSE repeated
----------------------------------------------------------------------------
(* Execution: the session of the stage.                                     *)
execFrame == <<owner, proposal, disturbances>>

Goto(step) == exec' = [exec EXCEPT !.at = step] /\ UNCHANGED outcome

Return(result) == exec' = Idle /\ outcome' = result

Execute ==
  /\ exec.at = "idle" /\ proposal.at \in {"idle", "blocked"} /\ outcome # "completed"
  /\ disturbances < MaxDisturbances[owner] /\ disturbances' = disturbances + 1
  /\ exec' = [exec EXCEPT !.at = "ensure"] /\ outcome' = "none"
  /\ UNCHANGED <<owner, stores, budget, driver, proposal, history>>

Ready == {g \in Generations : session[g] = "ready"}

(* Fault: the recoveries of earlier executions are forgotten.               *)
LoadedAnew(g) ==
  [Idle EXCEPT !.at = "open", !.gen = g, !.kind = IF turns = <<>> THEN "initial" ELSE "feedback"]

(* A new execution reads the turns and the feedback, compiles the prompt    *)
(* and counts the recoveries of the session, whoever made them.             *)
Loaded(g) ==
  [Idle EXCEPT !.at = "open", !.gen = g, !.recoveries = g - 1,
               !.kind = IF turns = <<>> THEN "initial" ELSE "feedback"]

(* repairActiveWebWorkerSession points at the session that is ready.  It    *)
(* throws when there are two, or one that does not follow the lost one.     *)
Repair ==
  /\ exec.at = "ensure"
  /\ \E g \in Ready :
       IF Ready = {g} /\ (pointer # 0 /\ session[pointer] = "lost" => g = pointer + 1)
       THEN pointer' = g /\ exec' = Loaded(g) /\ UNCHANGED outcome
       ELSE Return("thrown") /\ UNCHANGED pointer
  /\ UNCHANGED <<session, known, turns, feedback, budget, driver, history, execFrame>>

(* Without one a session is created: the first, or the successor of the     *)
(* lost one that the pointer still names.                                   *)
CreateSession ==
  /\ exec.at = "ensure" /\ Ready = {}
  /\ exec' = [exec EXCEPT !.at = "replace", !.gen = pointer]
  /\ UNCHANGED <<stores, budget, driver, outcome, history, execFrame>>

(* Fault: the replaced session stays ready. *)
LoseNothing ==
  /\ exec.at = "lose"
  /\ Goto("replace")
  /\ UNCHANGED <<stores, budget, driver, history, execFrame>>

(* replaceLostWebWorkerSession: the lost session, its replacement, then the *)
(* pointer.                                                                 *)
Lose ==
  /\ exec.at = "lose"
  /\ session' = [session EXCEPT ![exec.gen] = "lost"]
  /\ Goto("replace")
  /\ UNCHANGED <<pointer, known, turns, feedback, budget, driver, history, execFrame>>

Replace ==
  /\ exec.at = "replace"
  /\ session' = [session EXCEPT ![exec.gen + 1] = "ready"]
  /\ Goto("point")
  /\ UNCHANGED <<pointer, known, turns, feedback, budget, driver, history, execFrame>>

(* A replacement made during the execution goes on with a recovery prompt.  *)
Point ==
  LET g == exec.gen + 1 IN
  /\ exec.at = "point"
  /\ pointer' = g
  /\ exec' = IF exec.error = "none" THEN Loaded(g)
             ELSE [exec EXCEPT !.at = "open", !.gen = g, !.kind = "recovery", !.opened = 0,
                               !.error = "none", !.request = NoRequest]
  /\ UNCHANGED <<session, known, turns, feedback, budget, driver, outcome, history, execFrame>>
----------------------------------------------------------------------------
(* One attempt: open, reserve, submit, await, settle.                       *)
Prompt ==
  [gen |-> exec.gen, kind |-> exec.kind, turns |-> Len(turns), feedback |-> feedback,
   rejections |-> exec.rejections]

Request ==
  [kind |-> "reasoning", prompt |-> Prompt, accepted |-> exec.accepted,
   rejected |-> exec.rejected, recoveries |-> exec.recoveries]

(* An attempt failed; a reservation is settled before the error is handled. *)
Failed(error) ==
  /\ exec' = [exec EXCEPT !.error = error, !.at = IF exec.request = NoRequest THEN "handle" ELSE "settle"]
  /\ UNCHANGED outcome

Open ==
  /\ exec.at = "open"
  /\ \/ exec' = [exec EXCEPT !.at = "reserve", !.opened = exec.gen] /\ UNCHANGED outcome
     \/ exec.opened # exec.gen /\ \E error \in Errors : Failed(error)
  /\ UNCHANGED <<stores, budget, driver, history, execFrame>>

(* Fault: a reservation that was left behind is taken over. *)
ReserveAgain ==
  /\ exec.at = "reserve"
  /\ \/ owner = "project"
        /\ Goto("submit")
        /\ UNCHANGED budget
     \/ /\ owner = "idea-lab"
        /\ \/ Request \in DOMAIN budget /\ budget[Request] = "reserved"
           \/ Request \notin DOMAIN budget /\ ~Exhausted
        /\ Charge(Request, "reserved")
        /\ exec' = [exec EXCEPT !.at = "submit", !.request = Request]
        /\ UNCHANGED outcome
     \/ /\ owner = "idea-lab" /\ (Request \in DOMAIN budget \/ Exhausted)
        /\ Return("waiting")
        /\ UNCHANGED budget
  /\ UNCHANGED <<stores, driver, history, execFrame>>

Reserve ==
  /\ exec.at = "reserve"
  /\ \/ owner = "project"
        /\ Goto("submit")
        /\ UNCHANGED budget
     \/ /\ owner = "idea-lab" /\ Request \notin DOMAIN budget /\ ~Exhausted
        /\ Charge(Request, "reserved")
        /\ exec' = [exec EXCEPT !.at = "submit", !.request = Request]
        /\ UNCHANGED outcome
     \/ /\ owner = "idea-lab" /\ (Request \in DOMAIN budget \/ Exhausted)
        /\ Return("waiting")
        /\ UNCHANGED budget
  /\ UNCHANGED <<stores, driver, history, execFrame>>

(* submitPrompt: a prompt this process has submitted is not sent again.     *)
Submit ==
  /\ exec.at = "submit"
  /\ \/ Prompt \in driver.prompts
        /\ UNCHANGED <<driver, history>>
     \/ /\ Prompt \notin driver.prompts
        /\ driver' = [prompts |-> driver.prompts \cup {Prompt},
                      pending |-> driver.pending \cup {exec.gen}]
        /\ IF owner = "idea-lab" THEN Sent(exec.request) ELSE UNCHANGED history
  /\ Goto("refer")
  /\ UNCHANGED <<stores, budget, execFrame>>

(* It throws, before the prompt was sent or, because the page then shows a  *)
(* limit or another conversation, after.                                    *)
SubmitFails ==
  /\ exec.at = "submit" /\ Prompt \notin driver.prompts
  /\ \E error \in Errors : Failed(error)
  /\ UNCHANGED <<stores, budget, driver, history, execFrame>>

(* The session file is given the conversation of the first submission.      *)
Refer ==
  /\ exec.at = "refer"
  /\ known' = known \cup {exec.gen}
  /\ exec' = [exec EXCEPT !.at = "await", !.submitted = "yes"]
  /\ UNCHANGED <<session, pointer, turns, feedback, budget, driver, outcome, history, execFrame>>

(* A structured answer that is accepted; reading it ends the submission.    *)
Answered ==
  /\ exec.at = "await" /\ exec.gen \in driver.pending
  /\ driver' = [driver EXCEPT !.pending = @ \ {exec.gen}]
  /\ \E answer \in Answers, intent \in Intents :
       exec' = [exec EXCEPT !.answer = answer, !.intent = intent, !.backoffs = 0,
                            !.at = IF exec.request = NoRequest THEN "intent" ELSE "settle"]
  /\ UNCHANGED <<stores, budget, outcome, history, execFrame>>

(* An answer that cannot be parsed, or does not fit the run.                *)
Malformed ==
  /\ exec.at = "await" /\ exec.gen \in driver.pending
  /\ driver' = [driver EXCEPT !.pending = @ \ {exec.gen}]
  /\ Failed("structured")
  /\ UNCHANGED <<stores, budget, history, execFrame>>

(* No answer in time, a limit, a page that is gone, or nothing to wait for. *)
AwaitFails ==
  /\ exec.at = "await"
  /\ \E error \in Errors : Failed(error)
  /\ UNCHANGED <<stores, budget, driver, history, execFrame>>
----------------------------------------------------------------------------
(* Fault: only a rejected answer pays for its request. *)
SettleRejected ==
  /\ exec.at = "settle" /\ exec.error \in {"none", "structured"}
  /\ Charge(exec.request, IF exec.error = "none" THEN "reserved" ELSE "consumed")
  /\ exec' = [exec EXCEPT !.at = IF exec.error = "none" THEN "intent" ELSE "handle"]
  /\ UNCHANGED <<stores, driver, outcome, history, execFrame>>

(* The reservation of an answered request is consumed.                      *)
SettleAnswered ==
  /\ exec.at = "settle" /\ exec.error \in {"none", "structured"}
  /\ Charge(exec.request, "consumed")
  /\ exec' = [exec EXCEPT !.at = IF exec.error = "none" THEN "intent" ELSE "handle"]
  /\ UNCHANGED <<stores, driver, outcome, history, execFrame>>

(* Whether the answer is still to come is not known: nothing is sent again. *)
SettleUnknown ==
  /\ exec.at = "settle" /\ exec.error \in Errors /\ exec.submitted = "yes"
  /\ Charge(exec.request, "unknown")
  /\ Return("waiting")
  /\ UNCHANGED <<stores, driver, history, execFrame>>

(* The submission threw: the reservation is given back.                     *)
SettleUnsent ==
  /\ exec.at = "settle" /\ exec.error \in Errors /\ exec.submitted = "no"
  /\ Release(exec.request)
  /\ exec' = [exec EXCEPT !.at = "handle", !.request = NoRequest]
  /\ UNCHANGED <<stores, driver, outcome, history, execFrame>>

Handling(errors) == exec.at = "handle" /\ exec.error \in errors
handleFrame == <<stores, budget, driver, history, execFrame>>

(* The next attempt, with what this one left behind cleared.                *)
Again(e) ==
  [e EXCEPT !.at = "open", !.error = "none", !.submitted = "no", !.request = NoRequest,
            !.answer = "none", !.intent = "none"]

(* Fault: a back-off is not counted. *)
BackOffUncounted ==
  /\ Handling({"limited"}) /\ exec.submitted = "no" /\ exec.backoffs < MaxBackoffs
  /\ exec' = Again(exec)
  /\ UNCHANGED <<outcome, handleFrame>>

(* A temporary limit before the submission is waited out; rateLimitBackoffMs *)
(* bounds how often.                                                        *)
BackOff ==
  /\ Handling({"limited"}) /\ exec.submitted = "no" /\ exec.backoffs < MaxBackoffs
  /\ exec' = Again([exec EXCEPT !.backoffs = @ + 1])
  /\ UNCHANGED <<outcome, handleFrame>>

Limited ==
  /\ \/ Handling({"usage"})
     \/ Handling({"limited"}) /\ (exec.submitted = "yes" \/ exec.backoffs = MaxBackoffs)
  /\ Return("waiting")
  /\ UNCHANGED handleFrame

BrowserFails ==
  /\ Handling({"other"})
  /\ Return("retryable")
  /\ UNCHANGED handleFrame

(* Fault: the last rejection is not the last attempt. *)
CorrectBeyond ==
  /\ Handling({"structured"})
  /\ IF exec.rejected > MaxRejected THEN Return("retryable")
     ELSE /\ exec' = Again([exec EXCEPT !.rejected = @ + 1, !.rejections = @ + 1, !.kind = "feedback"])
          /\ UNCHANGED outcome
  /\ UNCHANGED handleFrame

(* The answer is rejected and the conversation is asked to correct it.      *)
Correct ==
  /\ Handling({"structured"})
  /\ IF exec.rejected + 1 >= MaxRejected THEN Return("retryable")
     ELSE /\ exec' = Again([exec EXCEPT !.rejected = @ + 1, !.rejections = @ + 1, !.kind = "feedback"])
          /\ UNCHANGED outcome
  /\ UNCHANGED handleFrame

Unknown == IF exec.gen \in known THEN 0 ELSE 1

MayRecover == exec.identityless + Unknown <= 1 /\ exec.recoveries < MaxRecoveries

(* A lost or full conversation is replaced, once if it was never known.     *)
Recover ==
  /\ Handling({"lost"}) /\ MayRecover
  /\ exec' = [exec EXCEPT !.at = "lose", !.recoveries = @ + 1, !.submitted = "no",
                          !.identityless = @ + Unknown, !.request = NoRequest]
  /\ UNCHANGED <<outcome, handleFrame>>

RecoveryRefused ==
  /\ Handling({"lost"}) /\ ~MayRecover
  /\ Return("retryable")
  /\ UNCHANGED handleFrame
----------------------------------------------------------------------------
(* The intent of the answer, then the turn.                                 *)
NoIntent ==
  /\ exec.at = "intent" /\ exec.intent = "none"
  /\ Goto("record")
  /\ UNCHANGED handleFrame

RefuseIntent ==
  /\ exec.at = "intent" /\ exec.intent = "refused"
  /\ IF exec.rejected + 1 >= MaxRejected THEN Return("retryable")
     ELSE exec' = [exec EXCEPT !.at = "record", !.rejected = @ + 1] /\ UNCHANGED outcome
  /\ UNCHANGED handleFrame

(* The desktop job of the intent completes, and a later prompt can name its *)
(* result whether or not the turn is recorded.                              *)
RunIntent ==
  /\ exec.at = "intent" /\ exec.intent = "accepted"
  /\ feedback' = feedback + 1
  /\ Goto("record")
  /\ UNCHANGED <<session, pointer, known, turns, budget, driver, history, execFrame>>

(* The answer is another policy's, or the desktop has no agent, no answer or *)
(* a failure for its intent: the turn is not recorded.                      *)
AnswerFails ==
  /\ exec.at = "intent"
  /\ \E result \in {"waiting", "retryable", "blocked"} :
       (exec.intent = "accepted" \/ result = "retryable") /\ Return(result)
  /\ UNCHANGED handleFrame

(* The turn is appended; the result of a refused intent can be named once   *)
(* its turn is.  The outcome of the answer, or the last turn, ends the      *)
(* execution.                                                               *)
RecordTurn ==
  /\ exec.at = "record"
  /\ turns' = Append(turns, exec.request)
  /\ feedback' = IF exec.intent = "refused" THEN feedback + 1 ELSE feedback
  /\ \/ exec.answer = "continue" /\ exec.accepted + 1 < MaxTurns
        /\ exec' = Again([exec EXCEPT !.accepted = @ + 1, !.kind = "feedback"])
        /\ UNCHANGED outcome
     \/ exec.answer = "continue" /\ exec.accepted + 1 >= MaxTurns /\ Return("retryable")
     \/ exec.answer = "stage-complete" /\ Return("completed")
     \/ exec.answer = "blocked-user" /\ Return("blocked")
     \/ exec.answer = "retryable" /\ Return("retryable")
  /\ UNCHANGED <<session, pointer, known, budget, driver, history, execFrame>>
----------------------------------------------------------------------------
(* A proposal of the campaign.  Its request names the attempt, which goes   *)
(* on only when a proposal is saved.                                        *)
ProposalRequest == [kind |-> "proposal", attempt |-> proposal.attempt]
proposalFrame == <<owner, stores, exec, outcome, disturbances>>

Proposing(step) == proposal' = [proposal EXCEPT !.at = step]

Propose ==
  /\ owner = "idea-lab" /\ exec.at = "idle" /\ proposal.at = "idle"
  /\ proposal.attempt <= MaxProposals
  /\ IF ProposalRequest \in DOMAIN budget \/ Exhausted
     THEN Proposing("blocked") /\ UNCHANGED budget
     ELSE Charge(ProposalRequest, "reserved") /\ Proposing("open")
  /\ UNCHANGED <<driver, history, proposalFrame>>

ProposalOpens ==
  /\ proposal.at = "open"
  /\ \/ Proposing("submit") /\ UNCHANGED budget
     \/ Proposing("idle") /\ Release(ProposalRequest)
  /\ UNCHANGED <<driver, history, proposalFrame>>

ProposalSubmits ==
  /\ proposal.at = "submit"
  /\ Sent(ProposalRequest)
  /\ Proposing("await")
  /\ UNCHANGED <<budget, driver, proposalFrame>>

(* The submission throws or no answer is read: the campaign is blocked.     *)
ProposalUnknown ==
  /\ proposal.at \in {"submit", "await"}
  /\ Charge(ProposalRequest, "unknown")
  /\ Proposing("blocked")
  /\ UNCHANGED <<driver, history, proposalFrame>>

(* The answer is paid for; it is saved as a proposal or refused.            *)
ProposalAnswered ==
  /\ proposal.at = "await"
  /\ Charge(ProposalRequest, "consumed")
  /\ \/ Proposing("save")
     \/ Proposing("idle")
  /\ UNCHANGED <<driver, history, proposalFrame>>

SaveProposal ==
  /\ proposal.at = "save"
  /\ proposal' = [at |-> "idle", attempt |-> proposal.attempt + 1]
  /\ UNCHANGED <<budget, driver, history, proposalFrame>>
----------------------------------------------------------------------------
(* The process ends; the files stay, the driver and the execution do not.   *)
Crash ==
  /\ disturbances < MaxDisturbances[owner] /\ disturbances' = disturbances + 1
  /\ exec.at # "idle" \/ proposal.at \notin {"idle", "blocked"}
  /\ exec' = Idle
  /\ driver' = Fresh
  /\ proposal' = [proposal EXCEPT !.at = IF @ = "blocked" THEN "blocked" ELSE "idle"]
  /\ UNCHANGED <<owner, stores, budget, outcome, history>>

SessionStep == Repair \/ CreateSession \/ Lose \/ Replace \/ Point

AttemptStep ==
  \/ Open \/ Reserve \/ Submit \/ SubmitFails \/ Refer
  \/ Answered \/ Malformed \/ AwaitFails
  \/ SettleAnswered \/ SettleUnknown \/ SettleUnsent
  \/ BackOff \/ Limited \/ BrowserFails \/ Correct \/ Recover \/ RecoveryRefused
  \/ NoIntent \/ RefuseIntent \/ RunIntent \/ AnswerFails \/ RecordTurn

ProposalStep ==
  \/ ProposalOpens \/ ProposalSubmits \/ ProposalUnknown \/ ProposalAnswered \/ SaveProposal

Next == Execute \/ SessionStep \/ AttemptStep \/ Propose \/ ProposalStep \/ Crash

Spec == Init /\ [][Next]_vars

(* Every await of an execution ends: locks, navigation and reading have     *)
(* deadlines.  Nobody is obliged to execute the stage or to propose.        *)
FairSpec == Spec /\ WF_vars(SessionStep \/ AttemptStep) /\ WF_vars(ProposalStep)
----------------------------------------------------------------------------
Requests ==
  LET prompts == [gen : Generations, kind : Kinds, turns : 0 .. Len(turns), feedback : Nat,
                  rejections : 0 .. MaxRejected] IN
  [kind : {"reasoning"}, prompt : prompts, accepted : 0 .. MaxTurns,
   rejected : 0 .. MaxRejected, recoveries : 0 .. MaxRecoveries]
  \cup [kind : {"proposal"}, attempt : Nat]

(* Every variable has its type; an execution never has more rejections,     *)
(* turns, recoveries or back-offs behind it than it is allowed.             *)
TypeOK ==
  /\ owner \in Owners
  /\ session \in [Generations -> {"absent", "ready", "lost"}]
  /\ pointer \in Generations \cup {0} /\ known \subseteq Generations
  /\ feedback \in Nat
  /\ DOMAIN budget \subseteq Requests /\ Cardinality(DOMAIN budget) <= Limit
  /\ \A q \in DOMAIN budget : budget[q] \in Charges
  /\ driver.pending \subseteq Generations
  /\ exec.at \in ExecSteps /\ exec.gen \in Generations \cup {0} /\ exec.kind \in Kinds
  /\ exec.accepted \in 0 .. MaxTurns - 1 /\ exec.rejected \in 0 .. MaxRejected - 1
  /\ exec.recoveries \in 0 .. MaxRecoveries /\ exec.backoffs \in 0 .. MaxBackoffs
  /\ exec.identityless \in 0 .. 1
  /\ exec.request \in Requests \cup {NoRequest}
  /\ outcome \in Outcomes \cup {"none"}
  /\ proposal.at \in {"idle", "open", "submit", "await", "save", "blocked"}

(* web-reasoning-executor.ts and chatgpt-proposal-provider.ts: a request of *)
(* an Idea Lab run is never submitted a second time, and every submission   *)
(* is one of the Limit requests of the budget file: whatever fails or       *)
(* crashes between the reservation, the submission and its settlement.      *)
SubmittedOnce == owner = "idea-lab" => repeated = {} /\ sent \subseteq DOMAIN budget

(* session-store.ts: through the three writes of a replacement there is     *)
(* never more than one ready session, and it is the pointed one or its      *)
(* direct successor: no crash leaves a stage that repair refuses for ever.  *)
SessionsFollow ==
  /\ Cardinality(Ready) <= 1
  /\ \A g \in Ready : g \in {pointer, pointer + 1} /\ (g = pointer + 1 => pointer = 0 \/ session[pointer] = "lost")
  /\ outcome # "thrown"

(* web-reasoning-executor.ts:246: the generations bound the recoveries of a *)
(* stage, however often the runtime restarts.                               *)
RecoveriesBounded == \A g \in Generations : session[g] # "absent" => g <= MaxRecoveries + 1

(* turn-store.ts and request-budget.ts: each turn an Idea Lab run records   *)
(* is the answer to a request of its own, and that request stays paid for.  *)
TurnsPaid ==
  owner = "idea-lab" =>
    /\ \A i \in DOMAIN turns : turns[i] \in DOMAIN budget /\ budget[turns[i]] = "consumed"
    /\ \A i, j \in DOMAIN turns : turns[i] = turns[j] => i = j

(* Every execution of a stage returns: turns, rejections, recoveries and    *)
(* back-offs are all counted, and none is counted back.                     *)
ExecutionEnds == exec.at # "idle" ~> exec.at = "idle"
=============================================================================
