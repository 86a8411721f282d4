--------------------------- MODULE CampaignRuntime --------------------------
(***************************************************************************)
(* The Idea Lab: the runtime service that passes campaigns one at a time,  *)
(* the campaign supervisor, the driver of a production, the connection of  *)
(* the desktop agent that starts the recovery, and the operator.           *)
(*                                                                         *)
(* Campaigns, productions, runs, worktrees and candidates survive the      *)
(* process; the queues, the pass and the recovery do not.  A supervision   *)
(* of a run (HarnessRun) is one step here that ends in any status it can   *)
(* end in, and a deployment is one step that succeeds, fails or is lost.   *)
(***************************************************************************)
EXTENDS Naturals, Sequences, FiniteSets, SequencesExt

CONSTANTS
  Campaigns,          \* the campaigns
  NoCampaign,         \* no campaign is passed
  Target,             \* the prototypes a campaign is asked for
  ProposalBudget,     \* proposals a campaign may ask for
  MaxSteps,           \* steps of one pass
  Outcomes,           \* how a supervision of a run can end
  MaxDisturbances     \* bound: cancels, retries, breaks, failures, restarts

RunOutcomes == {"WAITING_AGENT", "WAITING_EXTERNAL", "BLOCKED_USER",
                "FAILED_RETRYABLE", "FAILED_FINAL", "DONE"}

ASSUME CampaignAssumption ==
  /\ NoCampaign \notin Campaigns
  /\ Target \in Nat \ {0} /\ ProposalBudget \in Nat \ {0} /\ MaxSteps \in Nat \ {0}
  /\ Outcomes \subseteq RunOutcomes
  /\ MaxDisturbances \in Nat

VARIABLES
  campaign,           \* the campaign files, with the status of their proposals
  production,         \* the production files, with their run, worktree and candidate
  queue,              \* the queues of the runtime service
  pass,               \* the pass that is running
  accepting,          \* whether the runtime service takes campaigns
  calls,              \* routes between their last save and their enqueue
  link,               \* the agent's connection and the capability's state
  recovery,           \* the recovery of the campaigns after a start
  owed,               \* history: recoveries no pass has followed yet
  disturbances        \* how many there have been

filed == <<campaign, production>>
served == <<queue, accepting, owed>>
vars == <<filed, served, pass, calls, link, recovery, disturbances>>

Ordinals == 1..ProposalBudget

CampaignStatuses == {"none", "generating", "producing", "blocked", "complete", "cancelled"}
Unfinished == {"generating", "producing"}

Campaign == [status : CampaignStatuses,
             proposals : Seq({"accepted", "rejected"}),
             linked : SUBSET Ordinals]

ProductionStatuses == {"none", "queued", "running", "deploying", "verifying", "ready", "failed"}
Working == {"queued", "running", "deploying", "verifying"}
RunStatuses == RunOutcomes \cup {"none", "READY", "RUNNING"}

(* sandbox: "made" is a worktree whose run has not had its preflight        *)
(* refreshed, "allocated" is what allocate or inspect returned.             *)
Production == [status : ProductionStatuses, proposal : 0..ProposalBudget,
               run : RunStatuses, retry : {"none", "active", "closed"},
               sandbox : {"none", "made", "allocated"},
               candidate : {"none", "saved"}]

NoProduction == [status |-> "none", proposal |-> 0, run |-> "none", retry |-> "none",
                 sandbox |-> "none", candidate |-> "none"]

(* Where a pass is.  It holds the campaign's lock at all but the steps in   *)
(* Unlocked, and a production's lock at the steps in Producing.             *)
Producing == {"create", "provision", "allocate", "advance", "supervise", "settle",
              "deploy", "materialize", "save"}
Unlocked == {"idle", "begin", "ended", "failed", "guard"}
PassSteps == Producing \cup Unlocked \cup {"scan", "link", "generate", "record"}

Pass == [pc : PassSteps, of : Campaigns \cup {NoCampaign}, steps : 0..MaxSteps,
         item : 0..ProposalBudget, verdict : {"none", "accepted", "rejected"}]

Queue == [fresh : Seq(Campaigns), recovery : Seq(Campaigns), scheduled : SUBSET Campaigns,
          failed : SUBSET Campaigns, follow : SUBSET Campaigns,
          active : Campaigns \cup {NoCampaign}]

TypeOK ==
  /\ campaign \in [Campaigns -> Campaign]
  /\ \A c \in Campaigns : Len(campaign[c].proposals) <= ProposalBudget
  /\ production \in [Campaigns -> [Ordinals -> Production]]
  /\ queue \in Queue /\ pass \in Pass /\ accepting \in {"open", "closed"}
  /\ calls \subseteq {"created", "retried"} \X Campaigns
  /\ link \in [agent : {"up", "down"}, capability : {"ready", "blocked"}]
  /\ recovery \in [pc : {"wanted", "list", "schedule", "done"}, todo : SUBSET Campaigns]
  /\ owed \subseteq Campaigns
  /\ disturbances \in 0..MaxDisturbances

NoPass == [pc |-> "idle", of |-> NoCampaign, steps |-> 0, item |-> 0, verdict |-> "none"]
EmptyQueue == [fresh |-> <<>>, recovery |-> <<>>, scheduled |-> {}, failed |-> {},
               follow |-> {}, active |-> NoCampaign]

Init ==
  /\ campaign = [c \in Campaigns |-> [status |-> "none", proposals |-> <<>>, linked |-> {}]]
  /\ production = [c \in Campaigns |-> [o \in Ordinals |-> NoProduction]]
  /\ queue = EmptyQueue /\ pass = NoPass /\ accepting = "open"
  /\ calls = {} /\ owed = {}
  /\ link = [agent |-> "down", capability |-> "blocked"]
  /\ recovery = [pc |-> "wanted", todo |-> {}]
  /\ disturbances = 0

Disturb == disturbances < MaxDisturbances /\ disturbances' = disturbances + 1
----------------------------------------------------------------------------
(* The runtime service (runtime-service.ts).                                *)

Queued(q, c, source) ==
  IF source = "fresh"
  THEN [q EXCEPT !.scheduled = @ \cup {c}, !.fresh = Append(@, c)]
  ELSE [q EXCEPT !.scheduled = @ \cup {c}, !.recovery = Append(@, c)]

(* Fault:  a campaign is queued whether or not it is already.               *)
ScheduledAgain(q, c, source) ==
  IF accepting = "closed" THEN q ELSE Queued(q, c, source)

(* Fault:  a recovery of the campaign that is being passed is dropped.      *)
ScheduledOnce(q, c, source) ==
  IF accepting = "closed" \/ c \in q.scheduled THEN q ELSE Queued(q, c, source)

(* Fault:  campaigns are taken after dispose.                               *)
ScheduledAlways(q, c, source) ==
  IF c \in q.scheduled THEN q ELSE Queued(q, c, source)

(* schedule: the queues after it.                                           *)
Scheduled(q, c, source) ==
  IF accepting = "closed" THEN q
  ELSE IF c \notin q.scheduled THEN Queued(q, c, source)
  ELSE IF source = "recovery" /\ q.active = c THEN [q EXCEPT !.follow = @ \cup {c}]
  ELSE q

passFrame == <<accepting, calls, link, recovery>>

(* pump takes the next campaign, new ones before recovered ones, and calls  *)
(* superviseIdeaLabCampaign, which waits for the campaign's lock.           *)
Take ==
  /\ pass.pc = "idle" /\ queue.fresh \o queue.recovery # <<>>
  /\ LET c == Head(queue.fresh \o queue.recovery) IN
     /\ queue' = [queue EXCEPT !.active = c,
                    !.fresh = IF @ # <<>> THEN Tail(@) ELSE @,
                    !.recovery = IF queue.fresh = <<>> THEN Tail(@) ELSE @]
     /\ pass' = [NoPass EXCEPT !.pc = "begin", !.of = c]
  /\ UNCHANGED <<filed, passFrame, owed, disturbances>>

(* The finally block: the campaign can be scheduled again; whether it is,   *)
(* the recovery guard decides first.                                        *)
Finish(again, failed) ==
  LET c == pass.of IN
  /\ queue' = [queue EXCEPT !.active = NoCampaign, !.scheduled = @ \ {c},
                 !.follow = @ \ {c}, !.failed = failed]
  /\ pass' = IF again \/ c \in queue.follow THEN [NoPass EXCEPT !.pc = "guard", !.of = c]
             ELSE NoPass
  /\ UNCHANGED <<filed, passFrame, owed, disturbances>>

PassEnded == pass.pc = "ended" /\ Finish(FALSE, queue.failed \ {pass.of})

(* A pass that threw is repeated once while the campaign is unfinished.     *)
PassFailed ==
  /\ pass.pc = "failed"
  /\ LET again == pass.of \notin queue.failed /\ campaign[pass.of].status \in Unfinished IN
     Finish(again, IF again THEN queue.failed \cup {pass.of} ELSE queue.failed \ {pass.of})

(* shouldRecoverIdeaLabCampaign                                             *)
Recoverable(c) == \A o \in Ordinals : production[c][o].status # "none"
                                        => production[c][o].run # "WAITING_EXTERNAL"

Guard ==
  /\ pass.pc = "guard"
  /\ queue' = IF Recoverable(pass.of) THEN Scheduled(queue, pass.of, "recovery") ELSE queue
  /\ owed' = IF Recoverable(pass.of) THEN owed ELSE owed \ {pass.of}
  /\ pass' = NoPass
  /\ UNCHANGED <<filed, passFrame, disturbances>>
----------------------------------------------------------------------------
(* The campaign supervisor (campaign-supervisor.ts), under the lock.        *)

supervised == <<served, passFrame>>

Goto(pc) == pass' = [pass EXCEPT !.pc = pc]

Item == production[pass.of][pass.item]

SaveCampaign(changed) == campaign' = [campaign EXCEPT ![pass.of] = changed]
SaveItem(changed) == production' = [production EXCEPT ![pass.of][pass.item] = changed]

(* Fault:  the campaign's status is not looked at again.                    *)
BeginUnchecked ==
  /\ pass.pc = "begin" /\ Goto("scan")
  /\ owed' = owed \ {pass.of}
  /\ UNCHANGED <<filed, queue, passFrame, disturbances>>

(* The campaign is read under its lock; one that is over ends the pass.     *)
Begin ==
  /\ pass.pc = "begin"
  /\ Goto(IF campaign[pass.of].status \in Unfinished THEN "scan" ELSE "ended")
  /\ owed' = owed \ {pass.of}
  /\ UNCHANGED <<filed, queue, passFrame, disturbances>>

Made(c) == {o \in Ordinals : production[c][o].status # "none"}

(* Productions that may be advanced: those at work, and those that failed   *)
(* but whose run a retry has started again.                                 *)
Active(c) ==
  {o \in Made(c) :
     \/ production[c][o].status \in Working
     \/ /\ production[c][o].status = "failed" /\ production[c][o].retry = "active"
        /\ production[c][o].run \in {"READY", "RUNNING"}}

Ready(c) == {o \in Made(c) : production[c][o].status = "ready"}

(* Accepted proposals nothing has been made of.                             *)
Waiting(c) ==
  {p \in DOMAIN campaign[c].proposals :
     campaign[c].proposals[p] = "accepted" /\ \A o \in Made(c) : production[c][o].proposal # p}

First(numbers) == CHOOSE n \in numbers : \A m \in numbers : n <= m

(* Each round of the loop lists the productions and links those a crash     *)
(* left out, then completes the campaign, advances the first production at  *)
(* work, makes one of the first proposal that waits, or asks for a proposal.*)
Scan ==
  /\ pass.pc = "scan" /\ pass.steps < MaxSteps
  /\ LET c == pass.of
         linked == [campaign[c] EXCEPT !.linked = @ \cup Made(c)] IN
     \/ /\ Cardinality(Ready(c)) >= Target
        /\ SaveCampaign([linked EXCEPT !.status = "complete"])
        /\ Goto("ended")
     \/ /\ Cardinality(Ready(c)) < Target /\ Active(c) # {}
        /\ SaveCampaign(linked)
        /\ pass' = [pass EXCEPT !.pc = "advance", !.item = First(Active(c))]
     \/ /\ Cardinality(Ready(c)) < Target /\ Active(c) = {} /\ Waiting(c) # {}
        /\ SaveCampaign(linked)
        /\ pass' = [pass EXCEPT !.pc = "create", !.item = Cardinality(Made(c)) + 1]
     \/ /\ Cardinality(Ready(c)) < Target /\ Active(c) = {} /\ Waiting(c) = {}
        /\ SaveCampaign(linked)
        /\ Goto("generate")
  /\ UNCHANGED <<production, supervised, disturbances>>

OutOfSteps ==
  /\ pass.pc = "scan" /\ pass.steps = MaxSteps
  /\ Goto("ended")
  /\ UNCHANGED <<filed, supervised, disturbances>>

AnotherRound(steps) ==
  pass' = [NoPass EXCEPT !.pc = "scan", !.of = pass.of, !.steps = steps]

(* The provider answers with a proposal that is distinct from the accepted  *)
(* ones or is not; or the budget, the campaign's or the provider's, is      *)
(* spent and the campaign is blocked.                                       *)
Generate ==
  /\ pass.pc = "generate"
  /\ \/ /\ Len(campaign[pass.of].proposals) < ProposalBudget
        /\ \E verdict \in {"accepted", "rejected"} :
             pass' = [pass EXCEPT !.pc = "record", !.verdict = verdict]
        /\ UNCHANGED campaign
     \/ /\ SaveCampaign([campaign[pass.of] EXCEPT !.status = "blocked"])
        /\ Goto("ended")
  /\ UNCHANGED <<production, supervised, disturbances>>

(* The proposal, saved under the number of the attempt, is listed.          *)
RecordProposal ==
  /\ pass.pc = "record"
  /\ SaveCampaign([campaign[pass.of] EXCEPT
                     !.proposals = Append(@, pass.verdict),
                     !.status = IF pass.verdict = "accepted" THEN "producing" ELSE @])
  /\ AnotherRound(pass.steps + 1)
  /\ UNCHANGED <<production, supervised, disturbances>>
----------------------------------------------------------------------------
(* The production driver (production-runtime-driver.ts), under the          *)
(* production's lock.                                                       *)

(* createProduction: the run is created, unless it exists.                  *)
CreateRun ==
  /\ pass.pc = "create"
  /\ SaveItem([Item EXCEPT !.run = IF @ = "none" THEN "READY" ELSE @])
  /\ Goto("provision")
  /\ UNCHANGED <<campaign, supervised, disturbances>>

(* The provisional production is saved before the sandbox is there.         *)
Provision ==
  /\ pass.pc = "provision"
  /\ SaveItem([Item EXCEPT !.status = "queued", !.proposal = First(Waiting(pass.of))])
  /\ Goto("allocate")
  /\ UNCHANGED <<campaign, supervised, disturbances>>

(* The agent inspects the worktree or makes it, and the preflight of a new  *)
(* one is refreshed.                                                        *)
Allocate ==
  /\ pass.pc = "allocate" /\ link.agent = "up"
  /\ SaveItem([Item EXCEPT !.sandbox = "allocated"])
  /\ Goto("link")
  /\ UNCHANGED <<campaign, supervised, disturbances>>

(* The agent is away, or fails, or its result does not come back in time.   *)
AllocateFails ==
  /\ pass.pc = "allocate"
  /\ \/ link.agent = "down" /\ UNCHANGED <<production, disturbances>>
     \/ /\ link.agent = "up" /\ Disturb
        /\ \E sandbox \in {Item.sandbox, "made"} : SaveItem([Item EXCEPT !.sandbox = sandbox])
  /\ Goto("failed")
  /\ UNCHANGED <<campaign, supervised>>

LinkProduction ==
  /\ pass.pc = "link"
  /\ SaveCampaign([campaign[pass.of] EXCEPT !.status = "producing", !.linked = @ \cup {pass.item}])
  /\ AnotherRound(pass.steps + 1)
  /\ UNCHANGED <<production, supervised, disturbances>>

NeedsRecovery == Item.run = "WAITING_AGENT" \/ (Item.run = "RUNNING" /\ Item.retry = "active")

(* advanceProduction: a run that is over is settled; one that waits for the *)
(* agent is recovered, and gives way to other campaigns while the agent is  *)
(* away.                                                                    *)
Advance ==
  /\ pass.pc = "advance"
  /\ \/ Item.run \in {"FAILED_FINAL", "DONE"} /\ Goto("settle") /\ UNCHANGED production
     \/ /\ NeedsRecovery /\ link.agent = "up"
        /\ SaveItem([Item EXCEPT !.run = "RUNNING"]) /\ Goto("supervise")
     \/ /\ NeedsRecovery /\ link.agent = "down"
        /\ SaveItem([Item EXCEPT !.run = "WAITING_AGENT", !.status = "running"])
        /\ Goto("ended")
     \/ /\ Item.run \notin {"FAILED_FINAL", "DONE"} /\ ~NeedsRecovery
        /\ Goto("supervise") /\ UNCHANGED production
  /\ UNCHANGED <<campaign, supervised, disturbances>>

(* superviseHarnessRun: a run that waits for somebody else stays as it is.  *)
Supervise ==
  /\ pass.pc = "supervise"
  /\ \E outcome \in IF Item.run \in {"WAITING_EXTERNAL", "BLOCKED_USER"} THEN {Item.run} ELSE Outcomes :
       /\ SaveItem([Item EXCEPT !.run = outcome,
                      !.retry = IF @ = "active" /\ outcome \in {"FAILED_FINAL", "DONE"} THEN "closed" ELSE @])
       /\ IF outcome = "FAILED_RETRYABLE" THEN Disturb ELSE UNCHANGED disturbances
  /\ Goto("settle")
  /\ UNCHANGED <<campaign, supervised>>

SuperviseThrows ==
  /\ pass.pc = "supervise" /\ Item.run \notin {"WAITING_EXTERNAL", "BLOCKED_USER"}
  /\ Disturb
  /\ SaveItem([Item EXCEPT !.run = "RUNNING"])
  /\ Goto("failed")
  /\ UNCHANGED <<campaign, supervised>>

(* What the run has come to is written to the production.                   *)
Settle ==
  /\ pass.pc = "settle"
  /\ \/ /\ Item.run = "FAILED_FINAL"
        /\ SaveItem([Item EXCEPT !.status = "failed"]) /\ AnotherRound(pass.steps + 1)
     \/ /\ Item.run = "DONE"
        /\ SaveItem([Item EXCEPT !.status = "deploying"]) /\ Goto("deploy")
     \/ /\ Item.run = "FAILED_RETRYABLE"
        /\ SaveItem([Item EXCEPT !.status = "running"]) /\ Goto("failed")
     \/ /\ Item.run \notin {"FAILED_FINAL", "DONE", "FAILED_RETRYABLE"}
        /\ SaveItem([Item EXCEPT !.status = "running"]) /\ AnotherRound(pass.steps + 1)
  /\ UNCHANGED <<campaign, supervised, disturbances>>

(* Fault:  the production is ready once it is deployed.                     *)
DeployReady ==
  /\ pass.pc = "deploy"
  /\ SaveItem([Item EXCEPT !.status = "ready"]) /\ Goto("materialize")
  /\ UNCHANGED <<campaign, supervised, disturbances>>

(* The deployment is made or found again, and verified.                     *)
Deploy ==
  /\ pass.pc = "deploy"
  /\ SaveItem([Item EXCEPT !.status = "verifying"]) /\ Goto("materialize")
  /\ UNCHANGED <<campaign, supervised, disturbances>>

DeployFails ==
  /\ pass.pc = "deploy" /\ Disturb
  /\ \/ SaveItem([Item EXCEPT !.status = "failed"]) /\ AnotherRound(pass.steps + 1)
     \/ \E status \in {"deploying", "verifying"} :
          SaveItem([Item EXCEPT !.status = status]) /\ Goto("failed")
  /\ UNCHANGED <<campaign, supervised>>

Materialize ==
  /\ pass.pc = "materialize"
  /\ SaveItem([Item EXCEPT !.candidate = "saved"]) /\ Goto("save")
  /\ UNCHANGED <<campaign, supervised, disturbances>>

SaveReady ==
  /\ pass.pc = "save"
  /\ SaveItem([Item EXCEPT !.status = "ready"]) /\ AnotherRound(pass.steps + 1)
  /\ UNCHANGED <<campaign, supervised, disturbances>>
----------------------------------------------------------------------------
(* The operator (idea-lab-actions.ts and the routes).                       *)

operatorFrame == <<queue, accepting, owed, pass, link, recovery>>

CreateCampaign(c) ==
  /\ campaign[c].status = "none" /\ link.capability = "ready"
  /\ campaign' = [campaign EXCEPT ![c].status = "generating"]
  /\ calls' = calls \cup {<<"created", c>>}
  /\ UNCHANGED <<production, operatorFrame, disturbances>>

(* The campaign's lock is free, or the call is refused.                     *)
CancelCampaign(c) ==
  /\ pass.of = c => pass.pc \in Unlocked
  /\ campaign[c].status \in Unfinished \cup {"blocked"}
  /\ campaign' = [campaign EXCEPT ![c].status = "cancelled"]
  /\ Disturb
  /\ UNCHANGED <<production, operatorFrame, calls>>

(* requestRetry lists the productions, which waits in vain while one is     *)
(* being advanced, and retries the run if it has failed for good.           *)
RequestRetry(c, o) ==
  /\ link.capability = "ready" /\ pass.pc \notin Producing
  /\ production[c][o].status # "none"
  /\ production[c][o].run = "FAILED_FINAL" /\ production[c][o].retry # "active"
  /\ Disturb
  /\ production' = [production EXCEPT ![c][o].run = "READY", ![c][o].retry = "active"]
  /\ calls' = calls \cup {<<"retried", c>>}
  /\ UNCHANGED <<campaign, operatorFrame>>

(* The route returns; it does not enqueue a new campaign if the agent has   *)
(* gone meanwhile.                                                          *)
Enqueue(call) ==
  /\ call \in calls
  /\ calls' = calls \ {call}
  /\ queue' = IF call[1] = "created" /\ link.capability # "ready" THEN queue
              ELSE Scheduled(queue, call[2], "fresh")
  /\ UNCHANGED <<filed, accepting, owed, pass, link, recovery, disturbances>>
----------------------------------------------------------------------------
(* The agent's connection and the recovery (iseol-runtime-services.ts).     *)

linkFrame == <<filed, served, pass, calls>>

(* The first connection of the process, or the next one after a recovery    *)
(* that failed, recovers the campaigns; once recovered, a connection makes  *)
(* the capability ready and does nothing else.                              *)
Connect ==
  /\ link.agent = "down"
  /\ link' = [agent |-> "up",
              capability |-> IF recovery.pc = "done" THEN "ready" ELSE link.capability]
  /\ recovery' = IF recovery.pc = "wanted" THEN [recovery EXCEPT !.pc = "list"] ELSE recovery
  /\ UNCHANGED <<linkFrame, disturbances>>

Disconnect ==
  /\ link.agent = "up" /\ Disturb
  /\ link' = [agent |-> "down", capability |-> "blocked"]
  /\ UNCHANGED <<linkFrame, recovery>>

(* recover reads every campaign under its lock ...                          *)
ListCampaigns ==
  /\ recovery.pc = "list" /\ pass.pc \in Unlocked
  /\ recovery' = [pc |-> "schedule",
                  todo |-> {c \in Campaigns : campaign[c].status \in Unfinished}]
  /\ UNCHANGED <<linkFrame, link, disturbances>>

(* ... and schedules those that were unfinished then.                       *)
RecoverCampaign(c) ==
  /\ recovery.pc = "schedule" /\ c \in recovery.todo
  /\ recovery' = [recovery EXCEPT !.todo = @ \ {c}]
  /\ queue' = IF Recoverable(c) THEN Scheduled(queue, c, "recovery") ELSE queue
  /\ owed' = IF Recoverable(c) /\ accepting = "open" THEN owed \cup {c} ELSE owed
  /\ UNCHANGED <<filed, pass, accepting, calls, link, disturbances>>

Recovered ==
  /\ recovery.pc = "schedule" /\ recovery.todo = {}
  /\ recovery' = [recovery EXCEPT !.pc = "done"]
  /\ link' = [link EXCEPT !.capability = IF link.agent = "up" THEN "ready" ELSE "blocked"]
  /\ UNCHANGED <<linkFrame, disturbances>>

(* A lock was not free in time: the next connection tries again.            *)
RecoveryFails ==
  /\ \/ recovery.pc = "list" /\ pass.pc \notin Unlocked
     \/ recovery.pc = "schedule" /\ recovery.todo # {} /\ pass.pc \in Producing
  /\ recovery' = [pc |-> "wanted", todo |-> {}]
  /\ link' = [link EXCEPT !.capability = "blocked"]
  /\ UNCHANGED <<linkFrame, disturbances>>
----------------------------------------------------------------------------
Dispose ==
  /\ accepting = "open" /\ accepting' = "closed" /\ owed' = {}
  /\ Disturb
  /\ UNCHANGED <<filed, queue, pass, calls, link, recovery>>

(* The process ends and another starts.                                     *)
Crash ==
  /\ Disturb
  /\ queue' = EmptyQueue /\ pass' = NoPass /\ accepting' = "open"
  /\ calls' = {} /\ owed' = {}
  /\ link' = [agent |-> "down", capability |-> "blocked"]
  /\ recovery' = [pc |-> "wanted", todo |-> {}]
  /\ UNCHANGED filed

Driving ==
  \/ CreateRun \/ Provision \/ Allocate \/ AllocateFails \/ Advance \/ Supervise
  \/ SuperviseThrows \/ Settle \/ Deploy \/ DeployFails \/ Materialize \/ SaveReady

PassStep ==
  \/ Take \/ PassEnded \/ PassFailed \/ Guard
  \/ Begin \/ Scan \/ OutOfSteps \/ Generate \/ RecordProposal \/ LinkProduction
  \/ Driving

Operator ==
  \/ \E c \in Campaigns :
       CreateCampaign(c) \/ CancelCampaign(c) \/ \E o \in Ordinals : RequestRetry(c, o)
  \/ \E call \in calls : Enqueue(call)

Recovering ==
  \/ ListCampaigns \/ Recovered \/ RecoveryFails
  \/ \E c \in Campaigns : RecoverCampaign(c)

Next == PassStep \/ Operator \/ Connect \/ Disconnect \/ Recovering \/ Dispose \/ Crash

Spec == Init /\ [][Next]_vars

----------------------------------------------------------------------------
(* A complete campaign has the prototypes it was asked for, each with a run *)
(* that is done and a candidate, and lists all its productions, wherever a  *)
(* pass was interrupted.                                                    *)
CompleteTruthful ==
  \A c \in Campaigns :
    /\ \A o \in Ready(c) : production[c][o].run = "DONE" /\ production[c][o].candidate = "saved"
    /\ campaign[c].status = "complete" =>
         Cardinality(Ready(c)) >= Target /\ campaign[c].linked = Made(c)

(* Whatever is enqueued, recovered or repeated, a campaign is at most once  *)
(* in the queues or in the pass, and what counts as scheduled is there.     *)
ScheduledIsQueued ==
  LET waiting == queue.fresh \o queue.recovery IN
  /\ \A i, j \in DOMAIN waiting : waiting[i] = waiting[j] => i = j
  /\ queue.active \notin ToSet(waiting)
  /\ queue.scheduled = ToSet(waiting) \cup ({queue.active} \ {NoCampaign})

Contract == INSTANCE IdeaCampaign WITH
  Proposals <- Ordinals,
  status <- [c \in Campaigns |-> campaign[c].status],
  started <- [c \in Campaigns |-> [o \in Ordinals |-> production[c][o].proposal]],
  delivered <- [c \in Campaigns |-> Ready(c)]

(* Every campaign implements its contract: one production per proposal,     *)
(* none made or delivered after the campaign was cancelled, blocked or      *)
(* completed, across queues, retries, interrupted passes and restarts.      *)
ImplementsCampaign == Contract!Spec

(* "recovery requested during an active pass must survive deduplication":   *)
(* a campaign that a recovery asked for, and no pass has read since, is in  *)
(* the queue, about to be read, or queued again when its pass ends.         *)
RecoveryKept ==
  \A c \in owed :
    \/ c \in ToSet(queue.fresh \o queue.recovery)
    \/ pass.of = c /\ (pass.pc \in {"begin", "guard"} \/ c \in queue.follow)

(* After dispose the queues only become shorter: a pass that fails is not   *)
(* repeated, and a recovery or a route that is late queues nothing.         *)
DisposeDrains ==
  [][accepting = "closed" /\ accepting' = "closed"
       => queue'.scheduled \subseteq queue.scheduled]_vars

(* "retry must enter the existing sandbox inspect/reuse path": no run is    *)
(* supervised before the sandbox of its production is allocated. The code   *)
(* does not keep it: the provisional production is saved before Allocate.   *)
SandboxFirst == pass.pc = "supervise" => Item.sandbox = "allocated"
=============================================================================
