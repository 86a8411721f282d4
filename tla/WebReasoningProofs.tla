------------------------- MODULE WebReasoningProofs -------------------------
(***************************************************************************)
(* Proofs about the reasoning of a stage, for any budget, any limits of    *)
(* turns, recoveries, rejections and back-offs, and any number of crashes. *)
(***************************************************************************)
EXTENDS WebReasoning, FiniteSetTheorems, TLAPS

ExecRecord ==
  [at : ExecSteps, gen : Generations \cup {0}, kind : Kinds, rejections : 0 .. MaxRejected,
   accepted : 0 .. MaxTurns - 1, rejected : 0 .. MaxRejected - 1,
   recoveries : 0 .. MaxRecoveries, identityless : 0 .. 1, backoffs : 0 .. MaxBackoffs,
   opened : Generations \cup {0}, request : Requests \cup {NoRequest},
   error : Errors \cup {"none", "structured"}, submitted : {"yes", "no"},
   answer : Answers \cup {"none"}, intent : Intents \cup {"none"}]

(* The requests that can ever be recorded with a turn.                      *)
AnyRequest ==
  [kind : {"reasoning"},
   prompt : [gen : Generations, kind : Kinds, turns : Nat, feedback : Nat,
             rejections : 0 .. MaxRejected],
   accepted : 0 .. MaxTurns, rejected : 0 .. MaxRejected, recoveries : 0 .. MaxRecoveries]
  \cup [kind : {"proposal"}, attempt : Nat] \cup {NoRequest}

(* TypeOK, with the whole of the records.                                   *)
Typed ==
  /\ TypeOK
  /\ exec \in ExecRecord /\ exec.rejections <= exec.rejected
  /\ driver = [prompts |-> driver.prompts, pending |-> driver.pending]
  /\ proposal = [at |-> proposal.at, attempt |-> proposal.attempt] /\ proposal.attempt \in Nat
  /\ turns \in Seq(AnyRequest)
  /\ IsFiniteSet(DOMAIN budget)

(* The steps at which an execution has an active session.                   *)
InSession == {"open", "reserve", "submit", "refer", "await", "settle", "handle", "intent", "record"}

(* The generations up to the pointer are lost, but for the pointed one,     *)
(* which may be ready, and the next, which may be ready when it is lost.    *)
InOrder ==
  /\ pointer <= MaxRecoveries + 1
  /\ \A g \in Generations :
       /\ g < pointer => session[g] = "lost"
       /\ g = pointer => session[g] # "absent"
       /\ g > pointer + 1 => session[g] = "absent"
       /\ g = pointer + 1 => session[g] # "lost"
       /\ g = pointer + 1 /\ session[g] = "ready" => pointer = 0 \/ session[pointer] = "lost"
       /\ session[g] = "lost" => g <= MaxRecoveries

(* An execution works in the pointed session, and has counted the           *)
(* recoveries before it.                                                    *)
InPlace ==
  /\ exec.at \in {"idle", "ensure"} => exec.error = "none"
  /\ exec.at \in InSession =>
       /\ pointer # 0 /\ exec.gen = pointer /\ session[pointer] = "ready"
       /\ exec.recoveries = exec.gen - 1
  /\ exec.at = "lose" =>
       /\ pointer # 0 /\ exec.gen = pointer /\ session[pointer] = "ready"
       /\ exec.recoveries = exec.gen
  /\ exec.at \in {"replace", "point"} =>
       /\ exec.gen = pointer /\ (pointer = 0 \/ session[pointer] = "lost")
       /\ exec.error # "none" => exec.recoveries = exec.gen
  /\ exec.at = "replace" => session[pointer + 1] = "absent"
  /\ exec.at = "point" => session[pointer + 1] = "ready"

Sessions == InOrder /\ InPlace /\ outcome # "thrown"

(* What an attempt does to the execution: it goes on in its session, or is  *)
(* over.                                                                    *)
LEMMA AttemptStays ==
  ASSUME exec \in ExecRecord, AttemptStep, ~Recover
  PROVE  /\ exec.at \in InSession /\ UNCHANGED <<session, pointer>>
         /\ \/ exec' = Idle /\ outcome' \in Outcomes \ {"thrown"}
            \/ /\ exec'.at \in InSession /\ exec'.gen = exec.gen
               /\ exec'.recoveries = exec.recoveries /\ UNCHANGED outcome
<1> USE DEF InSession, stores, handleFrame, execFrame, Handling, Return, Goto, Outcomes
<1>1. CASE Open
  BY <1>1 DEF Open, Failed, ExecRecord
<1>2. CASE Reserve
  BY <1>2 DEF Reserve, ExecRecord
<1>3. CASE Submit
  BY <1>3 DEF Submit, ExecRecord
<1>4. CASE SubmitFails
  BY <1>4 DEF SubmitFails, Failed, ExecRecord
<1>5. CASE Refer
  BY <1>5 DEF Refer, ExecRecord
<1>6. CASE Answered
  BY <1>6 DEF Answered, ExecRecord
<1>7. CASE Malformed
  BY <1>7 DEF Malformed, Failed, ExecRecord
<1>8. CASE AwaitFails
  BY <1>8 DEF AwaitFails, Failed, ExecRecord
<1>9. CASE SettleAnswered
  BY <1>9 DEF SettleAnswered, ExecRecord
<1>10. CASE SettleUnknown
  BY <1>10 DEF SettleUnknown
<1>11. CASE SettleUnsent
  BY <1>11 DEF SettleUnsent, ExecRecord
<1>12. CASE BackOff
  BY <1>12 DEF BackOff, Again, ExecRecord
<1>13. CASE Limited \/ BrowserFails \/ RecoveryRefused
  BY <1>13 DEF Limited, BrowserFails, RecoveryRefused
<1>14. CASE Correct
  <2>1. CASE exec.rejected + 1 >= MaxRejected
    BY <1>14, <2>1 DEF Correct
  <2>2. CASE ~(exec.rejected + 1 >= MaxRejected)
    <3> DEFINE e == [exec EXCEPT !.rejected = @ + 1, !.rejections = @ + 1, !.kind = "feedback"]
    <3>1. exec' = Again(e) /\ UNCHANGED outcome /\ exec.at = "handle"
          /\ UNCHANGED <<session, pointer>>
      BY <1>14, <2>2 DEF Correct
    <3>2. e.gen = exec.gen /\ e.recoveries = exec.recoveries
      BY DEF ExecRecord
    <3>3. Again(e).at = "open" /\ Again(e).gen = e.gen /\ Again(e).recoveries = e.recoveries
      BY DEF Again, ExecRecord
    <3> QED
      BY <3>1, <3>2, <3>3
  <2> QED
    BY <2>1, <2>2
<1>15. CASE NoIntent
  BY <1>15 DEF NoIntent, ExecRecord
<1>16. CASE RefuseIntent
  BY <1>16 DEF RefuseIntent, ExecRecord
<1>17. CASE RunIntent
  BY <1>17 DEF RunIntent, ExecRecord
<1>18. CASE AnswerFails
  BY <1>18 DEF AnswerFails
<1>19. CASE RecordTurn
  BY <1>19 DEF RecordTurn, Again, ExecRecord
<1> QED
  BY <1>1, <1>2, <1>3, <1>4, <1>5, <1>6, <1>7, <1>8, <1>9, <1>10, <1>11, <1>12, <1>13,
     <1>14, <1>15, <1>16, <1>17, <1>18, <1>19 DEF AttemptStep

(* The steps of a session, as far as the sessions are concerned.            *)
LEMMA SessionStays ==
  ASSUME Typed, SessionStep \/ Recover \/ Execute, Sessions
  PROVE  Sessions'
<1> USE DEF InSession, stores, handleFrame, execFrame, Handling, Return, Goto
<1>0. /\ exec \in ExecRecord /\ pointer \in Generations \cup {0} /\ MaxRecoveries \in Nat \ {0}
      /\ session \in [Generations -> {"absent", "ready", "lost"}]
      /\ Generations = 1 .. MaxRecoveries + 2
  BY WebAssumption DEF Typed, TypeOK, Generations
<1>1. CASE Execute
  <2>1. exec'.at = "ensure" /\ exec'.error = exec.error /\ exec.at = "idle"
    BY <1>0, <1>1 DEF Execute, ExecRecord
  <2> QED
    BY <1>1, <2>1 DEF Sessions, InOrder, InPlace, Execute
<1>2. CASE Repair
  <2>1. PICK g \in Ready : Ready = {g} \/ Ready # {g}
    BY <1>2 DEF Repair
  <2>2. session[g] = "ready" /\ g \in Generations
    BY <2>1 DEF Ready
  <2>3. g = pointer \/ (g = pointer + 1 /\ (pointer = 0 \/ session[pointer] = "lost"))
    BY <1>0, <2>2 DEF Sessions, InOrder
  <2>4. \A h \in Ready : h = g
    BY <1>0, <2>2, <2>3 DEF Sessions, InOrder, Ready
  <2>5. Ready = {g}
    BY <2>1, <2>4
  <2>6. pointer' = g /\ exec' = Loaded(g) /\ UNCHANGED <<outcome, session>>
    BY <1>0, <1>2, <2>2, <2>3, <2>5 DEF Repair
  <2>7. exec'.at = "open" /\ exec'.gen = g /\ exec'.recoveries = g - 1
    BY <2>6 DEF Loaded, Idle
  <2>8. InOrder'
    BY <1>0, <2>2, <2>3, <2>6 DEF Sessions, InOrder
  <2> QED
    BY <1>0, <2>2, <2>6, <2>7, <2>8 DEF Sessions, InPlace
<1>3. CASE CreateSession
  <2>1. exec'.at = "replace" /\ exec'.gen = pointer /\ exec'.error = "none"
    BY <1>0, <1>3 DEF CreateSession, ExecRecord, Sessions, InPlace
  <2>2. pointer = 0 \/ session[pointer] = "lost"
    BY <1>0, <1>3 DEF CreateSession, Ready, Sessions, InOrder
  <2>3. pointer + 1 \in Generations
    BY <1>0, <2>2 DEF Sessions, InOrder
  <2>4. session[pointer + 1] = "absent"
    BY <1>0, <1>3, <2>3 DEF CreateSession, Ready, Sessions, InOrder
  <2> QED
    BY <1>0, <1>3, <2>1, <2>2, <2>4 DEF CreateSession, Sessions, InOrder, InPlace
<1>4. CASE Lose
  <2>1. exec'.at = "replace" /\ exec'.gen = exec.gen /\ exec'.recoveries = exec.recoveries
    BY <1>0, <1>4 DEF Lose, ExecRecord
  <2>2. /\ exec.gen = pointer /\ pointer \in Generations /\ session[pointer] = "ready"
        /\ exec.recoveries = pointer /\ pointer <= MaxRecoveries
    BY <1>0, <1>4 DEF Lose, Sessions, InPlace, ExecRecord
  <2>3. session' = [session EXCEPT ![pointer] = "lost"] /\ UNCHANGED <<pointer, outcome>>
    BY <1>4, <2>2 DEF Lose
  <2>4. session[pointer + 1] = "absent"
    BY <1>0, <2>2 DEF Sessions, InOrder
  <2>5. InOrder'
    BY <1>0, <2>2, <2>3, <2>4 DEF Sessions, InOrder
  <2> QED
    BY <1>0, <2>1, <2>2, <2>3, <2>4, <2>5 DEF Sessions, InPlace
<1>5. CASE Replace
  <2>1. exec'.at = "point" /\ exec'.gen = exec.gen /\ exec'.recoveries = exec.recoveries
        /\ exec'.error = exec.error
    BY <1>0, <1>5 DEF Replace, ExecRecord
  <2>2. /\ exec.gen = pointer /\ (pointer = 0 \/ session[pointer] = "lost")
        /\ session[pointer + 1] = "absent"
        /\ exec.error # "none" => exec.recoveries = exec.gen
    BY <1>0, <1>5 DEF Replace, Sessions, InPlace
  <2>3. pointer + 1 \in Generations /\ pointer <= MaxRecoveries
    BY <1>0, <2>2 DEF Sessions, InOrder
  <2>4. session' = [session EXCEPT ![pointer + 1] = "ready"] /\ UNCHANGED <<pointer, outcome>>
    BY <1>5, <2>2 DEF Replace
  <2>5. InOrder'
    BY <1>0, <2>2, <2>3, <2>4 DEF Sessions, InOrder
  <2> QED
    BY <1>0, <2>1, <2>2, <2>3, <2>4, <2>5 DEF Sessions, InPlace
<1>6. CASE Point
  <2>1. /\ exec.gen = pointer /\ (pointer = 0 \/ session[pointer] = "lost")
        /\ session[pointer + 1] = "ready"
        /\ exec.error # "none" => exec.recoveries = exec.gen
    BY <1>0, <1>6 DEF Point, Sessions, InPlace
  <2>2. pointer' = pointer + 1 /\ UNCHANGED <<session, outcome>>
    BY <1>6, <2>1 DEF Point
  <2>3. exec'.at = "open" /\ exec'.gen = pointer + 1 /\ exec'.recoveries = pointer
    <3>1. CASE exec.error = "none"
      BY <1>0, <1>6, <2>1, <3>1 DEF Point, Loaded, Idle
    <3>2. CASE exec.error # "none"
      BY <1>0, <1>6, <2>1, <3>2 DEF Point, ExecRecord
    <3> QED
      BY <3>1, <3>2
  <2>4. pointer + 1 \in Generations /\ pointer <= MaxRecoveries
    BY <1>0, <2>1 DEF Sessions, InOrder
  <2>5. InOrder'
    BY <1>0, <2>1, <2>2, <2>4 DEF Sessions, InOrder
  <2> QED
    BY <1>0, <2>1, <2>2, <2>3, <2>5 DEF Sessions, InPlace
<1>7. CASE Recover
  <2>1. /\ exec.at = "handle" /\ exec'.at = "lose" /\ exec'.gen = exec.gen
        /\ exec'.recoveries = exec.recoveries + 1 /\ UNCHANGED <<session, pointer, outcome>>
    BY <1>0, <1>7 DEF Recover, ExecRecord
  <2> QED
    BY <1>0, <2>1 DEF Sessions, InOrder, InPlace, ExecRecord
<1> QED
  BY <1>1, <1>2, <1>3, <1>4, <1>5, <1>6, <1>7 DEF SessionStep

LEMMA SessionsStep ==
  ASSUME Typed, Sessions, [Next]_vars
  PROVE  Sessions'
<1>1. CASE SessionStep \/ Recover \/ Execute
  BY <1>1, SessionStays
<1>2. CASE AttemptStep /\ ~Recover
  <2>1. exec \in ExecRecord
    BY DEF Typed
  <2>2. CASE exec' = Idle /\ outcome' \in Outcomes \ {"thrown"}
    BY <1>2, <2>1, <2>2, AttemptStays DEF Sessions, InOrder, InPlace, Idle, InSession
  <2>3. CASE ~(exec' = Idle /\ outcome' \in Outcomes \ {"thrown"})
    BY <1>2, <2>1, <2>3, AttemptStays DEF Sessions, InOrder, InPlace, InSession
  <2> QED
    BY <2>2, <2>3
<1>3. CASE Propose \/ ProposalStep
  BY <1>3 DEF Propose, ProposalStep, ProposalOpens, ProposalSubmits, ProposalUnknown,
     ProposalAnswered, SaveProposal, proposalFrame, stores, Sessions, InOrder, InPlace
<1>4. CASE Crash
  BY <1>4 DEF Crash, Idle, stores, Sessions, InOrder, InPlace, InSession
<1>5. CASE UNCHANGED vars
  BY <1>5 DEF vars, stores, Sessions, InOrder, InPlace
<1> QED
  BY <1>1, <1>2, <1>3, <1>4, <1>5 DEF Next
----------------------------------------------------------------------------
(* The request of an attempt, or of a proposal, is in the budget from its   *)
(* reservation on, is not sent before its submission, and is not one a      *)
(* recorded turn answers.                                                   *)
Reserved(request) ==
  /\ request \in DOMAIN budget /\ request.kind = "reasoning"
  /\ \A i \in DOMAIN turns : turns[i] # request

Charged ==
  /\ exec.at \in {"open", "reserve"} => exec.request = NoRequest
  /\ exec.at \in {"submit", "refer", "await", "settle"} =>
       \/ owner = "project" /\ exec.request = NoRequest /\ exec.at # "settle"
       \/ owner = "idea-lab" /\ Reserved(exec.request)
  /\ exec.at \in {"intent", "record"} =>
       owner = "project" \/ (Reserved(exec.request) /\ budget[exec.request] = "consumed")
  /\ exec.at = "submit" => owner = "project" \/ exec.request \notin sent
  /\ exec.at = "await" => exec.submitted = "yes"
  /\ exec.at = "settle" /\ exec.submitted = "no" => exec.request \notin sent

Proposed ==
  /\ exec.at # "idle" => proposal.at \in {"idle", "blocked"}
  /\ proposal.at \in {"open", "submit", "await"} => ProposalRequest \in DOMAIN budget
  /\ proposal.at \in {"open", "submit"} => ProposalRequest \notin sent
  /\ proposal.at \notin {"idle", "blocked"} => owner = "idea-lab"

Accounted ==
  /\ repeated = {} /\ sent \subseteq DOMAIN budget
  /\ owner = "idea-lab" =>
       \A i \in DOMAIN turns :
         /\ turns[i].kind = "reasoning" /\ turns[i] \in DOMAIN budget
         /\ budget[turns[i]] = "consumed"
         /\ \A j \in DOMAIN turns : turns[i] = turns[j] => i = j

Paid == Charged /\ Proposed /\ Accounted

LEMMA PaidInit == Init => Paid
BY DEF Init, Idle, Paid, Charged, Proposed, Accounted

LEMMA AttemptPaid ==
  ASSUME Typed, Paid, AttemptStep
  PROVE  Paid'
<1> USE DEF stores, history, handleFrame, execFrame, Handling, Return, Goto
<1>0. exec \in ExecRecord /\ turns \in Seq(AnyRequest) /\ owner \in {"idea-lab", "project"}
  BY WebAssumption DEF Typed, TypeOK
<1>1. CASE Open
  BY <1>0, <1>1 DEF Open, Failed, ExecRecord, Paid, Charged, Proposed, Accounted, Reserved, ProposalRequest
<1>2. CASE Reserve
  <2>1. /\ exec.at = "reserve" /\ exec.request = NoRequest /\ proposal.at \in {"idle", "blocked"}
        /\ UNCHANGED <<turns, sent, repeated, proposal, owner>>
    BY <1>0, <1>2 DEF Reserve, Paid, Charged, Proposed
  <2>2. Request.kind = "reasoning"
    BY DEF Request
  <2>3. CASE owner = "project" /\ exec' = [exec EXCEPT !.at = "submit"] /\ budget' = budget
    BY <1>0, <2>1, <2>3 DEF ExecRecord, Paid, Charged, Proposed, Accounted, Reserved, ProposalRequest, NoRequest
  <2>4. CASE /\ owner = "idea-lab" /\ Request \notin DOMAIN budget /\ Charge(Request, "reserved")
             /\ exec' = [exec EXCEPT !.at = "submit", !.request = Request]
    <3>1. exec'.at = "submit" /\ exec'.request = Request
      BY <1>0, <2>4 DEF ExecRecord
    <3>2. /\ DOMAIN budget' = DOMAIN budget \cup {Request}
          /\ \A q \in DOMAIN budget : budget'[q] = budget[q]
      BY <2>4 DEF Charge
    <3>3. Request \notin sent /\ \A i \in DOMAIN turns : turns[i] # Request
      BY <2>4 DEF Paid, Accounted
    <3>4. Charged'
      BY <2>1, <2>2, <2>4, <3>1, <3>2, <3>3 DEF Charged, Reserved
    <3>5. Proposed'
      BY <2>1, <3>1 DEF Proposed
    <3>6. Accounted'
      BY <2>1, <3>2 DEF Paid, Accounted
    <3> QED
      BY <3>4, <3>5, <3>6 DEF Paid
  <2>5. CASE exec' = Idle /\ UNCHANGED budget
    BY <2>1, <2>5 DEF Idle, Paid, Charged, Proposed, Accounted, ProposalRequest
  <2> QED
    BY <1>2, <2>3, <2>4, <2>5 DEF Reserve
<1>3. CASE Submit
  BY <1>0, <1>3 DEF Submit, Sent, ExecRecord, Paid, Charged, Proposed, Accounted, Reserved, ProposalRequest
<1>4. CASE SubmitFails
  BY <1>0, <1>4 DEF SubmitFails, Failed, ExecRecord, Paid, Charged, Proposed, Accounted, Reserved, ProposalRequest
<1>5. CASE Refer
  BY <1>0, <1>5 DEF Refer, ExecRecord, Paid, Charged, Proposed, Accounted, Reserved, ProposalRequest
<1>6. CASE Answered
  BY <1>0, <1>6 DEF Answered, ExecRecord, Paid, Charged, Proposed, Accounted, Reserved, ProposalRequest, NoRequest
<1>7. CASE Malformed
  BY <1>0, <1>7 DEF Malformed, Failed, ExecRecord, Paid, Charged, Proposed, Accounted, Reserved, ProposalRequest
<1>8. CASE AwaitFails
  BY <1>0, <1>8 DEF AwaitFails, Failed, ExecRecord, Paid, Charged, Proposed, Accounted, Reserved, ProposalRequest
<1>9. CASE SettleAnswered
  BY <1>0, <1>9 DEF SettleAnswered, ExecRecord, Paid, Charged, Proposed, Accounted, Reserved, ProposalRequest, Charge
<1>10. CASE SettleUnknown
  BY <1>0, <1>10 DEF SettleUnknown, Idle, Paid, Charged, Proposed, Accounted, Reserved, ProposalRequest, Charge
<1>11. CASE SettleUnsent
  BY <1>0, <1>11 DEF SettleUnsent, ExecRecord, Paid, Charged, Proposed, Accounted, Reserved, ProposalRequest, Release
<1>12. CASE BackOff \/ Recover
  <2>1. exec'.at \in {"open", "lose"} /\ exec'.request = NoRequest
    <3>1. CASE BackOff
      BY <1>0, <3>1 DEF BackOff, Again, ExecRecord
    <3>2. CASE Recover
      BY <1>0, <3>2 DEF Recover, ExecRecord
    <3> QED
      BY <1>12, <3>1, <3>2
  <2>2. exec.at = "handle" /\ UNCHANGED <<turns, budget, sent, repeated, proposal, owner>>
    BY <1>12 DEF BackOff, Recover
  <2> QED
    BY <2>1, <2>2 DEF Paid, Charged, Proposed, Accounted, ProposalRequest
<1>13. CASE Limited \/ BrowserFails \/ RecoveryRefused
  BY <1>0, <1>13 DEF Limited, BrowserFails, RecoveryRefused, Idle, Paid, Charged, Proposed, Accounted, Reserved, ProposalRequest
<1>14. CASE Correct
  <2>1. CASE exec' = Idle
    BY <1>14, <2>1 DEF Correct, Idle, Paid, Charged, Proposed, Accounted, ProposalRequest
  <2>2. CASE exec' # Idle
    <3>1. exec'.at = "open" /\ exec'.request = NoRequest
      BY <1>0, <1>14, <2>2 DEF Correct, Again, ExecRecord
    <3> QED
      BY <1>14, <3>1 DEF Correct, Paid, Charged, Proposed, Accounted, ProposalRequest
  <2> QED
    BY <2>1, <2>2
<1>15. CASE NoIntent \/ RunIntent
  BY <1>0, <1>15 DEF NoIntent, RunIntent, ExecRecord, Paid, Charged, Proposed, Accounted, Reserved, ProposalRequest
<1>16. CASE RefuseIntent
  <2>1. CASE exec' = Idle
    BY <1>16, <2>1 DEF RefuseIntent, Idle, Paid, Charged, Proposed, Accounted, ProposalRequest
  <2>2. CASE exec' # Idle
    <3>1. exec'.at = "record" /\ exec'.request = exec.request
      BY <1>0, <1>16, <2>2 DEF RefuseIntent, ExecRecord
    <3> QED
      BY <1>16, <3>1 DEF RefuseIntent, Paid, Charged, Proposed, Accounted, Reserved, ProposalRequest
  <2> QED
    BY <2>1, <2>2
<1>17. CASE AnswerFails
  BY <1>0, <1>17 DEF AnswerFails, Idle, Paid, Charged, Proposed, Accounted, Reserved, ProposalRequest
<1>18. CASE RecordTurn
  <2>1. /\ exec.at = "record" /\ proposal.at \in {"idle", "blocked"}
        /\ turns' = Append(turns, exec.request)
        /\ UNCHANGED <<budget, sent, repeated, proposal, owner>>
    BY <1>18 DEF RecordTurn, Paid, Proposed
  <2>2. exec'.at \in {"idle", "open"} /\ exec'.request = NoRequest
    <3>1. CASE exec' = Idle
      BY <3>1 DEF Idle
    <3>2. CASE exec' # Idle
      BY <1>0, <1>18, <3>2 DEF RecordTurn, Again, ExecRecord
    <3> QED
      BY <3>1, <3>2
  <2>3. Charged' /\ Proposed'
    BY <2>1, <2>2 DEF Paid, Charged, Proposed, ProposalRequest
  <2>4. ASSUME owner = "idea-lab", NEW i \in DOMAIN turns'
        PROVE  /\ turns'[i].kind = "reasoning" /\ turns'[i] \in DOMAIN budget'
               /\ budget'[turns'[i]] = "consumed"
               /\ \A j \in DOMAIN turns' : turns'[i] = turns'[j] => i = j
    <3>1. Reserved(exec.request) /\ budget[exec.request] = "consumed"
      BY <2>1, <2>4 DEF Paid, Charged
    <3>2. /\ turns'[Len(turns) + 1] = exec.request
          /\ DOMAIN turns' = DOMAIN turns \cup {Len(turns) + 1}
          /\ \A k \in DOMAIN turns : turns'[k] = turns[k] /\ k # Len(turns) + 1
      BY <1>0, <2>1
    <3>3. \A k \in DOMAIN turns : turns[k] # exec.request
      BY <3>1 DEF Reserved
    <3> QED
      BY <2>1, <2>4, <3>1, <3>2, <3>3 DEF Paid, Accounted, Reserved
  <2>5. Accounted'
    BY <2>1, <2>4 DEF Paid, Accounted
  <2> QED
    BY <2>3, <2>5 DEF Paid
<1> QED
  BY <1>1, <1>2, <1>3, <1>4, <1>5, <1>6, <1>7, <1>8, <1>9, <1>10, <1>11, <1>12, <1>13,
     <1>14, <1>15, <1>16, <1>17, <1>18 DEF AttemptStep

LEMMA PaidStep ==
  ASSUME Typed, Paid, [Next]_vars
  PROVE  Paid'
<1> USE DEF stores, history
<1>0. exec \in ExecRecord /\ owner \in {"idea-lab", "project"}
      /\ proposal = [at |-> proposal.at, attempt |-> proposal.attempt]
  BY WebAssumption DEF Typed, TypeOK
<1>1. CASE AttemptStep
  BY <1>1, AttemptPaid
<1>2. CASE Execute
  BY <1>0, <1>2 DEF Execute, ExecRecord, Paid, Charged, Proposed, Accounted, ProposalRequest
<1>3. CASE SessionStep
  <2> USE DEF execFrame, Goto, Return
  <2>1. /\ exec.at \in {"ensure", "lose", "replace", "point"}
        /\ UNCHANGED <<turns, budget, sent, repeated, proposal, owner>>
    BY <1>3 DEF SessionStep, Repair, CreateSession, Lose, Replace, Point
  <2>2. \A g : Loaded(g).at = "open" /\ Loaded(g).request = NoRequest
    BY DEF Loaded, Idle
  <2>3. \/ exec' = Idle
        \/ exec'.at \in {"lose", "replace", "point"}
        \/ exec'.at = "open" /\ exec'.request = NoRequest
    <3>1. CASE Repair
      BY <2>2, <3>1 DEF Repair
    <3>2. CASE CreateSession
      BY <1>0, <3>2 DEF CreateSession, ExecRecord
    <3>3. CASE Lose \/ Replace
      BY <1>0, <3>3 DEF Lose, Replace, ExecRecord
    <3>4. CASE Point /\ exec.error = "none"
      BY <2>2, <3>4 DEF Point
    <3>5. CASE Point /\ exec.error # "none"
      BY <1>0, <3>5 DEF Point, ExecRecord
    <3> QED
      BY <1>3, <3>1, <3>2, <3>3, <3>4, <3>5 DEF SessionStep
  <2> QED
    BY <2>1, <2>3 DEF Idle, Paid, Charged, Proposed, Accounted, ProposalRequest
<1>4. CASE Propose
  BY <1>0, <1>4 DEF Propose, Proposing, Charge, proposalFrame, Paid, Charged, Proposed, Accounted, ProposalRequest
<1>5. CASE ProposalStep
  <2> USE DEF Proposing, Charge, Release, proposalFrame, Paid, Charged, Proposed, Accounted, Reserved,
              ProposalRequest
  <2>1. CASE ProposalOpens
    BY <1>0, <2>1 DEF ProposalOpens
  <2>2. CASE ProposalSubmits
    BY <1>0, <2>2 DEF ProposalSubmits, Sent
  <2>3. CASE ProposalUnknown
    BY <1>0, <2>3 DEF ProposalUnknown
  <2>4. CASE ProposalAnswered
    BY <1>0, <2>4 DEF ProposalAnswered
  <2>5. CASE SaveProposal
    BY <1>0, <2>5 DEF SaveProposal
  <2> QED
    BY <1>5, <2>1, <2>2, <2>3, <2>4, <2>5 DEF ProposalStep
<1>6. CASE Crash
  BY <1>0, <1>6 DEF Crash, Idle, Paid, Charged, Proposed, Accounted, ProposalRequest
<1>7. CASE UNCHANGED vars
  BY <1>7 DEF vars, Paid, Charged, Proposed, Accounted, Reserved, ProposalRequest
<1> QED
  BY <1>1, <1>2, <1>3, <1>4, <1>5, <1>6, <1>7 DEF Next
----------------------------------------------------------------------------
(* The constants, one by one.                                               *)
LEMMA Constants ==
  /\ MaxTurns \in Nat \ {0} /\ MaxRecoveries \in Nat \ {0} /\ MaxRejected \in Nat \ {0}
  /\ Limit \in Nat \ {0} /\ MaxBackoffs \in Nat
BY WebAssumption

LEMMA IdleRecord == Idle \in ExecRecord /\ Idle.rejections = 0 /\ Idle.rejected = 0
BY Constants DEF ExecRecord, Idle, ExecSteps, Kinds

(* An execution with some fields changed, each within its type.             *)
LEMMA Updated ==
  ASSUME NEW e \in ExecRecord
  PROVE  /\ \A at \in ExecSteps : [e EXCEPT !.at = at] \in ExecRecord
         /\ \A at \in ExecSteps, error \in Errors \cup {"none", "structured"} :
              [e EXCEPT !.error = error, !.at = at] \in ExecRecord
         /\ \A n \in 0 .. MaxTurns - 1 : [e EXCEPT !.accepted = n, !.kind = "feedback"] \in ExecRecord
         /\ \A n \in 0 .. MaxBackoffs : [e EXCEPT !.backoffs = n] \in ExecRecord
         /\ \A n \in 0 .. MaxRejected - 1, m \in 0 .. MaxRejected :
              [e EXCEPT !.rejected = n, !.rejections = m, !.kind = "feedback"] \in ExecRecord
         /\ \A n \in 0 .. MaxRejected - 1 : [e EXCEPT !.at = "record", !.rejected = n] \in ExecRecord
<1>1. "record" \in ExecSteps /\ "feedback" \in Kinds
  BY DEF ExecSteps, Kinds
<1>2. \A at \in ExecSteps : [e EXCEPT !.at = at] \in ExecRecord
  BY DEF ExecRecord
<1>3. \A at \in ExecSteps, error \in Errors \cup {"none", "structured"} :
        [e EXCEPT !.error = error, !.at = at] \in ExecRecord
  BY DEF ExecRecord
<1>4. \A n \in 0 .. MaxTurns - 1 : [e EXCEPT !.accepted = n, !.kind = "feedback"] \in ExecRecord
  BY <1>1 DEF ExecRecord
<1>5. \A n \in 0 .. MaxBackoffs : [e EXCEPT !.backoffs = n] \in ExecRecord
  BY DEF ExecRecord
<1>6. \A n \in 0 .. MaxRejected - 1, m \in 0 .. MaxRejected :
        [e EXCEPT !.rejected = n, !.rejections = m, !.kind = "feedback"] \in ExecRecord
  BY <1>1 DEF ExecRecord
<1>7. \A n \in 0 .. MaxRejected - 1 : [e EXCEPT !.at = "record", !.rejected = n] \in ExecRecord
  BY <1>1 DEF ExecRecord
<1> QED
  BY <1>2, <1>3, <1>4, <1>5, <1>6, <1>7

LEMMA AgainTyped ==
  ASSUME NEW e \in ExecRecord
  PROVE  /\ Again(e) \in ExecRecord
         /\ Again(e).rejections = e.rejections /\ Again(e).rejected = e.rejected
<1>1. "open" \in ExecSteps
  BY DEF ExecSteps
<1> QED
  BY <1>1 DEF Again, ExecRecord

(* What a step of an attempt puts into the execution.                       *)
LEMMA AttemptTyped ==
  ASSUME Typed, Sessions, Paid, AttemptStep
  PROVE  exec' \in ExecRecord /\ exec'.rejections <= exec'.rejected
<1> USE DEF Goto, Return
<1>0. exec \in ExecRecord /\ exec.rejections <= exec.rejected
  BY DEF Typed
<1>s. {"open", "reserve", "submit", "refer", "await", "settle", "handle", "intent", "record", "lose"}
      \subseteq ExecSteps
  BY DEF ExecSteps
<1>1. CASE exec' = Idle
  BY <1>1, IdleRecord
<1>2. CASE \E error \in Errors \cup {"structured"} : Failed(error)
  <2>1. PICK error \in Errors \cup {"structured"} : Failed(error)
    BY <1>2
  <2>2. PICK at \in ExecSteps : exec' = [exec EXCEPT !.error = error, !.at = at]
    BY <1>s, <2>1 DEF Failed
  <2>3. exec' \in ExecRecord
    BY <1>0, <2>2, Updated
  <2>4. exec'.rejections = exec.rejections /\ exec'.rejected = exec.rejected
    BY <1>0, <2>2 DEF ExecRecord
  <2> QED
    BY <1>0, <2>3, <2>4
<1>3. CASE Open /\ exec' # Idle /\ exec' = [exec EXCEPT !.at = "reserve", !.opened = exec.gen]
  BY <1>0, <1>s, <1>3 DEF ExecRecord
<1>4. CASE Reserve /\ exec' # Idle
  <2>1. Request \in Requests
    <3>1. exec.gen \in Generations
      BY <1>4 DEF Reserve, Typed, TypeOK, Sessions, InPlace, InSession
    <3>2. feedback \in Nat /\ Len(turns) \in 0 .. Len(turns)
      BY DEF Typed, TypeOK
    <3>3. Prompt \in [gen : Generations, kind : Kinds, turns : 0 .. Len(turns), feedback : Nat,
                      rejections : 0 .. MaxRejected]
      BY <1>0, <3>1, <3>2 DEF Prompt, ExecRecord
    <3> QED
      BY <1>0, <3>3, Constants DEF Request, Requests, ExecRecord
  <2> HIDE DEF Goto
  <2>2. CASE exec' = [exec EXCEPT !.at = "submit"]
    BY <1>0, <1>s, <2>2 DEF ExecRecord
  <2>3. CASE exec' = [exec EXCEPT !.at = "submit", !.request = Request]
    BY <1>0, <1>s, <2>1, <2>3 DEF ExecRecord
  <2> QED
    BY <1>4, <2>2, <2>3 DEF Reserve, Goto
<1>5. CASE Submit \/ Refer \/ NoIntent \/ RunIntent
  <2>1. CASE Refer
    BY <1>0, <1>s, <2>1 DEF Refer, ExecRecord
  <2>2. CASE ~Refer
    <3>1. exec' = [exec EXCEPT !.at = "refer"] \/ exec' = [exec EXCEPT !.at = "record"]
      BY <1>5, <2>2 DEF Submit, NoIntent, RunIntent
    <3>2. PICK at \in ExecSteps : exec' = [exec EXCEPT !.at = at]
      BY <1>s, <3>1
    <3> QED
      BY <1>0, <3>2 DEF ExecRecord
  <2> QED
    BY <2>1, <2>2
<1>6. CASE Answered
  <2>1. PICK answer \in Answers, intent \in Intents, at \in ExecSteps :
          exec' = [exec EXCEPT !.answer = answer, !.intent = intent, !.backoffs = 0, !.at = at]
    <3>1. (IF exec.request = NoRequest THEN "intent" ELSE "settle") \in ExecSteps
      BY <1>s
    <3> QED
      BY <1>6, <3>1 DEF Answered
  <2>2. 0 \in 0 .. MaxBackoffs /\ answer \in Answers \cup {"none"} /\ intent \in Intents \cup {"none"}
    BY Constants
  <2>3. exec' \in ExecRecord
    BY <1>0, <2>1, <2>2 DEF ExecRecord
  <2>4. exec'.rejections = exec.rejections /\ exec'.rejected = exec.rejected
    BY <1>0, <2>1 DEF ExecRecord
  <2> QED
    BY <1>0, <2>3, <2>4
<1>7. CASE SettleAnswered
  <2>1. PICK at \in ExecSteps : exec' = [exec EXCEPT !.at = at]
    BY <1>s, <1>7 DEF SettleAnswered
  <2> QED
    BY <1>0, <2>1 DEF ExecRecord
<1>8. CASE SettleUnsent
  BY <1>0, <1>s, <1>8 DEF SettleUnsent, ExecRecord
<1>9. CASE BackOff
  <2> DEFINE e == [exec EXCEPT !.backoffs = @ + 1]
  <2>1. exec' = Again(e) /\ exec.backoffs + 1 \in 0 .. MaxBackoffs
    BY <1>0, <1>9, Constants DEF BackOff, ExecRecord
  <2>2. e \in ExecRecord
    BY <1>0, <2>1, Updated
  <2>3. e.rejections = exec.rejections /\ e.rejected = exec.rejected
    BY <1>0 DEF ExecRecord
  <2> HIDE DEF e
  <2> QED
    BY <1>0, <2>1, <2>2, <2>3, AgainTyped
<1>10. CASE Correct /\ exec' # Idle
  <2> DEFINE e == [exec EXCEPT !.rejected = @ + 1, !.rejections = @ + 1, !.kind = "feedback"]
  <2>1. /\ exec' = Again(e) /\ exec.rejected + 1 \in 0 .. MaxRejected - 1
        /\ exec.rejections + 1 \in 0 .. MaxRejected
    <3>1. exec' = Again(e) /\ ~(exec.rejected + 1 >= MaxRejected)
      BY <1>10 DEF Correct
    <3> QED
      BY <1>0, <3>1, Constants DEF ExecRecord
  <2>2. e \in ExecRecord
    BY <1>0, <2>1, Updated
  <2>3. e.rejections = exec.rejections + 1 /\ e.rejected = exec.rejected + 1
    BY <1>0 DEF ExecRecord
  <2>4. exec.rejections + 1 <= exec.rejected + 1
    BY <1>0, Constants DEF ExecRecord
  <2> HIDE DEF e
  <2> QED
    BY <2>1, <2>2, <2>3, <2>4, AgainTyped
<1>11. CASE Recover
  <2>1. exec.recoveries + 1 \in 0 .. MaxRecoveries /\ exec.identityless + Unknown \in 0 .. 1
    BY <1>0, <1>11, Constants DEF Recover, MayRecover, Unknown, ExecRecord
  <2>2. exec' = [exec EXCEPT !.at = "lose", !.recoveries = @ + 1, !.submitted = "no",
                             !.identityless = @ + Unknown, !.request = NoRequest]
    BY <1>11 DEF Recover
  <2> QED
    BY <1>0, <1>s, <2>1, <2>2 DEF ExecRecord
<1>12. CASE RefuseIntent /\ exec' # Idle
  <2>1. exec' = [exec EXCEPT !.at = "record", !.rejected = @ + 1] /\ ~(exec.rejected + 1 >= MaxRejected)
    BY <1>12 DEF RefuseIntent
  <2>2. exec.rejected + 1 \in 0 .. MaxRejected - 1 /\ 0 \in 0 .. MaxRejected
    BY <1>0, <2>1, Constants DEF ExecRecord
  <2>3. exec' \in ExecRecord
    BY <1>0, <2>1, <2>2, Updated
  <2>4. exec'.rejections = exec.rejections /\ exec'.rejected = exec.rejected + 1
    BY <1>0, <2>1 DEF ExecRecord
  <2> QED
    BY <1>0, <2>3, <2>4, Constants DEF ExecRecord
<1>13. CASE RecordTurn /\ exec' # Idle
  <2> DEFINE e == [exec EXCEPT !.accepted = @ + 1, !.kind = "feedback"]
  <2>1. exec' = Again(e) /\ exec.accepted + 1 < MaxTurns
    BY <1>13 DEF RecordTurn
  <2>2. exec.accepted + 1 \in 0 .. MaxTurns - 1
    BY <1>0, <2>1, Constants DEF ExecRecord
  <2>3. e \in ExecRecord
    BY <1>0, <2>2, Updated
  <2>4. e.rejections = exec.rejections /\ e.rejected = exec.rejected
    BY <1>0 DEF ExecRecord
  <2> HIDE DEF e
  <2> QED
    BY <1>0, <2>1, <2>3, <2>4, AgainTyped
<1>14. CASE SubmitFails \/ Malformed \/ AwaitFails \/ Open
  BY <1>1, <1>2, <1>3, <1>14 DEF SubmitFails, Malformed, AwaitFails, Open
<1> QED
  BY <1>1, <1>4, <1>5, <1>6, <1>7, <1>8, <1>9, <1>10, <1>11, <1>12, <1>13, <1>14
  DEF AttemptStep, SettleUnknown, Limited, BrowserFails, RecoveryRefused, AnswerFails

(* What the steps of the session, the proposals and a crash put into it.    *)
LEMMA ExecTyped ==
  ASSUME Typed, Sessions, Sessions', Paid, pointer' \in Generations \cup {0}, [Next]_vars
  PROVE  exec' \in ExecRecord /\ exec'.rejections <= exec'.rejected
<1> USE DEF Goto, Return, execFrame
<1>0. exec \in ExecRecord /\ exec.rejections <= exec.rejected
  BY DEF Typed
<1>s. {"ensure", "replace", "point", "open"} \subseteq ExecSteps
  BY DEF ExecSteps
<1>1. CASE exec' = Idle
  BY <1>1, IdleRecord
<1>2. CASE UNCHANGED exec
  BY <1>0, <1>2
<1>3. CASE AttemptStep
  BY <1>3, AttemptTyped
<1>4. ASSUME NEW at \in ExecSteps, exec' = [exec EXCEPT !.at = at]
      PROVE  exec' \in ExecRecord /\ exec'.rejections <= exec'.rejected
  BY <1>0, <1>4 DEF ExecRecord
<1>5. CASE CreateSession
  <2>1. pointer \in Generations \cup {0}
    BY DEF Typed, TypeOK
  <2> QED
    BY <1>0, <1>s, <1>5, <2>1 DEF CreateSession, ExecRecord
<1>6. ASSUME NEW g \in Generations, g = pointer', exec' = Loaded(g)
      PROVE  exec' \in ExecRecord /\ exec'.rejections <= exec'.rejected
  <2>1. g - 1 \in 0 .. MaxRecoveries
    <3>1. pointer' <= MaxRecoveries + 1
      BY DEF Sessions, InOrder
    <3>2. g <= MaxRecoveries + 1
      BY <1>6, <3>1
    <3> QED
      BY <3>2, Constants DEF Generations
  <2>2. PICK kind \in Kinds : exec' = [Idle EXCEPT !.at = "open", !.gen = g, !.recoveries = g - 1, !.kind = kind]
    BY <1>6 DEF Loaded, Kinds
  <2>3. exec' \in ExecRecord
    BY <1>s, <2>1, <2>2, IdleRecord DEF ExecRecord
  <2>4. exec'.rejections = 0 /\ exec'.rejected = 0
    BY <2>2 DEF Idle
  <2> QED
    BY <2>3, <2>4
<1>7. CASE Repair
  <2>1. exec' = Idle \/ \E g \in Generations : g = pointer' /\ exec' = Loaded(g)
    BY <1>7 DEF Repair, Ready
  <2> QED
    BY <1>1, <1>6, <2>1
<1>8. CASE Point
  <2>1. exec.gen + 1 = pointer' /\ pointer' \in Generations
    BY <1>0, <1>8, Constants DEF Point, ExecRecord, Generations
  <2>2. CASE exec.error = "none"
    BY <1>6, <1>8, <2>1, <2>2 DEF Point
  <2>3. CASE exec.error # "none"
    <3>1. "recovery" \in Kinds /\ 0 \in Generations \cup {0}
      BY DEF Kinds
    <3>2. exec' = [exec EXCEPT !.at = "open", !.gen = pointer', !.kind = "recovery", !.opened = 0,
                               !.error = "none", !.request = NoRequest]
      BY <1>8, <2>1, <2>3 DEF Point
    <3> QED
      BY <1>0, <1>s, <2>1, <3>1, <3>2 DEF ExecRecord
  <2> QED
    BY <2>2, <2>3
<1>9. CASE Execute \/ Lose \/ Replace
  BY <1>4, <1>s, <1>9 DEF Execute, Lose, Replace
<1> QED
  BY <1>1, <1>2, <1>3, <1>5, <1>7, <1>8, <1>9
  DEF Next, SessionStep, Propose, ProposalStep, ProposalOpens, ProposalSubmits, ProposalUnknown,
      ProposalAnswered, SaveProposal, proposalFrame, Crash, vars

(* The other files, and the browser driver.                                 *)
LEMMA StoresTyped ==
  ASSUME Typed, Sessions, Paid, [Next]_vars
  PROVE  /\ owner' \in Owners
         /\ session' \in [Generations -> {"absent", "ready", "lost"}]
         /\ pointer' \in Generations \cup {0} /\ known' \subseteq Generations
         /\ feedback' \in Nat
         /\ driver' = [prompts |-> driver'.prompts, pending |-> driver'.pending]
         /\ driver'.pending \subseteq Generations
         /\ turns' \in Seq(AnyRequest) /\ Len(turns') >= Len(turns)
<1> USE DEF stores, execFrame, handleFrame, proposalFrame, Goto, Return
<1>0. /\ owner \in Owners /\ session \in [Generations -> {"absent", "ready", "lost"}]
      /\ pointer \in Generations \cup {0} /\ known \subseteq Generations /\ feedback \in Nat
      /\ driver = [prompts |-> driver.prompts, pending |-> driver.pending]
      /\ driver.pending \subseteq Generations
      /\ turns \in Seq(AnyRequest) /\ exec \in ExecRecord
  BY DEF Typed, TypeOK
<1>1. Len(turns) \in Nat
  BY <1>0
<1>2. CASE UNCHANGED <<owner, stores, driver>>
  BY <1>0, <1>1, <1>2
<1>3. CASE Lose \/ Replace
  <2>1. \E g : session' = [session EXCEPT ![g] = "lost"] \/ session' = [session EXCEPT ![g] = "ready"]
    BY <1>3 DEF Lose, Replace
  <2>2. session' \in [Generations -> {"absent", "ready", "lost"}]
    BY <1>0, <2>1
  <2> QED
    BY <1>0, <1>1, <1>3, <2>2 DEF Lose, Replace
<1>4. CASE Repair
  BY <1>0, <1>1, <1>4 DEF Repair, Ready
<1>5. CASE Point
  <2>1. exec.gen = pointer /\ (pointer = 0 \/ session[pointer] = "lost")
    BY <1>5 DEF Point, Sessions, InPlace
  <2>2. pointer + 1 \in Generations
    BY <1>0, <2>1, Constants DEF Sessions, InOrder, Generations
  <2>3. pointer' \in Generations
    BY <1>5, <2>1, <2>2 DEF Point
  <2> QED
    BY <1>0, <1>1, <1>5, <2>3 DEF Point
<1>6. CASE Submit \/ Refer
  <2>1. exec.gen \in Generations
    BY <1>0, <1>6 DEF Submit, Refer, Sessions, InPlace, InSession
  <2>2. CASE Submit
    BY <1>0, <1>1, <2>1, <2>2 DEF Submit
  <2>3. CASE Refer
    BY <1>0, <1>1, <2>1, <2>3 DEF Refer
  <2> QED
    BY <1>6, <2>2, <2>3
<1>7. CASE Answered \/ Malformed
  <2>1. /\ driver' = [driver EXCEPT !.pending = driver.pending \ {exec.gen}]
        /\ UNCHANGED <<owner, stores>>
    BY <1>7 DEF Answered, Malformed
  <2>2. /\ driver'.pending = driver.pending \ {exec.gen}
        /\ driver' = [prompts |-> driver'.prompts, pending |-> driver'.pending]
    BY <1>0, <2>1
  <2> QED
    BY <1>0, <1>1, <2>1, <2>2
<1>8. CASE RunIntent
  BY <1>0, <1>1, <1>8 DEF RunIntent
<1>9. CASE RecordTurn
  <2>1. exec.request \in AnyRequest
    <3>1. 0 .. Len(turns) \subseteq Nat
      BY <1>1
    <3>2. Requests \subseteq AnyRequest
      BY <3>1 DEF Requests, AnyRequest
    <3> QED
      BY <1>0, <3>2 DEF ExecRecord, AnyRequest
  <2>2. turns' = Append(turns, exec.request) /\ UNCHANGED <<owner, session, pointer, known, driver>>
    BY <1>9 DEF RecordTurn
  <2>3. turns' \in Seq(AnyRequest) /\ Len(turns') >= Len(turns)
    BY <1>0, <1>1, <2>1, <2>2
  <2>4. feedback' \in Nat
    BY <1>0, <1>9 DEF RecordTurn
  <2> QED
    BY <1>0, <2>2, <2>3, <2>4
<1>10. CASE Crash
  <2>1. driver' = [prompts |-> {}, pending |-> {}] /\ UNCHANGED <<owner, stores>>
    BY <1>10 DEF Crash, Fresh
  <2> QED
    BY <1>0, <1>1, <2>1
<1> QED
  BY <1>2, <1>3, <1>4, <1>5, <1>6, <1>7, <1>8, <1>9, <1>10
  DEF Next, Execute, SessionStep, CreateSession, AttemptStep, Open, Reserve, SubmitFails, AwaitFails,
      SettleAnswered, SettleUnknown, SettleUnsent, BackOff, Limited, BrowserFails, Correct, Recover,
      RecoveryRefused, NoIntent, RefuseIntent, AnswerFails, Propose, ProposalStep, ProposalOpens,
      ProposalSubmits, ProposalUnknown, ProposalAnswered, SaveProposal, vars

(* The requests of the budget file.                                         *)
BudgetTyped ==
  /\ IsFiniteSet(DOMAIN budget) /\ Cardinality(DOMAIN budget) <= Limit
  /\ \A q \in DOMAIN budget : budget[q] \in Charges

LEMMA ChargeTyped ==
  ASSUME BudgetTyped, NEW request, NEW state \in Charges, Charge(request, state),
         request \in DOMAIN budget \/ ~Exhausted
  PROVE  BudgetTyped' /\ DOMAIN budget' = DOMAIN budget \cup {request}
<1>1. /\ DOMAIN budget' = DOMAIN budget \cup {request}
      /\ \A q \in DOMAIN budget' : budget'[q] \in Charges
  BY DEF Charge, BudgetTyped
<1>2. CASE request \in DOMAIN budget
  <2>1. DOMAIN budget' = DOMAIN budget
    BY <1>1, <1>2
  <2> QED
    BY <1>1, <2>1 DEF BudgetTyped
<1>3. CASE request \notin DOMAIN budget
  <2>1. IsFiniteSet(DOMAIN budget) /\ Cardinality(DOMAIN budget) \in Nat
    BY FS_CardinalityType DEF BudgetTyped
  <2>2. /\ IsFiniteSet(DOMAIN budget \cup {request})
        /\ Cardinality(DOMAIN budget \cup {request}) = Cardinality(DOMAIN budget) + 1
    BY <1>3, <2>1, FS_AddElement
  <2>3. Cardinality(DOMAIN budget) < Limit
    BY <1>3, <2>1, Constants DEF Exhausted
  <2>4. Cardinality(DOMAIN budget) + 1 <= Limit
    BY <2>1, <2>3, Constants
  <2> QED
    BY <1>1, <2>2, <2>4 DEF BudgetTyped
<1> QED
  BY <1>2, <1>3

LEMMA ReleaseTyped ==
  ASSUME BudgetTyped, NEW request, Release(request)
  PROVE  BudgetTyped' /\ DOMAIN budget' = DOMAIN budget \ {request}
<1>1. /\ DOMAIN budget' = DOMAIN budget \ {request}
      /\ \A q \in DOMAIN budget' : budget'[q] \in Charges
  BY DEF Release, BudgetTyped
<1>2. /\ IsFiniteSet(DOMAIN budget \ {request})
      /\ Cardinality(DOMAIN budget \ {request}) <= Cardinality(DOMAIN budget)
      /\ Cardinality(DOMAIN budget \ {request}) \in Nat /\ Cardinality(DOMAIN budget) \in Nat
  BY FS_Subset, FS_CardinalityType DEF BudgetTyped
<1>3. Cardinality(DOMAIN budget \ {request}) <= Limit
  BY <1>2, Constants DEF BudgetTyped
<1> QED
  BY <1>1, <1>2, <1>3 DEF BudgetTyped

LEMMA BudgetStep ==
  ASSUME Typed, Sessions, Paid, Len(turns') >= Len(turns), [Next]_vars
  PROVE  /\ DOMAIN budget' \subseteq Requests' /\ BudgetTyped'
         /\ \A q : q \in Requests => q \in Requests'
<1> USE DEF stores, execFrame, handleFrame, proposalFrame, Goto, Return
<1>0. BudgetTyped /\ DOMAIN budget \subseteq Requests /\ exec \in ExecRecord
      /\ Len(turns) \in Nat /\ feedback \in Nat /\ proposal.attempt \in Nat
  BY DEF Typed, TypeOK, BudgetTyped
<1>1. Requests \subseteq Requests'
  BY <1>0 DEF Requests, Generations
<1>2. CASE UNCHANGED budget
  BY <1>0, <1>1, <1>2 DEF BudgetTyped
<1>3. ASSUME NEW request \in Requests, NEW state \in Charges, Charge(request, state),
             request \in DOMAIN budget \/ ~Exhausted
      PROVE  DOMAIN budget' \subseteq Requests' /\ BudgetTyped'
  <2>1. BudgetTyped' /\ DOMAIN budget' = DOMAIN budget \cup {request}
    BY <1>0, <1>3, ChargeTyped
  <2> QED
    BY <1>0, <1>1, <2>1
<1>4. ASSUME NEW request, Release(request)
      PROVE  DOMAIN budget' \subseteq Requests' /\ BudgetTyped'
  BY <1>0, <1>1, <1>4, ReleaseTyped
<1>5. CASE Reserve /\ budget' # budget
  <2>1. Request \in Requests
    <3>1. exec.gen \in Generations
      BY <1>5 DEF Reserve, Typed, TypeOK, Sessions, InPlace, InSession
    <3>2. Prompt \in [gen : Generations, kind : Kinds, turns : 0 .. Len(turns), feedback : Nat,
                      rejections : 0 .. MaxRejected]
      BY <1>0, <3>1 DEF Prompt, ExecRecord
    <3> QED
      BY <1>0, <3>2, Constants DEF Request, Requests, ExecRecord
  <2>2. Charge(Request, "reserved") /\ ~Exhausted
    BY <1>5 DEF Reserve
  <2> QED
    BY <1>1, <1>3, <2>1, <2>2 DEF Charges
<1>6. CASE SettleAnswered \/ SettleUnknown
  <2>1. exec.request \in DOMAIN budget
    BY <1>6 DEF SettleAnswered, SettleUnknown, Paid, Charged, Reserved
  <2>2. Charge(exec.request, "consumed") \/ Charge(exec.request, "unknown")
    BY <1>6 DEF SettleAnswered, SettleUnknown
  <2> QED
    BY <1>0, <1>1, <1>3, <2>1, <2>2 DEF Charges
<1>7. CASE SettleUnsent
  BY <1>1, <1>4, <1>7 DEF SettleUnsent
<1>8. ProposalRequest \in Requests
  BY <1>0 DEF ProposalRequest, Requests
<1>9. CASE Propose /\ budget' # budget
  <2>1. Charge(ProposalRequest, "reserved") /\ ~Exhausted
    BY <1>9 DEF Propose
  <2> QED
    BY <1>1, <1>3, <1>8, <2>1 DEF Charges
<1>10. CASE ProposalUnknown \/ ProposalAnswered
  <2>1. ProposalRequest \in DOMAIN budget
    BY <1>10 DEF ProposalUnknown, ProposalAnswered, Paid, Proposed
  <2>2. Charge(ProposalRequest, "consumed") \/ Charge(ProposalRequest, "unknown")
    BY <1>10 DEF ProposalUnknown, ProposalAnswered
  <2> QED
    BY <1>1, <1>3, <1>8, <2>1, <2>2 DEF Charges
<1>11. CASE ProposalOpens /\ budget' # budget
  BY <1>1, <1>4, <1>11 DEF ProposalOpens
<1> QED
  BY <1>1, <1>2, <1>5, <1>6, <1>7, <1>9, <1>10, <1>11
  DEF Next, Execute, SessionStep, Repair, CreateSession, Lose, Replace, Point, AttemptStep, Open,
      Submit, SubmitFails, Refer, Answered, Malformed, AwaitFails, BackOff, Limited, BrowserFails,
      Correct, Recover, RecoveryRefused, NoIntent, RefuseIntent, RunIntent, AnswerFails, RecordTurn,
      ProposalStep, ProposalSubmits, SaveProposal, Crash, vars

(* A proposal's record.                                                     *)
LEMMA ProposalTyped ==
  ASSUME Typed, [Next]_vars
  PROVE  /\ proposal' = [at |-> proposal'.at, attempt |-> proposal'.attempt]
         /\ proposal'.attempt \in Nat
         /\ proposal'.at \in {"idle", "open", "submit", "await", "save", "blocked"}
<1> USE DEF execFrame, handleFrame, Proposing
<1>0. /\ proposal = [at |-> proposal.at, attempt |-> proposal.attempt] /\ proposal.attempt \in Nat
      /\ proposal.at \in {"idle", "open", "submit", "await", "save", "blocked"}
  BY DEF Typed, TypeOK
<1>1. CASE UNCHANGED proposal
  BY <1>0, <1>1
<1>2. CASE Propose \/ ProposalOpens
  BY <1>0, <1>2 DEF Propose, ProposalOpens
<1>3. CASE ProposalSubmits \/ ProposalUnknown \/ ProposalAnswered
  BY <1>0, <1>3 DEF ProposalSubmits, ProposalUnknown, ProposalAnswered
<1>4. CASE SaveProposal
  BY <1>0, <1>4 DEF SaveProposal
<1>5. CASE Crash
  <2>1. proposal' = [proposal EXCEPT !.at = IF proposal.at = "blocked" THEN "blocked" ELSE "idle"]
    BY <1>5 DEF Crash
  <2> QED
    BY <1>0, <2>1
<1> QED
  BY <1>1, <1>2, <1>3, <1>4, <1>5
  DEF Next, Execute, SessionStep, Repair, CreateSession, Lose, Replace, Point, AttemptStep, Open,
      Reserve, Submit, SubmitFails, Refer, Answered, Malformed, AwaitFails, SettleAnswered,
      SettleUnknown, SettleUnsent, BackOff, Limited, BrowserFails, Correct, Recover, RecoveryRefused,
      NoIntent, RefuseIntent, RunIntent, AnswerFails, RecordTurn, ProposalStep, vars

(* What an execution returns.                                               *)
LEMMA OutcomeTyped ==
  ASSUME Typed, [Next]_vars
  PROVE  outcome' \in Outcomes \cup {"none"}
<1> USE DEF handleFrame, proposalFrame, Goto, Return
<1>0. outcome \in Outcomes \cup {"none"} /\ exec \in ExecRecord
  BY DEF Typed, TypeOK
<1>1. CASE UNCHANGED outcome
  BY <1>0, <1>1
<1>2. CASE Execute \/ Repair
  BY <1>0, <1>2 DEF Execute, Repair, Outcomes
<1>3. CASE AttemptStep /\ ~Recover
  BY <1>0, <1>3, AttemptStays
<1> QED
  BY <1>1, <1>2, <1>3
  DEF Next, SessionStep, CreateSession, Lose, Replace, Point, Recover, Propose, ProposalStep,
      ProposalOpens, ProposalSubmits, ProposalUnknown, ProposalAnswered, SaveProposal, Crash, vars

LEMMA TypedStep ==
  ASSUME Typed, Sessions, Paid, [Next]_vars
  PROVE  Typed'
<1>1. Sessions'
  BY SessionsStep
<1>2. pointer' \in Generations \cup {0} /\ Len(turns') >= Len(turns)
  BY StoresTyped
<1>3. exec' \in ExecRecord /\ exec'.rejections <= exec'.rejected
  BY <1>1, <1>2, ExecTyped
<1>4. BudgetTyped' /\ DOMAIN budget' \subseteq Requests' /\ Requests \subseteq Requests'
  BY <1>2, BudgetStep
<1>5. exec' \in ExecRecord'
  BY <1>3, <1>4 DEF ExecRecord, ExecSteps, Generations, Kinds
<1>6. /\ exec'.at \in ExecSteps /\ exec'.gen \in Generations \cup {0} /\ exec'.kind \in Kinds
      /\ exec'.accepted \in 0 .. MaxTurns - 1 /\ exec'.rejected \in 0 .. MaxRejected - 1
      /\ exec'.recoveries \in 0 .. MaxRecoveries /\ exec'.backoffs \in 0 .. MaxBackoffs
      /\ exec'.identityless \in 0 .. 1 /\ exec'.request \in Requests' \cup {NoRequest}
  BY <1>3, <1>4 DEF ExecRecord
<1>7. outcome' \in Outcomes \cup {"none"}
  BY OutcomeTyped
<1>8. TypeOK'
  BY <1>4, <1>6, <1>7, StoresTyped, ProposalTyped DEF TypeOK, BudgetTyped
<1>9. (turns \in Seq(AnyRequest))'
  BY StoresTyped DEF AnyRequest, Generations, Kinds
<1> QED
  BY <1>3, <1>4, <1>5, <1>8, <1>9, StoresTyped, ProposalTyped DEF Typed, BudgetTyped

----------------------------------------------------------------------------
(* The inductive invariant.                                                 *)
Inv == Typed /\ Sessions /\ Paid

LEMMA InvInit == Init => Inv
<1> SUFFICES ASSUME Init PROVE Inv
  OBVIOUS
<1>1. exec \in ExecRecord /\ exec.rejections <= exec.rejected
  BY IdleRecord DEF Init
<1>2. budget = <<>> /\ turns = <<>> /\ DOMAIN budget = {} /\ feedback = 0
  BY DEF Init
<1>3. IsFiniteSet(DOMAIN budget) /\ Cardinality(DOMAIN budget) <= Limit
  BY <1>2, FS_EmptySet, Constants
<1>4. /\ exec.at \in ExecSteps /\ exec.gen \in Generations \cup {0} /\ exec.kind \in Kinds
      /\ exec.accepted \in 0 .. MaxTurns - 1 /\ exec.rejected \in 0 .. MaxRejected - 1
      /\ exec.recoveries \in 0 .. MaxRecoveries /\ exec.backoffs \in 0 .. MaxBackoffs
      /\ exec.identityless \in 0 .. 1 /\ exec.request \in Requests \cup {NoRequest}
  BY <1>1 DEF ExecRecord
<1>5. TypeOK
  BY <1>2, <1>3, <1>4 DEF Init, TypeOK, Fresh
<1>6. Typed
  BY <1>1, <1>2, <1>3, <1>5 DEF Typed, Init, Fresh
<1>7. Sessions
  BY Constants DEF Init, Idle, Sessions, InOrder, InPlace, InSession, Generations
<1> QED
  BY <1>6, <1>7, PaidInit DEF Inv

LEMMA InvStep == Inv /\ [Next]_vars => Inv'
BY TypedStep, SessionsStep, PaidStep DEF Inv

LEMMA InvHolds == Spec => []Inv
BY InvInit, InvStep, PTL DEF Spec

(* Every variable of the stage, its budget and its proposals has its type.  *)
THEOREM WebTyped == Spec => []TypeOK
<1>1. Inv => TypeOK
  BY DEF Inv, Typed
<1> QED
  BY <1>1, InvHolds, PTL

(* request-budget.ts: however often the process ends between a reservation, *)
(* its submission and its settlement, no request is submitted twice and no  *)
(* submission is without a request of the budget.                           *)
THEOREM SentOnce == Spec => []SubmittedOnce
<1>1. Inv => SubmittedOnce
  BY DEF Inv, Paid, Accounted, SubmittedOnce
<1> QED
  BY <1>1, InvHolds, PTL

(* session-store.ts: the three writes of a replacement leave at most one    *)
(* ready session, the pointed one or its successor, wherever they stop.     *)
THEOREM SessionsInLine == Spec => []SessionsFollow
<1>1. ASSUME Inv PROVE SessionsFollow
  <2>1. pointer \in Generations \cup {0} /\ Generations = 1 .. MaxRecoveries + 2
    BY <1>1 DEF Inv, Typed, TypeOK, Generations
  <2>2. \A g \in Ready : g = pointer \/ (g = pointer + 1 /\ (pointer = 0 \/ session[pointer] = "lost"))
    BY <1>1, <2>1, Constants DEF Inv, Sessions, InOrder, Ready
  <2>3. \A g, h \in Ready : g = h
    BY <1>1, <2>1, <2>2, Constants DEF Ready
  <2>4. Cardinality(Ready) <= 1
    <3>1. CASE Ready = {}
      BY <3>1, FS_EmptySet
    <3>2. CASE Ready # {}
      <4>1. PICK g \in Ready : Ready = {g}
        BY <2>3, <3>2
      <4> QED
        BY <4>1, FS_Singleton
    <3> QED
      BY <3>1, <3>2
  <2> QED
    BY <1>1, <2>1, <2>2, <2>4 DEF SessionsFollow, Inv, Sessions
<1> QED
  BY <1>1, InvHolds, PTL

(* web-reasoning-executor.ts: no sequence of restarts opens more sessions   *)
(* than the recoveries allow.                                               *)
THEOREM RecoveriesLimited == Spec => []RecoveriesBounded
<1>1. ASSUME Inv, NEW g \in Generations, session[g] # "absent" PROVE g <= MaxRecoveries + 1
  <2>1. pointer \in Generations \cup {0} /\ Generations = 1 .. MaxRecoveries + 2
        /\ pointer <= MaxRecoveries + 1
    BY <1>1 DEF Inv, Typed, TypeOK, Generations, Sessions, InOrder
  <2>2. g <= pointer + 1
    BY <1>1, <2>1, Constants DEF Inv, Sessions, InOrder
  <2>3. CASE g = pointer + 1
    <3>1. session[g] = "ready"
      BY <1>1, <2>3 DEF Inv, Typed, TypeOK, Sessions, InOrder
    <3>2. pointer = 0 \/ (pointer \in Generations /\ session[pointer] = "lost")
      BY <1>1, <2>1, <2>3, <3>1 DEF Inv, Sessions, InOrder
    <3>3. pointer <= MaxRecoveries
      BY <1>1, <2>1, <3>2, Constants DEF Inv, Sessions, InOrder
    <3> QED
      BY <2>1, <2>3, <3>3, Constants
  <2>4. CASE g # pointer + 1
    BY <2>1, <2>2, <2>4, Constants
  <2> QED
    BY <2>3, <2>4
<1>2. Inv => RecoveriesBounded
  BY <1>1 DEF RecoveriesBounded
<1> QED
  BY <1>2, InvHolds, PTL

(* Each turn of an Idea Lab run answers a request of its own, and that      *)
(* request is never given back.                                             *)
THEOREM TurnsPaidFor == Spec => []TurnsPaid
<1>1. Inv => TurnsPaid
  BY DEF Inv, Paid, Accounted, TurnsPaid
<1> QED
  BY <1>1, InvHolds, PTL
=============================================================================
