----------------------------- MODULE JobReceipt -----------------------------
(***************************************************************************)
(* What a desktop job promises to the run it belongs to, whatever happens  *)
(* to connections, leases and processes on the way: it gets one receipt,   *)
(* the receipt says what an execution at the agent really did, and it is   *)
(* never replaced.                                                         *)
(***************************************************************************)
EXTENDS Naturals, Sequences

CONSTANTS NoReceipt,  \* the job has no receipt yet
          Outcomes    \* how an execution of the task pack can end

VARIABLES
  ran,                \* the outcomes of the executions so far, in order
  receipt             \* the receipt of the job

Init == ran = <<>> /\ receipt = NoReceipt

Execute ==
  /\ \E outcome \in Outcomes : ran' = Append(ran, outcome)
  /\ UNCHANGED receipt

(* The receipt of an execution: its outcome, or that its result was lost.   *)
Reported == {[by |-> i, status |-> s] : i \in DOMAIN ran, s \in Outcomes \cup {"error"}}

Truthful(r) ==
  IF r.by = 0 THEN r.status = "completed" /\ \E i \in DOMAIN ran : ran[i] = "completed"
              ELSE r.status \in {ran[r.by], "error"}

Record ==
  /\ receipt = NoReceipt
  /\ \E r \in Reported \cup {[by |-> 0, status |-> "completed"]} :
       Truthful(r) /\ receipt' = r
  /\ UNCHANGED ran

Next == Execute \/ Record

Spec == Init /\ [][Next]_<<ran, receipt>>
=============================================================================
