---------------------------- MODULE RunLifecycle ----------------------------
(***************************************************************************)
(* What a development run promises to whoever watches it: it visits the    *)
(* stages one by one and in order, ends for good after the last one, and   *)
(* after a final failure continues only through a retry, at the stage      *)
(* where it failed.  Before any work, in its second stage, a run can be    *)
(* sent back to the first.                                                 *)
(***************************************************************************)
EXTENDS Naturals

CONSTANT LastStage

VARIABLES
  stage,        \* the stage the run has reached
  outcome,      \* "open", "failed" or "done"
  attempts      \* retries of the run

Init == stage \in {1, 2} /\ outcome = "open" /\ attempts = 0

Advance ==
  /\ outcome = "open" /\ stage < LastStage
  /\ stage' = stage + 1
  /\ outcome' = IF stage + 1 = LastStage THEN "done" ELSE "open"
  /\ UNCHANGED attempts

Fail == outcome = "open" /\ outcome' = "failed" /\ UNCHANGED <<stage, attempts>>

Retry ==
  /\ outcome = "failed" /\ outcome' = "open"
  /\ attempts' = attempts + 1
  /\ UNCHANGED stage

Withdraw == outcome = "open" /\ stage = 2 /\ stage' = 1 /\ UNCHANGED <<outcome, attempts>>

Next == Advance \/ Fail \/ Retry \/ Withdraw

Spec == Init /\ [][Next]_<<stage, outcome, attempts>>
=============================================================================
