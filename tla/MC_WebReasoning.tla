--------------------------- MODULE MC_WebReasoning ---------------------------
(* The instance: an Idea Lab run, whose budget bounds it, is disturbed more  *)
(* often than a run of the Project Workspace.                               *)
EXTENDS WebReasoning

BothOwners == {"idea-lab", "project"}
Disturbances == [o \in BothOwners |-> IF o = "idea-lab" THEN 4 ELSE 2]
=============================================================================
