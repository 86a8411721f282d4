--------------------------- MODULE MC_ProjectQueue ---------------------------
(***************************************************************************)
(* Small projects for ProjectQueue.                                        *)
(***************************************************************************)
EXTENDS ProjectQueue

Independent == [r \in Requests |-> {}]
LastAfterFirst == [r \in Requests |-> IF r = N THEN {1} ELSE {}]
=============================================================================
