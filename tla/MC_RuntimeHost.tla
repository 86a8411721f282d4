-------------------------- MODULE MC_RuntimeHost --------------------------
(* Instances of RuntimeHost, by the processes of each command.              *)
EXTENDS RuntimeHost

CONSTANTS starts, recovers, maintains

MCProcs == starts \cup recovers \cup maintains
MCCommand ==
  [p \in MCProcs |->
    CASE p \in starts -> "start" [] p \in recovers -> "recover" [] OTHER -> "maintain"]
=============================================================================
