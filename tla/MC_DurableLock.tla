-------------------------- MODULE MC_DurableLock --------------------------
(***************************************************************************)
(* Instances of DurableLock for TLC: three callers, each in a process of   *)
(* its own or two of them in one process.                                  *)
(***************************************************************************)
EXTENDS DurableLock, TLC

CONSTANTS c1, c2, c3, p1, p2, p3

OwnProcess == c1 :> p1 @@ c2 :> p2 @@ c3 :> p3

SharedProcess == c1 :> p1 @@ c2 :> p2 @@ c3 :> p2
=============================================================================
