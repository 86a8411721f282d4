--------------------------- MODULE ExclusiveLock ---------------------------
(***************************************************************************)
(* What every durable lock of the repository promises to its callers: one  *)
(* caller at a time has the lock, and it becomes free only when that very  *)
(* caller releases it.  A caller that cannot release what it holds leaves  *)
(* the lock taken for good.  The promise ends when a caller's process dies *)
(* on the way: from then on locks are reclaimed by guessing.               *)
(***************************************************************************)
CONSTANTS Callers,  \* the calls that compete for one lock path
          Free      \* the lock is held by nobody

VARIABLES
  holder,           \* the caller that took the lock last, or Free
  working,          \* the callers whose task or release is under way
  intact            \* no process has died so far

Init == holder = Free /\ working = {} /\ intact = TRUE

Acquire(c) == holder = Free /\ working = {} /\ holder' = c /\ working' = {c}

Release(c) == holder = c /\ working = {c} /\ holder' = Free /\ working' = {}

Abandon(c) == holder = c /\ working = {c} /\ working' = {} /\ UNCHANGED holder

Next ==
  \/ intact = TRUE /\ intact' = TRUE /\ \E c \in Callers : Acquire(c) \/ Release(c) \/ Abandon(c)
  \/ intact' = FALSE

Spec == Init /\ [][Next]_<<holder, working, intact>>
=============================================================================
