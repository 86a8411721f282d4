---------------------------- MODULE DurableLock ----------------------------
(***************************************************************************)
(* The file lock behind every durable store of the repository              *)
(* (src/harness/run-lock.ts; the other *-lock.ts files repeat its text     *)
(* with another path and message).  A caller creates the lock file with    *)
(* open(path, "wx"), writes its pid and token into it, runs the task and   *)
(* removes the file if it still holds its token.  A caller that finds the  *)
(* file reads it, probes the recorded pid and unlinks the PATH when the    *)
(* process is gone.  Every await is a step of its own here, so other       *)
(* processes run in between.                                               *)
(***************************************************************************)
EXTENDS Naturals

CONSTANTS
  Callers,      \* calls of withDurableHarnessRunLock on one path
  Processes,    \* operating-system processes (a pid is never reused)
  ProcessOf,    \* ProcessOf[c]: the process that runs caller c
  Mortal,       \* the processes that may exit or be killed
  MaxCalls,     \* bound: calls a caller makes in a behaviour
  MaxFaults,    \* bound: failed opens and record writes in a behaviour
  NoFile,       \* the lock path does not exist
  NoOne         \* no owner read

ASSUME LockAssumption ==
  /\ ProcessOf \in [Callers -> Processes]
  /\ Mortal \subseteq Processes
  /\ MaxCalls \in Nat
  /\ MaxFaults \in Nat
  /\ NoOne \notin Callers
  /\ NoFile \notin [owner : Callers, content : {"empty", "record"}]

VARIABLES
  lockFile,     \* what the path names: NoFile, or the file its creator made,
                \* empty until the record (pid, token) is written
  pc,           \* where each caller is in the lock protocol
  seen,         \* the owner each caller read from the file it found
  alive,        \* the processes that process.kill(pid, 0) finds
  calls,        \* calls made by each caller
  faults        \* failed opens and record writes so far

vars == <<lockFile, pc, seen, alive, calls, faults>>

File == [owner : Callers, content : {"empty", "record"}]

Steps == {"idle", "open", "read", "probe", "unlink", "wait",
          "created", "inside", "release", "remove", "dead"}

TypeOK ==
  /\ lockFile \in File \cup {NoFile}
  /\ pc \in [Callers -> Steps]
  /\ seen \in [Callers -> Callers \cup {NoOne}]
  /\ alive \subseteq Processes
  /\ calls \in [Callers -> Nat]
  /\ faults \in Nat

Init ==
  /\ lockFile = NoFile
  /\ pc = [c \in Callers |-> "idle"]
  /\ seen = [c \in Callers |-> NoOne]
  /\ alive = Processes
  /\ calls = [c \in Callers |-> 0]
  /\ faults = 0

OwnedBy(c) == lockFile # NoFile /\ lockFile.owner = c

Goto(c, step) == pc' = [pc EXCEPT ![c] = step]

Call(c) ==
  /\ pc[c] = "idle"
  /\ calls[c] < MaxCalls
  /\ calls' = [calls EXCEPT ![c] = @ + 1]
  /\ Goto(c, "open")
  /\ UNCHANGED <<lockFile, seen, alive, faults>>

(* open(path, "wx"): exclusive creation of an empty file, or EEXIST. *)
Open(c) ==
  /\ pc[c] = "open"
  /\ \/ /\ lockFile = NoFile
        /\ lockFile' = [owner |-> c, content |-> "empty"]
        /\ Goto(c, "created")
     \/ /\ lockFile # NoFile
        /\ Goto(c, "read")
        /\ UNCHANGED lockFile
  /\ UNCHANGED <<seen, alive, calls, faults>>

(* open fails with EPERM while the deletion of the previous file is still   *)
(* pending, and the path is gone when it is probed: wait like a loser.      *)
OpenDenied(c) ==
  /\ pc[c] = "open"
  /\ lockFile = NoFile
  /\ faults < MaxFaults
  /\ faults' = faults + 1
  /\ Goto(c, "wait")
  /\ UNCHANGED <<lockFile, seen, alive, calls>>

(* Fault: a file without a record is taken for a dead owner's. *)
ReadReclaimingEmpty(c) ==
  /\ pc[c] = "read"
  /\ seen' = IF lockFile = NoFile THEN seen ELSE [seen EXCEPT ![c] = lockFile.owner]
  /\ Goto(c, IF lockFile = NoFile THEN "open"
             ELSE IF lockFile.content = "empty" THEN "unlink" ELSE "probe")
  /\ UNCHANGED <<lockFile, alive, calls, faults>>

(* Fault: an unreadable record is tried again at once, deadline or not. *)
ReadRetrying(c) ==
  /\ pc[c] = "read"
  /\ seen' = IF lockFile = NoFile THEN seen ELSE [seen EXCEPT ![c] = lockFile.owner]
  /\ Goto(c, IF lockFile = NoFile \/ lockFile.content = "empty" THEN "open" ELSE "probe")
  /\ UNCHANGED <<lockFile, alive, calls, faults>>

(* removeDeadOwnerLock reads the record: a missing file means try again, a  *)
(* record that does not parse belongs to nobody who could be declared dead. *)
Read(c) ==
  /\ pc[c] = "read"
  /\ \/ /\ lockFile = NoFile
        /\ Goto(c, "open")
        /\ UNCHANGED seen
     \/ /\ lockFile # NoFile /\ lockFile.content = "empty"
        /\ Goto(c, "wait")
        /\ UNCHANGED seen
     \/ /\ lockFile # NoFile /\ lockFile.content = "record"
        /\ seen' = [seen EXCEPT ![c] = lockFile.owner]
        /\ Goto(c, "probe")
  /\ UNCHANGED <<lockFile, alive, calls, faults>>

(* Faults: every recorded process counts as dead, or as alive. *)
ProbeFindsDead(c) ==
  /\ pc[c] = "probe" /\ Goto(c, "unlink")
  /\ seen' = [seen EXCEPT ![c] = NoOne]
  /\ UNCHANGED <<lockFile, alive, calls, faults>>

ProbeFindsAlive(c) ==
  /\ pc[c] = "probe" /\ Goto(c, "wait")
  /\ seen' = [seen EXCEPT ![c] = NoOne]
  /\ UNCHANGED <<lockFile, alive, calls, faults>>

(* processIsAlive(pid) of the record that was read. *)
Probe(c) ==
  /\ pc[c] = "probe"
  /\ Goto(c, IF ProcessOf[seen[c]] \in alive THEN "wait" ELSE "unlink")
  /\ seen' = [seen EXCEPT ![c] = NoOne]
  /\ UNCHANGED <<lockFile, alive, calls, faults>>

(* unlink(path) removes whatever the path names by now; ENOENT counts as    *)
(* removed.  The caller then tries to create the file again.                *)
Unlink(c) ==
  /\ pc[c] = "unlink"
  /\ lockFile' = NoFile
  /\ Goto(c, "open")
  /\ UNCHANGED <<seen, alive, calls, faults>>

(* The poll interval passed: try again. *)
Poll(c) ==
  /\ pc[c] = "wait"
  /\ Goto(c, "open")
  /\ UNCHANGED <<lockFile, seen, alive, calls, faults>>

(* waitForMs is zero or the deadline passed: "concurrency conflict". *)
GiveUp(c) ==
  /\ pc[c] = "wait"
  /\ Goto(c, "idle")
  /\ UNCHANGED <<lockFile, seen, alive, calls, faults>>

(* The record goes through the handle to the file this caller created,      *)
(* whether or not the path still names it.                                  *)
WriteRecord(c) ==
  /\ pc[c] = "created"
  /\ lockFile' = IF OwnedBy(c) THEN [lockFile EXCEPT !.content = "record"] ELSE lockFile
  /\ Goto(c, "inside")
  /\ UNCHANGED <<seen, alive, calls, faults>>

(* writeFile throws: the finally clause still runs. *)
WriteFails(c) ==
  /\ pc[c] = "created"
  /\ faults < MaxFaults
  /\ faults' = faults + 1
  /\ Goto(c, "release")
  /\ UNCHANGED <<lockFile, seen, alive, calls>>

(* The task returned or threw. *)
Finish(c) ==
  /\ pc[c] = "inside"
  /\ Goto(c, "release")
  /\ UNCHANGED <<lockFile, seen, alive, calls, faults>>

(* removeOwnedLock reads the file and compares the token. *)
ReleaseRead(c) ==
  /\ pc[c] = "release"
  /\ Goto(c, IF lockFile = [owner |-> c, content |-> "record"] THEN "remove" ELSE "idle")
  /\ UNCHANGED <<lockFile, seen, alive, calls, faults>>

(* removeOwnedLock unlinks the path, whatever it names by now. *)
ReleaseUnlink(c) ==
  /\ pc[c] = "remove"
  /\ lockFile' = NoFile
  /\ Goto(c, "idle")
  /\ UNCHANGED <<seen, alive, calls, faults>>

(* A process exits or is killed: all its callers stop where they are and    *)
(* the file stays on disk.                                                  *)
Die(p) ==
  /\ p \in alive \cap Mortal
  /\ alive' = alive \ {p}
  /\ pc' = [c \in Callers |-> IF ProcessOf[c] = p THEN "dead" ELSE pc[c]]
  /\ UNCHANGED <<lockFile, seen, calls, faults>>

Acquisition(c) ==
  \/ Open(c) \/ Read(c) \/ Probe(c) \/ Unlink(c) \/ Poll(c)
  \/ WriteRecord(c)

ReleaseSteps(c) == ReleaseRead(c) \/ ReleaseUnlink(c)

Next ==
  \/ \E c \in Callers :
       \/ Call(c) \/ Open(c) \/ OpenDenied(c) \/ Read(c) \/ Probe(c) \/ Unlink(c)
       \/ Poll(c) \/ GiveUp(c) \/ WriteRecord(c) \/ WriteFails(c)
       \/ Finish(c) \/ ReleaseRead(c) \/ ReleaseUnlink(c)
  \/ \E p \in Processes : Die(p)

Spec == Init /\ [][Next]_vars

(* The event loop runs every continuation, the tasks end, and the clock     *)
(* reaches the deadline of a caller that keeps waiting.  Nothing forces a   *)
(* caller to call again or a process to die.                                *)
Fairness ==
  \A c \in Callers :
    /\ WF_vars(Acquisition(c))
    /\ WF_vars(Finish(c))
    /\ WF_vars(ReleaseSteps(c))
    /\ SF_vars(GiveUp(c))

FairSpec == Spec /\ Fairness
----------------------------------------------------------------------------
(* The abstract lock: taken by the creator of the file the path names.      *)
Holder == IF lockFile = NoFile THEN NoOne ELSE lockFile.owner

Working == {c \in Callers : pc[c] \in {"created", "inside", "release", "remove"}}

Intact == alive = Processes

Exclusive == INSTANCE ExclusiveLock
  WITH Free <- NoOne, holder <- Holder, working <- Working, intact <- Intact

(* Until a process dies the protocol is an exclusive lock: the file passes  *)
(* from caller to caller only through the holder's own release, and a       *)
(* caller that could not write its record leaves it taken.                  *)
ImplementsExclusiveLock == Exclusive!Spec

(* As long as no process has died, at most one caller is between the        *)
(* creation of the file and its removal: the task of the caller and both    *)
(* steps of removeOwnedLock never overlap with those of another caller.     *)
MutexUntilDeath ==
  alive = Processes =>
    \A c, d \in Callers :
      pc[c] \in {"inside", "remove"} /\ pc[d] \in {"created", "inside", "remove"} => c = d

(* A lock whose record is complete and whose owner process is alive is      *)
(* removed only by its owner: "reclaims only an exact dead-owner lock".     *)
ActiveOwnerProtected ==
  [][\A c \in Callers :
       OwnedBy(c) /\ ProcessOf[c] \in alive /\ ~OwnedBy(c)' => pc[c] = "remove"]_vars

(* The file a dead process left with a complete record does not outlive     *)
(* the attempts of a live caller: one that is trying to open the path       *)
(* reclaims it, unless that caller's process dies too.                      *)
DeadRecord ==
  /\ lockFile # NoFile /\ lockFile.content = "record"
  /\ ProcessOf[lockFile.owner] \notin alive

DeadOwnerReclaimed ==
  \A c \in Callers :
    pc[c] = "open" /\ DeadRecord ~> ~DeadRecord \/ pc[c] = "dead"

(* No caller spins forever: with the bounded number of competing calls of   *)
(* the model every call returns, throws its conflict or dies, also when an  *)
(* unreadable file is left at the path for good.                            *)
EveryCallReturns ==
  \A c \in Callers : pc[c] = "open" ~> pc[c] \in {"idle", "dead"}
=============================================================================
