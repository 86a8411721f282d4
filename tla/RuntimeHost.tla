---------------------------- MODULE RuntimeHost ----------------------------
(***************************************************************************)
(* The processes of the runtime host on one data directory: those that     *)
(* start a runtime, maintain its jobs while none runs, or recover the lock *)
(* a dead one left.  They meet in three ownership files.  A runtime that   *)
(* is asked to stop disposes its resources stage by stage before it gives  *)
(* up its lock.                                                            *)
(***************************************************************************)
EXTENDS Integers, FiniteSets

CONSTANTS Procs,       \* the processes, each of one command
          Command,     \* the command of each
          Nobody,
          Stages,      \* the resources are 1..Stages, in the order of their disposal
          Throwing,    \* the steps whose file operation may throw
          MaxCrashes, MaxErrors,
          MaxSignals   \* signals and requests to stop

Commands == {"start", "maintain", "recover"}

ASSUME HostAssumption ==
  /\ Command \in [Procs -> Commands] /\ Nobody \notin Procs
  /\ Stages \in Nat /\ Throwing \subseteq {"write", "remove"}
  /\ MaxCrashes \in Nat /\ MaxSignals \in Nat /\ MaxErrors \in Nat

VARIABLES file,      \* who created each ownership file
          written,   \* the files whose record is written
          pc,        \* where the process is
          approved,  \* the lock a recovery is about, by its owner
          up,        \* the resources of each process
          stuck,     \* resources whose disposal never settles
          stage,     \* the stage a disposal is at
          stop,      \* the one stop of each process
          broken,    \* the processes with a stage that failed or timed out
          exits,     \* those somebody ends when their stop has succeeded
          unserved,  \* history: those whose stop found no services
          crashed,   \* history
          signals, errors

vars == <<file, written, pc, approved, up, stuck, stage, stop, broken, exits, unserved,
          crashed, signals, errors>>
files == <<file, written>>
runtime == <<up, stage, stop, broken, exits, unserved>>
rest == <<approved, stuck, crashed, signals, errors>>

Files == {"runtime", "maintenance", "recovery"}
Resources == 1..Stages
StartSteps == {"checkMaintenance", "checkRecovery", "open", "write", "bringUp", "serve", "running",
               "cleanup", "failed"}
MaintainSteps == {"checkRuntime", "checkRecovery", "open", "write", "maintaining"}
RecoverSteps == {"inspect", "checkMaintenance", "open", "write", "verify", "openMaintenance",
                 "writeMaintenance", "final", "remove", "release", "maintaining"}
Steps == {"idle", "gone"} \cup StartSteps \cup MaintainSteps \cup RecoverSteps

Alive(p) == pc[p] # "gone"
Is(p, c) == Command[p] = c
At(p, c, step) == Is(p, c) /\ pc[p] = step
Goto(p, step) == pc' = [pc EXCEPT ![p] = step]
Own(p) == CASE Is(p, "start") -> "runtime" [] Is(p, "maintain") -> "maintenance" [] OTHER -> "recovery"

(* open(path, "wx"), and what is then written into it.                      *)
Free(f) == file[f] = Nobody
Create(p, f) == file' = [file EXCEPT ![f] = p] /\ UNCHANGED written
Write(f) == written' = written \cup {f} /\ UNCHANGED file
Unlink(f) == file' = [file EXCEPT ![f] = Nobody] /\ written' = written \ {f}
Throws(kind) == kind \in Throwing /\ errors < MaxErrors /\ errors' = errors + 1

(* The record is there and can be read.                                     *)
Readable == ~Free("runtime") /\ "runtime" \in written

(* Fault: the fingerprint is not compared. *)
StaleWhoever(owner) == Readable /\ ~Alive(file["runtime"])

(* What inspectRuntimeLock answers of the lock of this owner: its process is *)
(* absent.                                                                  *)
Stale(owner) == Readable /\ file["runtime"] = owner /\ ~Alive(owner)

Init ==
  /\ file = [f \in Files |-> Nobody] /\ written = {}
  /\ pc = [p \in Procs |-> "idle"] /\ approved = [p \in Procs |-> Nobody]
  /\ up = [p \in Procs |-> {}] /\ stuck \in SUBSET Resources
  /\ stage = [p \in Procs |-> 1] /\ stop = [p \in Procs |-> "none"]
  /\ broken = {} /\ exits = {} /\ unserved = {} /\ crashed = {}
  /\ signals = 0 /\ errors = 0
----------------------------------------------------------------------------
(* A command is entered.  The operator of a recovery has seen a lock.       *)
Begin(p) ==
  /\ pc[p] = "idle"
  /\ IF Is(p, "recover") THEN /\ ~Free("runtime")
                              /\ approved' = [approved EXCEPT ![p] = file["runtime"]]
                         ELSE UNCHANGED approved
  /\ Goto(p, CASE Is(p, "start") -> "checkMaintenance" [] Is(p, "maintain") -> "checkRuntime"
               [] OTHER -> "inspect")
  /\ UNCHANGED <<files, runtime, stuck, crashed, signals, errors>>

(* The readFile checks that precede the creation of a file.                 *)
Checked(p) ==
  CASE pc[p] = "checkRuntime" -> "runtime" [] pc[p] = "checkMaintenance" -> "maintenance"
    [] OTHER -> "recovery"
Following(p) ==
  IF pc[p] = "checkRecovery" \/ Is(p, "recover") THEN "open" ELSE "checkRecovery"

Check(p) ==
  /\ pc[p] \in {"checkRuntime", "checkMaintenance", "checkRecovery"}
  /\ Goto(p, IF Free(Checked(p)) THEN Following(p) ELSE "gone")
  /\ UNCHANGED <<files, runtime, rest>>

Open(p) ==
  /\ pc[p] = "open"
  /\ IF Free(Own(p)) THEN Create(p, Own(p)) /\ Goto(p, "write")
                     ELSE UNCHANGED files /\ Goto(p, "gone")
  /\ UNCHANGED <<runtime, rest>>

WriteRecord(p) ==
  /\ pc[p] = "write"
  /\ Write(Own(p))
  /\ Goto(p, CASE Is(p, "start") -> "bringUp" [] Is(p, "maintain") -> "maintaining" [] OTHER -> "verify")
  /\ UNCHANGED <<runtime, rest>>

(* The file stays as it was created; a recovery gives only its first back.  *)
WriteFails(p) ==
  /\ Throws("write")
  /\ \/ pc[p] = "write" /\ Goto(p, "gone") /\ UNCHANGED files
     \/ pc[p] = "writeMaintenance" /\ Unlink("recovery") /\ Goto(p, "gone")
  /\ UNCHANGED <<runtime, approved, stuck, crashed, signals>>

(* The jobs are contained, or there is nothing to contain.                  *)
Maintained(p) ==
  /\ pc[p] = "maintaining"
  /\ Unlink("maintenance") /\ Goto(p, "gone")
  /\ UNCHANGED <<runtime, rest>>
----------------------------------------------------------------------------
Inspect(p) ==
  /\ At(p, "recover", "inspect")
  /\ Goto(p, IF Stale(approved[p]) THEN "checkMaintenance" ELSE "gone")
  /\ UNCHANGED <<files, runtime, rest>>

(* Rejected: the ownership that was taken is given back.                    *)
GivesBack(p, f) == Unlink(f) /\ Goto(p, "gone")

Verify(p) ==
  /\ At(p, "recover", "verify")
  /\ IF Stale(approved[p]) THEN Goto(p, "openMaintenance") /\ UNCHANGED files
                           ELSE GivesBack(p, "recovery")
  /\ UNCHANGED <<runtime, rest>>

(* Fault: the recovery file is kept. *)
OpenMaintenanceKeeps(p) ==
  /\ At(p, "recover", "openMaintenance")
  /\ IF Free("maintenance") THEN Create(p, "maintenance") /\ Goto(p, "writeMaintenance")
                            ELSE UNCHANGED files /\ Goto(p, "gone")
  /\ UNCHANGED <<runtime, rest>>

OpenMaintenance(p) ==
  /\ At(p, "recover", "openMaintenance")
  /\ IF Free("maintenance") THEN Create(p, "maintenance") /\ Goto(p, "writeMaintenance")
                            ELSE GivesBack(p, "recovery")
  /\ UNCHANGED <<runtime, rest>>

WriteMaintenance(p) ==
  /\ At(p, "recover", "writeMaintenance")
  /\ Write("maintenance") /\ Goto(p, "final")
  /\ UNCHANGED <<runtime, rest>>

(* Inspected again and read once more.                                      *)
Final(p) ==
  /\ At(p, "recover", "final")
  /\ IF Stale(approved[p])
       THEN Goto(p, "remove") /\ UNCHANGED files
       ELSE /\ file' = [file EXCEPT !["maintenance"] = Nobody, !["recovery"] = Nobody]
            /\ written' = written \ {"maintenance", "recovery"} /\ Goto(p, "gone")
  /\ UNCHANGED <<runtime, rest>>

Remove(p) ==
  /\ At(p, "recover", "remove")
  /\ Unlink("runtime") /\ Goto(p, "release")
  /\ UNCHANGED <<runtime, rest>>

(* rm throws: the catch gives the recovery file back.                       *)
RemoveFails(p) ==
  /\ At(p, "recover", "remove") /\ Throws("remove")
  /\ GivesBack(p, "recovery")
  /\ UNCHANGED <<runtime, approved, stuck, crashed, signals>>

ReleaseRecovery(p) ==
  /\ At(p, "recover", "release")
  /\ Unlink("recovery") /\ Goto(p, "maintaining")
  /\ UNCHANGED <<runtime, rest>>
----------------------------------------------------------------------------
(* startIseolRuntimeServices: the resources, then the services are there.   *)
BringUp(p) ==
  /\ pc[p] = "bringUp"
  /\ \E r \in Resources \ up[p] : up' = [up EXCEPT ![p] = @ \cup {r}]
  /\ UNCHANGED <<files, pc, stage, stop, broken, exits, unserved, rest>>

Started(p) ==
  /\ pc[p] = "bringUp" /\ up[p] = Resources
  /\ Goto(p, "serve")
  /\ UNCHANGED <<files, runtime, rest>>

StartFails(p) ==
  /\ pc[p] = "bringUp" /\ up[p] # Resources
  /\ Goto(p, "cleanup")
  /\ UNCHANGED <<files, runtime, rest>>

Serve(p) ==
  /\ pc[p] = "serve"
  /\ Goto(p, "running")
  /\ UNCHANGED <<files, runtime, rest>>

(* stop() is called once and its promise kept; without services there is     *)
(* nothing to dispose.                                                      *)
Served(p) == pc[p] \in {"serve", "running"}

(* Fault: a second call of stop goes through the whole again; the services   *)
(* are disposed already.                                                    *)
CallStopAnew(p) ==
  /\ stop' = [stop EXCEPT ![p] = IF @ = "none" /\ Served(p) THEN "disposing" ELSE "releasing"]
  /\ unserved' = IF Served(p) THEN unserved ELSE unserved \cup {p}

CallStop(p) ==
  IF stop[p] # "none" THEN UNCHANGED <<stop, unserved>>
  ELSE /\ stop' = [stop EXCEPT ![p] = IF Served(p) THEN "disposing" ELSE "releasing"]
       /\ unserved' = IF Served(p) THEN unserved ELSE unserved \cup {p}

ServeFails(p) ==
  /\ pc[p] = "serve"
  /\ CallStop(p) /\ Goto(p, "failed")
  /\ UNCHANGED <<files, up, stage, broken, exits, rest>>

(* SIGINT or SIGTERM, by whomever.  Before the handlers are there it is a    *)
(* crash.                                                                   *)
Called(p) ==
  /\ signals < MaxSignals /\ signals' = signals + 1
  /\ CallStop(p) /\ exits' = exits \cup {p}
  /\ UNCHANGED <<files, pc, up, stage, broken, approved, stuck, crashed, errors>>

Signal(p) == pc[p] \in {"bringUp", "serve", "running", "cleanup", "failed"} /\ Called(p)

(* requestRuntimeStop, of whoever found this owner in the lock; the runtime  *)
(* compares the request with itself and with the lock.                      *)
Request(p) == pc[p] = "running" /\ file["runtime"] = p /\ Called(p)
----------------------------------------------------------------------------
(* disposeWithShutdownDiagnostics, for a stop or for a start that failed.   *)
Disposing(p) == stop[p] = "disposing" \/ pc[p] = "cleanup"
Present(p) == Disposing(p) /\ stage[p] \in up[p]
NextStage(p) == stage' = [stage EXCEPT ![p] = @ + 1]
Gone(p) == up' = [up EXCEPT ![p] = @ \ {stage[p]}]

(* The end of the disposal.  The one of a failed start suppresses its        *)
(* errors, and finally calls stop.                                          *)
Conclude(p, failed) ==
  IF pc[p] = "cleanup"
    THEN Goto(p, "failed") /\ CallStop(p)
    ELSE /\ stop' = [stop EXCEPT ![p] = IF failed THEN "failed" ELSE "releasing"]
         /\ UNCHANGED <<pc, unserved>>

DisposeStage(p) ==
  /\ Disposing(p) /\ stage[p] \in Resources
  /\ stage[p] \in up[p] => stage[p] \notin stuck
  /\ Gone(p) /\ NextStage(p)
  /\ UNCHANGED <<files, pc, stop, broken, exits, unserved, rest>>

DisposeFails(p) ==
  /\ Present(p) /\ stage[p] \notin stuck
  /\ broken' = broken \cup {p} /\ NextStage(p)
  /\ Gone(p) \/ UNCHANGED up
  /\ UNCHANGED <<files, pc, stop, exits, unserved, rest>>

(* Fault: the disposal of a stage is waited for.                            *)
TimesOutNever(p) == FALSE

(* The stages after it are not disposed.                                    *)
TimesOut(p) ==
  /\ Present(p)
  /\ broken' = broken \cup {p}
  /\ Conclude(p, TRUE)
  /\ UNCHANGED <<files, up, stage, exits, rest>>

(* The disposal that timed out ends after all.                              *)
Late(p) ==
  /\ ~Disposing(p) /\ p \in broken /\ stage[p] \in up[p] \ stuck
  /\ Gone(p)
  /\ UNCHANGED <<files, pc, stage, stop, broken, exits, unserved, rest>>

Disposed(p) ==
  /\ Disposing(p) /\ stage[p] = Stages + 1
  /\ Conclude(p, p \in broken)
  /\ UNCHANGED <<files, up, stage, broken, exits, rest>>

Release(p) ==
  /\ stop[p] = "releasing"
  /\ IF file["runtime"] = p THEN Unlink("runtime") /\ stop' = [stop EXCEPT ![p] = "stopped"]
                            ELSE UNCHANGED files /\ stop' = [stop EXCEPT ![p] = "failed"]
  /\ UNCHANGED <<pc, up, stage, broken, exits, unserved, rest>>

ReleaseFails(p) ==
  /\ stop[p] = "releasing" /\ Throws("remove")
  /\ stop' = [stop EXCEPT ![p] = "failed"]
  /\ UNCHANGED <<files, pc, up, stage, broken, exits, unserved, approved, stuck, crashed, signals>>

Ends(p) ==
  /\ Goto(p, "gone") /\ up' = [up EXCEPT ![p] = {}] /\ stop' = [stop EXCEPT ![p] = "none"]
  /\ UNCHANGED <<files, stage, broken, exits, unserved, approved, stuck, signals, errors>>

(* process.exit after a stop; or the start failed, and nothing is left to    *)
(* run.                                                                     *)
Exit(p) ==
  /\ \/ stop[p] = "stopped" /\ p \in exits
     \/ pc[p] = "failed" /\ stop[p] \in {"stopped", "failed"} /\ up[p] = {}
  /\ Ends(p) /\ UNCHANGED crashed

Crash(p) ==
  /\ pc[p] \notin {"idle", "gone"} /\ Cardinality(crashed) < MaxCrashes
  /\ crashed' = crashed \cup {p}
  /\ Ends(p)
----------------------------------------------------------------------------
Operate(p) ==
  \/ Begin(p) \/ Check(p) \/ Open(p) \/ WriteRecord(p) \/ WriteFails(p) \/ Maintained(p)
  \/ Inspect(p) \/ Verify(p) \/ OpenMaintenance(p) \/ WriteMaintenance(p) \/ Final(p)
  \/ Remove(p) \/ RemoveFails(p) \/ ReleaseRecovery(p)

Runtime(p) ==
  \/ BringUp(p) \/ Started(p) \/ StartFails(p) \/ Serve(p) \/ ServeFails(p) \/ Signal(p) \/ Request(p)
  \/ Late(p)

Stopping(p) == DisposeStage(p) \/ DisposeFails(p) \/ TimesOut(p) \/ Disposed(p) \/ Release(p) \/ ReleaseFails(p)

Next == \E p \in Procs : Operate(p) \/ Runtime(p) \/ Stopping(p) \/ Exit(p) \/ Crash(p)

Spec == Init /\ [][Next]_vars

(* A disposal has a timer, and what follows it goes on.                     *)
FairSpec == Spec /\ \A p \in Procs : WF_vars(Stopping(p))
----------------------------------------------------------------------------
TypeOK ==
  /\ file \in [Files -> Procs \cup {Nobody}] /\ written \subseteq Files
  /\ pc \in [Procs -> Steps] /\ approved \in [Procs -> Procs \cup {Nobody}]
  /\ up \in [Procs -> SUBSET Resources] /\ stuck \subseteq Resources
  /\ stage \in [Procs -> 1..Stages + 1]
  /\ stop \in [Procs -> {"none", "disposing", "releasing", "stopped", "failed"}]
  /\ broken \subseteq Procs /\ exits \subseteq Procs /\ unserved \subseteq Procs
  /\ crashed \subseteq Procs /\ signals \in 0..MaxSignals /\ errors \in 0..MaxErrors
  /\ \A p \in Procs : ~Is(p, "start") => up[p] = {} /\ stop[p] = "none"

(* Recoveries inspect, wait for each other and inspect again, while locks    *)
(* are given up and taken: the lock of a runtime goes by its own release, or *)
(* by the recovery an operator approved for exactly that lock, after its     *)
(* owner died.                                                              *)
LockKept ==
  [][\A q \in Procs : file["runtime"] = q /\ file'["runtime"] # q =>
       \/ stop[q] = "releasing"
       \/ ~Alive(q) /\ \E p \in Procs : approved[p] = q /\ At(p, "recover", "remove")]_vars

(* "Releasing a lock after a partial disposal would allow another Runtime to *)
(* start while resources may still be alive": whatever signals, requests and *)
(* failed stages there were, a runtime whose stop found its services has     *)
(* nothing left when it is without the lock.                                *)
ReleasedIsDown ==
  \A p \in Procs : up[p] # {} /\ p \notin unserved => file["runtime"] = p

(* Two processes have resources at the same time only if one of them was     *)
(* stopped, or its start failed, before it had services.                    *)
OneRuntime ==
  \A p, q \in Procs : up[p] # {} /\ up[q] # {} /\ p # q => p \in unserved \/ q \in unserved

(* A command that was refused or rejected at any step, and no file operation *)
(* threw, keeps no ownership: nobody would ever take it from it.            *)
OwnershipReturned ==
  \A p \in Procs : pc[p] = "gone" /\ p \notin crashed /\ errors = 0 =>
    file["maintenance"] # p /\ file["recovery"] # p

(* A stop is over at some time, whether or not the resources can be disposed. *)
StopsEnd ==
  \A p \in Procs : stop[p] \in {"disposing", "releasing"} ~> stop[p] \in {"stopped", "failed", "none"}

(* "maintenance ownership cannot overlap a live Runtime". The code does not  *)
(* keep it: each side looks for the other's file before it creates its own. *)
MaintenanceAlone ==
  \A p, q \in Procs : ~(pc[p] = "maintaining" /\ pc[q] = "running")

(* The same comment as of ReleasedIsDown, of every start. The code does not  *)
(* keep it: a stop before there are services disposes nothing.              *)
FailsClosed == \A p \in Procs : up[p] # {} => file["runtime"] = p

(* A recovery "releases both ownership files". The code does not keep it:   *)
(* after RemoveFails the maintenance file stays.                            *)
RecoveryReleases ==
  \A p \in Procs : At(p, "recover", "gone") /\ p \notin crashed =>
    file["maintenance"] # p /\ file["recovery"] # p
=============================================================================
