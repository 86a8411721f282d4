------------------------- MODULE RuntimeHostProofs -------------------------
(***************************************************************************)
(* Proofs about RuntimeHost, for any number of processes, resources,       *)
(* signals, errors and crashes: the lock of a runtime goes by its release  *)
(* or by an approved recovery after its death, and a runtime whose stop    *)
(* found its services gives it up when they are gone.                      *)
(***************************************************************************)
EXTENDS RuntimeHost, TLAPS

Live == {"bringUp", "serve", "running", "cleanup", "failed"}
Recovering == {"write", "verify", "openMaintenance", "writeMaintenance", "final", "remove", "release"}
Approving == {"openMaintenance", "writeMaintenance", "final", "remove"}
Fences == {"writeMaintenance", "final", "remove", "release", "maintaining"}

(* What a process is in: only one that starts gets resources and a stop, and *)
(* they are gone when it is.                                                *)
Placed(p) ==
  /\ pc[p] \in Live => Is(p, "start")
  /\ pc[p] = "writeMaintenance" => Is(p, "recover")
  /\ pc[p] \notin Live => up[p] = {} /\ stop[p] = "none"

(* A disposal goes through the stages from the first on; one that a stop     *)
(* began ends with nothing left, or as failed.                              *)
Ordered(p) ==
  /\ pc[p] \notin {"cleanup", "failed", "gone"} /\ stop[p] = "none" => stage[p] = 1
  /\ stop[p] = "disposing" => pc[p] \in {"serve", "running", "failed"}
  /\ stop[p] = "disposing" /\ p \notin broken => \A r \in up[p] : r >= stage[p]
  /\ p \notin unserved /\ stop[p] # "none" => pc[p] \in {"serve", "running", "failed"}
  /\ p \notin unserved /\ stop[p] \in {"releasing", "stopped"} => up[p] = {}

(* Who has the lock of the runtime, who has the one of the recovery, and     *)
(* what the latter may still remove.                                        *)
Owning(p) ==
  Is(p, "start") /\ pc[p] \in Live \cup {"write"} /\ stop[p] # "stopped" => file["runtime"] = p
Recovery(p) ==
  Is(p, "recover") /\ pc[p] \in Recovering => file["recovery"] = p
Approved(p) ==
  Is(p, "recover") /\ pc[p] \in Approving =>
    /\ approved[p] \in Procs /\ file["runtime"] = approved[p]
    /\ pc[approved[p]] = "gone"

(* Where the owner of the other two files is, if nothing threw.             *)
Returning(p) ==
  p \notin crashed /\ errors = 0 =>
    /\ file["maintenance"] = p =>
         \/ Is(p, "maintain") /\ pc[p] \in {"write", "maintaining"}
         \/ Is(p, "recover") /\ pc[p] \in Fences
    /\ file["recovery"] = p => Own(p) = "recovery" /\ pc[p] \in Recovering

Inv ==
  TypeOK /\ \A p \in Procs : Placed(p) /\ Ordered(p) /\ Owning(p) /\ Recovery(p) /\ Approved(p)

LEMMA InitInv == Init => Inv /\ \A p \in Procs : Returning(p)
BY HostAssumption DEF Init, Inv, TypeOK, Placed, Ordered, Owning, Recovery, Approved, Returning, Live,
     Recovering, Approving, Files, Resources, Steps
----------------------------------------------------------------------------
LEMMA Unlinked ==
  ASSUME TypeOK, NEW f \in Files, Unlink(f)
  PROVE  file' \in [Files -> Procs \cup {Nobody}] /\ written' \subseteq Files
BY DEF TypeOK, Unlink

LEMMA GaveBack ==
  ASSUME TypeOK, NEW p, NEW f \in Files, GivesBack(p, f)
  PROVE  Goto(p, "gone") /\ file' \in [Files -> Procs \cup {Nobody}] /\ written' \subseteq Files
BY Unlinked DEF GivesBack

(* A step of a process that is no runtime.                                  *)
LEMMA Moved ==
  ASSUME Inv, NEW p \in Procs, NEW step \in Steps \ Live, pc[p] \notin Live, pc[p] # "gone",
         Goto(p, step), step = "writeMaintenance" => Is(p, "recover"), UNCHANGED runtime
  PROVE  pc' \in [Procs -> Steps] /\ \A q \in Procs : Placed(q)' /\ Ordered(q)'
<1>1. pc' \in [Procs -> Steps] /\ pc'[p] = step /\ \A q \in Procs \ {p} : pc'[q] = pc[q]
  BY DEF Inv, TypeOK, Goto
<1>2. \A q \in Procs \ {p} : Placed(q)' /\ Ordered(q)'
  BY <1>1 DEF Inv, Placed, Ordered, runtime, Is
<1>3. Placed(p)'
  BY <1>1 DEF Inv, Placed, runtime, Is
<1>4. Ordered(p)'
  BY <1>1 DEF Inv, Placed, Ordered, runtime, Live
<1> QED BY <1>1, <1>2, <1>3, <1>4

LEMMA OperateTyped ==
  ASSUME Inv, NEW p \in Procs, Operate(p) PROVE TypeOK' /\ \A q \in Procs : Placed(q)' /\ Ordered(q)'
<1> USE HostAssumption
<1> USE DEF Inv, TypeOK, Files, runtime, rest
<1>1. CASE Begin(p)
  BY <1>1 DEF Begin, Placed, Ordered, Goto, Live, Steps, StartSteps, MaintainSteps, RecoverSteps, files, Is
<1>2. CASE Check(p)
  BY <1>2 DEF Check, Following, Placed, Ordered, Goto, Live, Steps, StartSteps, MaintainSteps, RecoverSteps,
     files, Is
<1>3. CASE Open(p)
  BY <1>3 DEF Open, Create, Placed, Ordered, Goto, Live, Steps, StartSteps, MaintainSteps, RecoverSteps,
     files, Is, Own
<1>4. CASE WriteRecord(p)
  BY <1>4 DEF WriteRecord, Write, Placed, Ordered, Goto, Live, Steps, StartSteps, MaintainSteps, RecoverSteps,
     Is, Own
<1>5. CASE WriteFails(p)
  <2>1. Goto(p, "gone") /\ pc[p] \in {"write", "writeMaintenance"}
    BY <1>5 DEF WriteFails
  <2>2. file' \in [Files -> Procs \cup {Nobody}] /\ written' \subseteq Files
    BY <1>5, Unlinked DEF WriteFails, files
  <2>3. errors' \in 0..MaxErrors
    BY <1>5 DEF WriteFails, Throws
  <2>4. pc' \in [Procs -> Steps] /\ \A q \in Procs : Placed(q)' /\ Ordered(q)'
    BY <1>5, <2>1, Moved DEF WriteFails, Live, Steps
  <2> QED BY <1>5, <2>2, <2>3, <2>4 DEF WriteFails, Is
<1>6. CASE Maintained(p)
  BY <1>6, Unlinked, Moved DEF Maintained, Live, Steps, Is
<1>7. CASE Inspect(p)
  BY <1>7, Moved DEF Inspect, Live, Steps, RecoverSteps, At, files, Is
<1>8. CASE Verify(p)
  <2>1. \E step \in {"openMaintenance", "gone"} : Goto(p, step)
    BY <1>8, GaveBack DEF Verify
  <2>2. file' \in [Files -> Procs \cup {Nobody}] /\ written' \subseteq Files
    BY <1>8, GaveBack DEF Verify, files
  <2>3. pc' \in [Procs -> Steps] /\ \A q \in Procs : Placed(q)' /\ Ordered(q)'
    BY <1>8, <2>1, Moved DEF Verify, Live, Steps, RecoverSteps, At
  <2> QED BY <1>8, <2>2, <2>3 DEF Verify, Is
<1>9. CASE OpenMaintenance(p)
  <2>1. \E step \in {"writeMaintenance", "gone"} : Goto(p, step)
    BY <1>9, GaveBack DEF OpenMaintenance
  <2>2. file' \in [Files -> Procs \cup {Nobody}] /\ written' \subseteq Files
    <3>1. CASE GivesBack(p, "recovery")
      BY <3>1, GaveBack
    <3>2. CASE Create(p, "maintenance")
      BY <3>2 DEF Create
    <3> QED BY <1>9, <3>1, <3>2 DEF OpenMaintenance
  <2>3. pc' \in [Procs -> Steps] /\ \A q \in Procs : Placed(q)' /\ Ordered(q)'
    BY <1>9, <2>1, Moved DEF OpenMaintenance, Live, Steps, RecoverSteps, At
  <2> QED BY <1>9, <2>2, <2>3 DEF OpenMaintenance, Is
<1>10. CASE WriteMaintenance(p)
  BY <1>10, Moved DEF WriteMaintenance, Write, Live, Steps, RecoverSteps, At, Is
<1>11. CASE Final(p)
  <2>1. \E step \in {"remove", "gone"} : Goto(p, step)
    BY <1>11 DEF Final
  <2>2. file' \in [Files -> Procs \cup {Nobody}] /\ written' \subseteq Files
    <3>1. CASE UNCHANGED files
      BY <3>1 DEF files
    <3>2. CASE /\ file' = [file EXCEPT !["maintenance"] = Nobody, !["recovery"] = Nobody]
               /\ written' = written \ {"maintenance", "recovery"}
      BY <3>2
    <3> QED BY <1>11, <3>1, <3>2 DEF Final
  <2>3. pc' \in [Procs -> Steps] /\ \A q \in Procs : Placed(q)' /\ Ordered(q)'
    BY <1>11, <2>1, Moved DEF Final, Live, Steps, RecoverSteps, At
  <2> QED BY <1>11, <2>2, <2>3 DEF Final, Is
<1>12. CASE Remove(p)
  BY <1>12, Unlinked, Moved DEF Remove, Live, Steps, RecoverSteps, At, Is
<1>13. CASE RemoveFails(p)
  <2>1. errors' \in 0..MaxErrors
    BY <1>13 DEF RemoveFails, Throws
  <2> QED BY <1>13, <2>1, GaveBack, Moved DEF RemoveFails, Live, Steps, RecoverSteps, At, Is
<1>14. CASE ReleaseRecovery(p)
  BY <1>14, Unlinked, Moved DEF ReleaseRecovery, Live, Steps, RecoverSteps, At, Is
<1> QED BY <1>1, <1>2, <1>3, <1>4, <1>5, <1>6, <1>7, <1>8, <1>9, <1>10, <1>11, <1>12, <1>13, <1>14
       DEF Operate

(* A runtime keeps its place while no resource, stop or stage changes.      *)
LEMMA RuntimeTyped ==
  ASSUME Inv, NEW p \in Procs, Runtime(p) \/ Exit(p) \/ Crash(p)
  PROVE  TypeOK' /\ \A q \in Procs : Placed(q)' /\ Ordered(q)'
<1> USE HostAssumption
<1> USE DEF Inv, TypeOK, Placed, Ordered, Live, files, rest
<1>1. CASE BringUp(p)
  BY <1>1 DEF BringUp, Resources, Is
<1>2. CASE Started(p)
  BY <1>2 DEF Started, Goto, runtime, Is, Steps, StartSteps
<1>3. CASE StartFails(p)
  BY <1>3 DEF StartFails, Goto, runtime, Is, Steps, StartSteps
<1>4. CASE Serve(p)
  BY <1>4 DEF Serve, Goto, runtime, Is, Steps, StartSteps
<1>5. CASE ServeFails(p)
  BY <1>5 DEF ServeFails, CallStop, Served, Goto, Is, Steps, StartSteps, Resources
<1>6. CASE Signal(p)
  BY <1>6 DEF Signal, Called, CallStop, Served, Is, Resources
<1>7. CASE Late(p)
  BY <1>7 DEF Late, Gone, Is
<1>11. CASE Request(p)
  BY <1>11 DEF Request, Called, CallStop, Served, Is, Resources
<1>8. ASSUME Ends(p), crashed' \subseteq Procs PROVE TypeOK' /\ \A q \in Procs : Placed(q)' /\ Ordered(q)'
  BY <1>8 DEF Ends, Goto, Is, Steps
<1>9. CASE Exit(p)
  BY <1>8, <1>9 DEF Exit
<1>10. CASE Crash(p)
  BY <1>8, <1>10 DEF Crash
<1> QED BY <1>1, <1>2, <1>3, <1>4, <1>5, <1>6, <1>7, <1>9, <1>10, <1>11 DEF Runtime

LEMMA StoppingTyped ==
  ASSUME Inv, NEW p \in Procs, Stopping(p)
  PROVE  TypeOK' /\ \A q \in Procs : Placed(q)' /\ Ordered(q)'
<1> USE HostAssumption
<1> USE DEF Inv, TypeOK, Placed, Ordered, Live, files, rest
<1>1. CASE DisposeStage(p)
  BY <1>1 DEF DisposeStage, Disposing, Gone, NextStage, Resources, Is
<1>2. CASE DisposeFails(p)
  BY <1>2 DEF DisposeFails, Present, Disposing, Gone, NextStage, Resources, Is
<1>3. CASE TimesOut(p)
  BY <1>3 DEF TimesOut, Present, Disposing, Conclude, CallStop, Served, Goto, Is, Steps, StartSteps
<1>4. CASE Disposed(p)
  BY <1>4 DEF Disposed, Disposing, Conclude, CallStop, Served, Goto, Is, Steps, StartSteps, Resources
<1>5. CASE Release(p)
  <2>1. file' \in [Files -> Procs \cup {Nobody}] /\ written' \subseteq Files
    BY <1>5, Unlinked DEF Release, Files
  <2>2. \E e \in {"stopped", "failed"} : stop' = [stop EXCEPT ![p] = e]
    BY <1>5 DEF Release
  <2> QED BY <1>5, <2>1, <2>2 DEF Release, Is
<1>6. CASE ReleaseFails(p)
  BY <1>6 DEF ReleaseFails, Throws, Is
<1> QED BY <1>1, <1>2, <1>3, <1>4, <1>5, <1>6 DEF Stopping
----------------------------------------------------------------------------
Step(p) == Operate(p) \/ Runtime(p) \/ Stopping(p) \/ Exit(p) \/ Crash(p)

(* A process that has ended stays so.                                       *)
LEMMA GoneStays == ASSUME Inv, NEW p \in Procs, Step(p), NEW q \in Procs, pc[q] = "gone" PROVE pc'[q] = "gone"
<1>1. CASE q = p
  BY <1>1 DEF Step, Inv, Placed, Live, Operate, Runtime, Stopping, Exit, Crash, Begin, Check, Open, WriteRecord,
     WriteFails, Maintained, Inspect, Verify, OpenMaintenance, WriteMaintenance, Final, Remove, RemoveFails,
     ReleaseRecovery, BringUp, Started, StartFails, Serve, ServeFails,
     Signal, Request, Called, Late, DisposeStage, DisposeFails, TimesOut, Disposed, Release, ReleaseFails, At, Disposing, Present
<1>2. CASE q # p
  <2>1. pc' = pc \/ \E step : Goto(p, step)
    BY DEF Step, Operate, Runtime, Stopping, Exit, Crash, Ends, Begin, Check, Open, WriteRecord,
     WriteFails, Maintained, Inspect, Verify, OpenMaintenance, WriteMaintenance, Final, Remove, RemoveFails,
     GivesBack, ReleaseRecovery, BringUp, Started, StartFails, Serve, ServeFails,
     Signal, Request, Called, Late, DisposeStage, DisposeFails, TimesOut, Disposed, Conclude, Release, ReleaseFails, runtime
  <2> QED BY <1>2, <2>1 DEF Goto, Inv, TypeOK
<1> QED BY <1>1, <1>2

(* How the ownership files change: by the creation of a process that found   *)
(* its own free, and by what the owner of one gives back.                   *)
Same(f) == file'[f] = file[f]
Opens(p) == Open(p) /\ Free(Own(p)) /\ Create(p, Own(p)) /\ Goto(p, "write")
Released(p) == Release(p) /\ Unlink("runtime") /\ file["runtime"] = p /\ stop' = [stop EXCEPT ![p] = "stopped"]
Returned(p) ==
  \/ WriteFails(p) /\ pc[p] = "writeMaintenance" /\ Unlink("recovery") /\ Goto(p, "gone")
  \/ (Verify(p) \/ OpenMaintenance(p) \/ RemoveFails(p)) /\ Unlink("recovery") /\ Goto(p, "gone")
  \/ /\ Final(p) /\ Goto(p, "gone")
     /\ file' = [file EXCEPT !["maintenance"] = Nobody, !["recovery"] = Nobody]
  \/ ReleaseRecovery(p) /\ Unlink("recovery")

LEMMA FileSteps ==
  ASSUME NEW p \in Procs, Step(p)
  PROVE  \/ UNCHANGED file
         \/ Opens(p) \/ Returned(p) \/ Released(p)
         \/ Maintained(p) /\ Unlink("maintenance")
         \/ OpenMaintenance(p) /\ Free("maintenance") /\ Create(p, "maintenance") /\ Goto(p, "writeMaintenance")
         \/ Remove(p) /\ Unlink("runtime")
<1>1. CASE Operate(p)
  BY <1>1 DEF Operate, Opens, Returned, files, GivesBack, Write,
     Begin, Check, Open, WriteRecord, WriteFails, Maintained, Inspect, Verify, OpenMaintenance, WriteMaintenance,
     Final, Remove, RemoveFails, ReleaseRecovery
<1>2. CASE Runtime(p)
  BY <1>2 DEF files, Runtime, BringUp, Started, StartFails, Serve, ServeFails, Signal, Request, Called, Late
<1>3. CASE Stopping(p)
  BY <1>3 DEF files, Stopping, Released, DisposeStage, DisposeFails, TimesOut, Disposed, Release, ReleaseFails
<1>4. CASE Exit(p) \/ Crash(p)
  BY <1>4 DEF files, Exit, Crash, Ends
<1> QED BY <1>1, <1>2, <1>3, <1>4 DEF Step

LEMMA RuntimeLock ==
  ASSUME Inv, NEW p \in Procs, Step(p)
  PROVE  \/ Same("runtime")
         \/ Opens(p) /\ Is(p, "start") /\ Free("runtime") /\ file'["runtime"] = p
         \/ Released(p)
         \/ Remove(p) /\ Unlink("runtime")
BY FileSteps DEF Inv, TypeOK, Files, Same, Opens, Returned, Own, Create, Unlink

LEMMA RecoveryLock ==
  ASSUME Inv, NEW p \in Procs, Step(p)
  PROVE  \/ Same("recovery")
         \/ Opens(p) /\ Free("recovery") /\ file'["recovery"] = p
         \/ Is(p, "recover") /\ pc[p] \in Recovering /\ pc'[p] \notin Recovering
BY FileSteps DEF Inv, TypeOK, Placed, Files, Same, Opens, Released, Returned, Own, Create, Unlink, Recovering, At, Goto,
   Verify, OpenMaintenance, RemoveFails, Final, ReleaseRecovery

(* A process comes to the write of its file only by its creation, and a      *)
(* recovery past its verification only with the lock it is approved for.    *)
Past == Live \cup {"write"}

LEMMA Others ==
  ASSUME Inv, NEW p \in Procs, Step(p), NEW q \in Procs, q # p
  PROVE  pc'[q] = pc[q] /\ approved'[q] = approved[q] /\ stop'[q] = stop[q]
<1>1. pc \in [Procs -> Steps] /\ approved \in [Procs -> Procs \cup {Nobody}] /\ DOMAIN stop = Procs
  BY DEF Inv, TypeOK
<1>2. CASE Operate(p)
  BY <1>1, <1>2 DEF Operate, GivesBack, Goto, runtime, rest,
     Begin, Check, Open, WriteRecord, WriteFails, Maintained, Inspect, Verify, OpenMaintenance, WriteMaintenance,
     Final, Remove, RemoveFails, ReleaseRecovery, CallStop
<1>3. CASE Runtime(p)
  BY <1>1, <1>3 DEF Runtime, BringUp, Started, StartFails, Serve, ServeFails, Signal, Request, Called, Late, CallStop, Goto, runtime, rest
<1>4. CASE Stopping(p)
  BY <1>1, <1>4 DEF Stopping, DisposeStage, DisposeFails, TimesOut, Disposed, Release, ReleaseFails,
     Conclude, CallStop, Goto, rest
<1>5. CASE Exit(p) \/ Crash(p)
  BY <1>1, <1>5 DEF Exit, Crash, Ends, Goto
<1> QED BY <1>2, <1>3, <1>4, <1>5 DEF Step

LEMMA OwnPast ==
  ASSUME Inv, NEW p \in Procs, Step(p), Is(p, "start"), pc'[p] \in Past, stop'[p] # "stopped"
  PROVE  (pc[p] \in Past /\ stop[p] # "stopped") \/ Opens(p)
<1>1. pc \in [Procs -> Steps] /\ DOMAIN stop = Procs /\ (pc[p] \notin Live => stop[p] = "none")
  BY DEF Inv, TypeOK, Placed
<1>2. stop[p] = "disposing" => pc[p] # "cleanup"
  BY DEF Inv, Ordered
<1> USE <1>1 DEF Past, Live
<1>3. CASE Operate(p)
  BY <1>3, FileSteps DEF Operate, GivesBack, Goto, runtime, Opens, At, Is, Following,
     Begin, Check, Open, WriteRecord, WriteFails, Maintained, Inspect, Verify, OpenMaintenance, WriteMaintenance,
     Final, Remove, RemoveFails, ReleaseRecovery
<1>4. CASE Runtime(p)
  BY <1>4 DEF Runtime, BringUp, Started, StartFails, Serve, ServeFails, Signal, Request, Called, Late, CallStop, Goto, runtime
<1>5. CASE Stopping(p)
  BY <1>5, <1>2 DEF Stopping, DisposeStage, DisposeFails, TimesOut, Disposed, Release, ReleaseFails, Disposing, Present,
     Conclude, CallStop, Goto
<1>6. CASE Exit(p) \/ Crash(p)
  BY <1>6 DEF Exit, Crash, Ends, Goto
<1> QED BY <1>3, <1>4, <1>5, <1>6 DEF Step

LEMMA OwnRecovery ==
  ASSUME Inv, NEW p \in Procs, Step(p), Is(p, "recover")
  PROVE  /\ pc'[p] \in Recovering => pc[p] \in Recovering \/ Opens(p)
         /\ pc'[p] \in Approving =>
              (pc[p] \in Approving \/ Stale(approved[p])) /\ approved'[p] = approved[p]
<1>1. pc \in [Procs -> Steps] /\ pc[p] \notin Live /\ up[p] = {} /\ stop[p] = "none"
  BY DEF Inv, TypeOK, Placed, Is
<1> USE <1>1 DEF Recovering, Approving, Live
<1>2. CASE Operate(p)
  BY <1>2 DEF Operate, GivesBack, Goto, rest, Opens, At, Is, Following,
     Begin, Check, Open, WriteRecord, WriteFails, Maintained, Inspect, Verify, OpenMaintenance, WriteMaintenance,
     Final, Remove, RemoveFails, ReleaseRecovery
<1>3. CASE Runtime(p)
  BY <1>3 DEF Runtime, BringUp, Started, StartFails, Serve, ServeFails, Signal, Request, Called, Late
<1>4. CASE Stopping(p)
  BY <1>4 DEF Stopping, DisposeStage, DisposeFails, TimesOut, Disposed, Release, ReleaseFails, Disposing, Present
<1>5. CASE Exit(p) \/ Crash(p)
  BY <1>5 DEF Exit, Crash, Ends, Goto
<1> QED BY <1>2, <1>3, <1>4, <1>5 DEF Step

LEMMA OwningStep == ASSUME Inv, NEW p \in Procs, Step(p), NEW q \in Procs PROVE Owning(q)'
<1> SUFFICES ASSUME Is(q, "start"), pc'[q] \in Past, stop'[q] # "stopped" PROVE file'["runtime"] = q
  BY DEF Owning, Past, Is
<1>1. CASE q = p /\ Opens(p)
  BY <1>1 DEF Opens, Own, Create, Inv, TypeOK, Files, Is
<1>2. CASE pc[q] \in Past /\ stop[q] # "stopped"
  <2>1. file["runtime"] = q
    BY <1>2 DEF Inv, Owning, Past
  <2>2. CASE Released(p)
    BY <2>1, <2>2 DEF Released, Inv, TypeOK
  <2>3. CASE Remove(p)
    BY <2>1, <2>3, <1>2 DEF Remove, At, Inv, Approved, Approving, Past, Live
  <2> QED BY <2>1, <2>2, <2>3, RuntimeLock, HostAssumption DEF Same, Free
<1> QED BY <1>1, <1>2, OwnPast, Others DEF Inv, TypeOK

LEMMA RecoveryStep == ASSUME Inv, NEW p \in Procs, Step(p), NEW q \in Procs PROVE Recovery(q)'
<1> SUFFICES ASSUME Is(q, "recover"), pc'[q] \in Recovering PROVE file'["recovery"] = q
  BY DEF Recovery, Is
<1>1. CASE q = p /\ Opens(p)
  BY <1>1 DEF Opens, Own, Create, Inv, TypeOK, Files, Is
<1>2. CASE pc[q] \in Recovering
  <2>1. file["recovery"] = q
    BY <1>2 DEF Inv, Recovery
  <2>2. Is(p, "recover") /\ pc[p] \in Recovering => p = q
    BY <2>1 DEF Inv, Recovery
  <2> QED BY <2>1, <2>2, RecoveryLock, HostAssumption DEF Same, Free
<1> QED BY <1>1, <1>2, OwnRecovery, Others

LEMMA ApprovedStep == ASSUME Inv, NEW p \in Procs, Step(p), NEW q \in Procs PROVE Approved(q)'
<1> SUFFICES ASSUME Is(q, "recover"), pc'[q] \in Approving
             PROVE  /\ approved'[q] \in Procs /\ file'["runtime"] = approved'[q]
                    /\ pc'[approved'[q]] = "gone"
  BY DEF Approved, Is
<1>1. approved'[q] = approved[q] /\ approved[q] \in Procs /\ file["runtime"] = approved[q] /\ pc[approved[q]] = "gone"
  BY OwnRecovery, Others, HostAssumption DEF Inv, TypeOK, Files, Approved, Stale, Alive, Readable, Free
<1>2. pc'[approved[q]] = "gone"
  BY <1>1, GoneStays
<1>3. ~Released(p)
  BY <1>1 DEF Released, Release, Inv, Placed, Live
<1>4. ~Remove(p)
  <2> SUFFICES ASSUME Remove(p) PROVE FALSE
    OBVIOUS
  <2>1. file["recovery"] = p /\ pc[p] = "remove" /\ pc'[p] = "release"
    BY DEF Remove, At, Goto, Inv, TypeOK, Recovery, Recovering
  <2>2. q # p
    BY <2>1 DEF Approving
  <2>3. file["recovery"] = q
    BY <2>2, Others DEF Inv, Recovery, Approving, Recovering
  <2> QED BY <2>1, <2>2, <2>3
<1> QED BY <1>1, <1>2, <1>3, <1>4, RuntimeLock, HostAssumption DEF Same, Free

LEMMA StepInv ==
  ASSUME Inv, [Next]_vars PROVE Inv'
<1>1. CASE UNCHANGED vars
  BY <1>1 DEF vars, Inv, TypeOK, Placed, Ordered, Owning, Recovery, Approved, Is
<1>2. CASE Next
  <2>1. PICK p \in Procs : Step(p)
    BY <1>2 DEF Next, Step
  <2>2. TypeOK' /\ \A q \in Procs : Placed(q)' /\ Ordered(q)'
    BY <2>1, OperateTyped, RuntimeTyped, StoppingTyped DEF Step
  <2> QED BY <2>1, <2>2, OwningStep, RecoveryStep, ApprovedStep DEF Inv
<1> QED BY <1>1, <1>2

(* What a process does with a file it has, if nothing throws.               *)
LEMMA KeepsOrReturns ==
  ASSUME Inv, NEW p \in Procs, Step(p), p \notin crashed', errors' = 0
  PROVE  /\ Own(p) = "recovery" /\ pc[p] \in Recovering =>
              pc'[p] \in Recovering \/ file'["recovery"] = Nobody
         /\ Is(p, "maintain") /\ pc[p] \in {"write", "maintaining"} =>
              pc'[p] \in {"write", "maintaining"} \/ file'["maintenance"] = Nobody
         /\ Is(p, "recover") /\ pc[p] \in Fences => pc'[p] \in Fences \/ file'["maintenance"] = Nobody
<1>1. pc \in [Procs -> Steps] /\ file \in [Files -> Procs \cup {Nobody}] /\ errors \in Nat
  BY HostAssumption DEF Inv, TypeOK
<1>2. ~Is(p, "start") => pc[p] \notin Live /\ up[p] = {} /\ stop[p] = "none"
  BY DEF Inv, TypeOK, Placed, Is
<1>3. CASE Is(p, "start")
  BY <1>3 DEF Own, Is
<1>4. CASE ~Is(p, "start") /\ Operate(p)
  BY <1>1, <1>4 DEF Operate, GivesBack, Goto, Unlink, Create, Throws, Own, At, Is, Recovering, Fences, Files, files,
     Begin, Check, Following, Open, WriteRecord, WriteFails, Maintained, Inspect, Verify, OpenMaintenance, WriteMaintenance,
     Final, Remove, RemoveFails, ReleaseRecovery
<1>5. CASE ~Is(p, "start") /\ (Runtime(p) \/ Exit(p))
  BY <1>2, <1>5 DEF Live, Runtime, Exit, BringUp, Started, StartFails, Serve, ServeFails, Signal, Request, Called, Late
<1>6. CASE ~Is(p, "start") /\ Stopping(p)
  BY <1>2, <1>6 DEF Live, Stopping, DisposeStage, DisposeFails, TimesOut, Disposed, Release, ReleaseFails, Disposing, Present
<1>7. ~Crash(p)
  BY DEF Crash
<1> QED BY <1>3, <1>4, <1>5, <1>6, <1>7 DEF Step

LEMMA Counts == ASSUME Inv, NEW p \in Procs, Step(p) PROVE crashed \subseteq crashed' /\ (errors' = 0 => errors = 0)
<1>1. errors \in Nat
  BY HostAssumption DEF Inv, TypeOK
<1> USE <1>1 DEF rest
<1>2. CASE Operate(p)
  BY <1>2 DEF Operate, Throws,
     Begin, Check, Open, WriteRecord, WriteFails, Maintained, Inspect, Verify, OpenMaintenance, WriteMaintenance,
     Final, Remove, RemoveFails, ReleaseRecovery
<1>3. CASE Runtime(p)
  BY <1>3 DEF Runtime, BringUp, Started, StartFails, Serve, ServeFails, Signal, Request, Called, Late
<1>4. CASE Stopping(p)
  <2>1. CASE DisposeStage(p) \/ DisposeFails(p) \/ TimesOut(p) \/ Disposed(p) \/ Release(p)
    BY <2>1 DEF DisposeStage, DisposeFails, TimesOut, Disposed, Release
  <2>2. CASE ReleaseFails(p)
    BY <2>2 DEF ReleaseFails, Throws
  <2> QED BY <1>4, <2>1, <2>2 DEF Stopping
<1>5. CASE Exit(p) \/ Crash(p)
  BY <1>5 DEF Exit, Crash, Ends
<1> QED BY <1>2, <1>3, <1>4, <1>5 DEF Step

LEMMA ReturningStep ==
  ASSUME Inv, \A q \in Procs : Returning(q), NEW p \in Procs, Step(p), NEW q \in Procs PROVE Returning(q)'
<1> SUFFICES ASSUME q \notin crashed', errors' = 0
             PROVE  /\ file'["maintenance"] = q =>
                         \/ Is(q, "maintain") /\ pc'[q] \in {"write", "maintaining"}
                         \/ Is(q, "recover") /\ pc'[q] \in Fences
                    /\ file'["recovery"] = q => Own(q) = "recovery" /\ pc'[q] \in Recovering
  BY DEF Returning, Own, Is
<1>1. Returning(q) /\ q \notin crashed /\ errors = 0
  BY Counts
<1>2. CASE q # p
  <2>1. \A f \in Files : file'[f] = q => file[f] = q
    BY <1>2, FileSteps, HostAssumption DEF Opens, Returned, Released, Unlink, Create, Inv, TypeOK, Files
  <2> QED BY <1>1, <1>2, <2>1, Others DEF Returning, Files
<1>3. CASE q = p
  <2>1. CASE Opens(p)
    BY <1>1, <1>3, <2>1 DEF Opens, Open, Create, Goto, Own, Is, Inv, TypeOK, Files, Returning, Recovering, Fences
  <2>2. CASE OpenMaintenance(p) /\ Free("maintenance") /\ Create(p, "maintenance") /\ Goto(p, "writeMaintenance")
    BY <1>1, <1>3, <2>2 DEF OpenMaintenance, At, Create, Goto, Own, Is, Inv, TypeOK, Files, Returning, Recovering, Fences
  <2>3. CASE \A f \in Files : file'[f] \in {file[f], Nobody}
    BY <1>1, <1>3, <2>3, KeepsOrReturns, HostAssumption DEF Returning, Files
  <2>4. ASSUME NEW f \in Files, Unlink(f) PROVE \A g \in Files : file'[g] \in {file[g], Nobody}
    BY <2>4 DEF Unlink, Inv, TypeOK
  <2>5. CASE Returned(p)
    <3>1. CASE file' = [file EXCEPT !["maintenance"] = Nobody, !["recovery"] = Nobody]
      BY <3>1, <2>3 DEF Inv, TypeOK
    <3> QED BY <2>5, <2>3, <2>4, <3>1 DEF Returned, Files
  <2>6. CASE Released(p) \/ (Maintained(p) /\ Unlink("maintenance")) \/ (Remove(p) /\ Unlink("runtime"))
    BY <2>6, <2>3, <2>4 DEF Released, Files
  <2>7. CASE file' = file
    BY <2>7, <2>3
  <2>8. \/ file' = file
        \/ Opens(p) \/ Returned(p) \/ Released(p)
        \/ Maintained(p) /\ Unlink("maintenance")
        \/ OpenMaintenance(p) /\ Free("maintenance") /\ Create(p, "maintenance") /\ Goto(p, "writeMaintenance")
        \/ Remove(p) /\ Unlink("runtime")
    BY FileSteps
  <2> QED BY <2>1, <2>2, <2>5, <2>6, <2>7, <2>8
<1> QED BY <1>2, <1>3
----------------------------------------------------------------------------
LEMMA Invariant == Spec => []Inv
BY InitInv, StepInv, PTL DEF Spec

LEMMA NothingLeft == Inv => ReleasedIsDown
BY DEF Inv, Placed, Ordered, Owning, ReleasedIsDown, Live

(* Everything keeps its type, and only a process that starts has resources. *)
THEOREM HostTyped == Spec => []TypeOK
<1>1. Inv => TypeOK
  BY DEF Inv
<1> QED BY <1>1, Invariant, PTL

(* runRuntimeStopLifecycle: whatever signals, requests and failed stages     *)
(* there were, a runtime whose stop found its services has given up its     *)
(* lock only with nothing left.                                             *)
THEOREM ReleasedDown == Spec => []ReleasedIsDown
BY NothingLeft, Invariant, PTL

(* Two processes with resources: one was stopped before it had services.    *)
THEOREM OneRuntimeUp == Spec => []OneRuntime
<1>1. Inv => OneRuntime
  BY NothingLeft DEF ReleasedIsDown, OneRuntime
<1> QED BY <1>1, Invariant, PTL

(* acquireRuntimeLock and recoverStaleRuntimeLock: a lock goes by the        *)
(* release of its owner or by a recovery approved for it, when the owner is *)
(* dead.                                                                    *)
THEOREM LockKeptAlways == Spec => LockKept
<1> DEFINE Kept ==
      \A q \in Procs : file["runtime"] = q /\ file'["runtime"] # q =>
        \/ stop[q] = "releasing"
        \/ ~Alive(q) /\ \E p \in Procs : approved[p] = q /\ At(p, "recover", "remove")
<1>1. Inv /\ [Next]_vars => [Kept]_vars
  <2> SUFFICES ASSUME Inv, NEW p \in Procs, Step(p), NEW q \in Procs, file["runtime"] = q, file'["runtime"] # q
               PROVE  \/ stop[q] = "releasing"
                      \/ ~Alive(q) /\ \E o \in Procs : approved[o] = q /\ At(o, "recover", "remove")
    BY DEF Next, Step
  <2>1. CASE Released(p)
    BY <2>1 DEF Released, Release
  <2>2. CASE Remove(p)
    BY <2>2 DEF Remove, At, Inv, Approved, Approving, Alive
  <2> QED BY <2>1, <2>2, RuntimeLock, HostAssumption DEF Same, Free
<1> QED BY <1>1, Invariant, PTL DEF Spec, LockKept

(* A command that was refused at any step, with no error and no crash, has   *)
(* given its ownership back.                                                *)
THEOREM OwnershipBack == Spec => []OwnershipReturned
<1>1. Inv /\ (\A p \in Procs : Returning(p)) /\ [Next]_vars => (\A p \in Procs : Returning(p))'
  <2> SUFFICES ASSUME Inv, \A p \in Procs : Returning(p), [Next]_vars PROVE \A p \in Procs : Returning(p)'
    OBVIOUS
  <2>1. CASE UNCHANGED vars
    BY <2>1 DEF vars, Returning, Own, Is
  <2>2. CASE Next
    BY <2>2, ReturningStep DEF Next, Step
  <2> QED BY <2>1, <2>2
<1>2. (\A p \in Procs : Returning(p)) => OwnershipReturned
  BY DEF Returning, OwnershipReturned, Recovering, Fences
<1> QED BY <1>1, <1>2, InitInv, Invariant, PTL DEF Spec
=============================================================================
