------------------------- MODULE DurableLockProofs -------------------------
(***************************************************************************)
(* Proofs about the durable file lock, for any callers and processes.      *)
(***************************************************************************)
EXTENDS DurableLock, TLAPS

(* TypeOK is inductive: every step of the lock protocol keeps the file, the *)
(* program counters and the counters in their ranges.                       *)
THEOREM LockTyped == Spec => []TypeOK
<1>1. Init => TypeOK
  BY LockAssumption DEF Init, TypeOK, File, Steps
<1>2. TypeOK /\ [Next]_vars => TypeOK'
  <2> SUFFICES ASSUME TypeOK, [Next]_vars PROVE TypeOK'
    OBVIOUS
  <2> USE LockAssumption DEF TypeOK, File, Steps, Goto
  <2>1. ASSUME NEW c \in Callers, Call(c) PROVE TypeOK'
    BY <2>1 DEF Call
  <2>2. ASSUME NEW c \in Callers, Open(c) PROVE TypeOK'
    <3>1. lockFile' \in File \cup {NoFile}
      BY <2>2 DEF Open
    <3>2. pc' \in [Callers -> Steps]
      BY <2>2 DEF Open
    <3> QED
      BY <3>1, <3>2, <2>2 DEF Open
  <2>3. ASSUME NEW c \in Callers, Read(c) PROVE TypeOK'
    BY <2>3 DEF Read
  <2>4. ASSUME NEW c \in Callers, Probe(c) PROVE TypeOK'
    BY <2>4 DEF Probe
  <2>5. ASSUME NEW c \in Callers, Unlink(c) \/ Poll(c) \/ GiveUp(c) PROVE TypeOK'
    BY <2>5 DEF Unlink, Poll, GiveUp
  <2>6. ASSUME NEW c \in Callers, WriteRecord(c) PROVE TypeOK'
    <3>1. lockFile' \in File \cup {NoFile}
      BY <2>6 DEF WriteRecord, OwnedBy
    <3> QED
      BY <3>1, <2>6 DEF WriteRecord
  <2>7. ASSUME NEW c \in Callers, WriteFails(c) \/ OpenDenied(c) PROVE TypeOK'
    BY <2>7 DEF WriteFails, OpenDenied
  <2>8. ASSUME NEW c \in Callers, Finish(c) \/ ReleaseRead(c) \/ ReleaseUnlink(c)
        PROVE TypeOK'
    BY <2>8 DEF Finish, ReleaseRead, ReleaseUnlink
  <2>9. ASSUME NEW p \in Processes, Die(p) PROVE TypeOK'
    BY <2>9 DEF Die
  <2>10. CASE UNCHANGED vars
    BY <2>10 DEF vars
  <2> QED
    BY <2>1, <2>2, <2>3, <2>4, <2>5, <2>6, <2>7, <2>8, <2>9, <2>10 DEF Next
<1> QED
  BY <1>1, <1>2, PTL DEF Spec

(* What holds while every process lives.  A caller that believes it has the *)
(* lock owns the file at the path, and nobody is about to unlink the path:  *)
(* an owner that was read is a caller whose process probes as alive.        *)
HoldsFile(c) == pc[c] \in {"created", "inside", "release", "remove"} => OwnedBy(c)

NoStaleUnlink(c) ==
  /\ pc[c] # "unlink"
  /\ pc[c] = "probe" => seen[c] \in Callers

Undisturbed == \A c \in Callers : HoldsFile(c) /\ NoStaleUnlink(c)

LockInv == alive = Processes => Undisturbed

LEMMA LockInvInductive == TypeOK /\ LockInv /\ [Next]_vars => LockInv'
<1> SUFFICES ASSUME TypeOK, LockInv, [Next]_vars, (alive = Processes)'
             PROVE  Undisturbed'
  BY DEF LockInv
<1> USE LockAssumption DEF TypeOK, File, Undisturbed, HoldsFile, NoStaleUnlink, OwnedBy, Goto
<1>1. alive = Processes
  BY DEF Next, vars, Call, Open, Read, Probe, Unlink, Poll, GiveUp, WriteRecord,
         WriteFails, OpenDenied, Finish, ReleaseRead, ReleaseUnlink, Die
<1>2. Undisturbed
  BY <1>1 DEF LockInv
<1>3. ASSUME NEW c \in Callers, Call(c) PROVE Undisturbed'
  BY <1>2, <1>3 DEF Call
<1>4. ASSUME NEW c \in Callers, Open(c) PROVE Undisturbed'
  BY <1>2, <1>4 DEF Open
<1>5. ASSUME NEW c \in Callers, Read(c) PROVE Undisturbed'
  BY <1>2, <1>5 DEF Read
<1>6. ASSUME NEW c \in Callers, Probe(c) PROVE Undisturbed'
  <2>1. ProcessOf[seen[c]] \in alive
    BY <1>1, <1>2, <1>6 DEF Probe
  <2> QED
    BY <2>1, <1>2, <1>6 DEF Probe
<1>7. ASSUME NEW c \in Callers, Unlink(c) PROVE Undisturbed'
  BY <1>2, <1>7 DEF Unlink
<1>8. ASSUME NEW c \in Callers, Poll(c) \/ GiveUp(c) PROVE Undisturbed'
  BY <1>2, <1>8 DEF Poll, GiveUp
<1>9. ASSUME NEW c \in Callers, WriteRecord(c) PROVE Undisturbed'
  <2>1. lockFile' = [lockFile EXCEPT !.content = "record"] /\ lockFile \in File
    BY <1>2, <1>9 DEF WriteRecord
  <2>2. lockFile'.owner = lockFile.owner /\ lockFile' \in File
    BY <2>1
  <2> QED
    BY <2>1, <2>2, <1>2, <1>9 DEF WriteRecord
<1>10. ASSUME NEW c \in Callers, WriteFails(c) \/ OpenDenied(c) PROVE Undisturbed'
  BY <1>2, <1>10 DEF WriteFails, OpenDenied
<1>11. ASSUME NEW c \in Callers, Finish(c) PROVE Undisturbed'
  BY <1>2, <1>11 DEF Finish
<1>12. ASSUME NEW c \in Callers, ReleaseRead(c) PROVE Undisturbed'
  BY <1>2, <1>12 DEF ReleaseRead
<1>13. ASSUME NEW c \in Callers, ReleaseUnlink(c) PROVE Undisturbed'
  BY <1>2, <1>13 DEF ReleaseUnlink
<1>14. ASSUME NEW p \in Processes, Die(p) PROVE Undisturbed'
  BY <1>14 DEF Die
<1>15. CASE UNCHANGED vars
  BY <1>2, <1>15 DEF vars
<1> QED
  BY <1>3, <1>4, <1>5, <1>6, <1>7, <1>8, <1>9, <1>10, <1>11, <1>12, <1>13, <1>14, <1>15 DEF Next

LEMMA LockInvariant == Spec => []LockInv
<1>1. Init => LockInv
  BY LockAssumption DEF Init, LockInv, Undisturbed, HoldsFile, NoStaleUnlink
<1> QED
  BY <1>1, LockInvInductive, LockTyped, PTL DEF Spec

(* Until a process dies, no two callers are in the critical section of one  *)
(* lock path, in any number and however they are spread over processes.     *)
THEOREM LockExcludesUntilDeath == Spec => []MutexUntilDeath
<1>1. TypeOK /\ LockInv => MutexUntilDeath
  BY DEF LockInv, Undisturbed, HoldsFile, OwnedBy, MutexUntilDeath
<1> QED
  BY <1>1, LockInvariant, LockTyped, PTL

(* Until a process dies the file protocol implements the abstract exclusive *)
(* lock: creating the file is the acquisition, unlinking one's own file the *)
(* release, finding no record of one's own at the path the abandonment.     *)
AbstractStep == [Exclusive!Next]_<<Holder, Working, Intact>>

THEOREM LockImplementsExclusive == Spec => ImplementsExclusiveLock
<1>1. Init => Exclusive!Init
  BY DEF Init, Exclusive!Init, Holder, Working, Intact
<1>2. ASSUME TypeOK, LockInv, [Next]_vars, ~Intact'
      PROVE  AbstractStep
  BY <1>2 DEF AbstractStep, Exclusive!Next
<1>3. ASSUME TypeOK, LockInv, [Next]_vars, Intact'
      PROVE  AbstractStep
  <2> USE <1>3, LockAssumption DEF TypeOK, File, HoldsFile, NoStaleUnlink, OwnedBy, Goto
  <2>0. Intact
    BY DEF Intact, Next, vars, Call, Open, Read, Probe, Unlink, Poll, GiveUp, WriteRecord,
           WriteFails, OpenDenied, Finish, ReleaseRead, ReleaseUnlink, Die
  <2>1. Undisturbed
    BY <2>0 DEF LockInv, Intact
  <2>2. ASSUME NEW c \in Callers, Open(c) PROVE AbstractStep
    <3>1. CASE lockFile = NoFile /\ lockFile' = [owner |-> c, content |-> "empty"]
               /\ pc' = [pc EXCEPT ![c] = "created"]
      <4>1. Working = {} /\ Working' = {c}
        BY <2>1, <3>1 DEF Undisturbed, Working
      <4>2. Exclusive!Acquire(c)
        BY <3>1, <4>1 DEF Exclusive!Acquire, Holder
      <4> QED
        BY <2>0, <4>2 DEF Exclusive!Next, AbstractStep
    <3>2. CASE lockFile' = lockFile /\ pc[c] = "open" /\ pc' = [pc EXCEPT ![c] = "read"]
      BY <2>0, <3>2 DEF Working, Holder, AbstractStep
    <3> QED
      BY <2>2, <3>1, <3>2 DEF Open
  <2>3. ASSUME NEW c \in Callers, pc[c] \in {"release", "remove"}, pc' = [pc EXCEPT ![c] = "idle"],
               lockFile' \in {NoFile, lockFile}
        PROVE  AbstractStep
    <3>1. Holder = c /\ Working = {c} /\ Working' = {}
      BY <2>1, <2>3 DEF Undisturbed, Holder, Working
    <3>2. Exclusive!Release(c) \/ Exclusive!Abandon(c)
      BY <2>3, <3>1 DEF Exclusive!Release, Exclusive!Abandon, Holder
    <3> QED
      BY <2>0, <3>2 DEF Exclusive!Next, AbstractStep
  <2>4. ASSUME NEW c \in Callers, ReleaseRead(c) \/ ReleaseUnlink(c) PROVE AbstractStep
    <3>1. CASE pc' = [pc EXCEPT ![c] = "idle"]
      BY <2>3, <2>4, <3>1 DEF ReleaseRead, ReleaseUnlink
    <3>2. CASE ReleaseRead(c) /\ pc' = [pc EXCEPT ![c] = "remove"]
      BY <2>0, <3>2 DEF ReleaseRead, Working, Holder, AbstractStep
    <3> QED
      BY <2>4, <3>1, <3>2 DEF ReleaseRead, ReleaseUnlink
  <2>5. ASSUME NEW c \in Callers, WriteRecord(c) PROVE AbstractStep
    <3>1. lockFile' = [lockFile EXCEPT !.content = "record"] /\ lockFile \in File
      BY <2>1, <2>5 DEF WriteRecord, Undisturbed
    <3>2. UNCHANGED <<Holder, Working>>
      BY <2>5, <3>1 DEF WriteRecord, Holder, Working
    <3> QED
      BY <2>0, <3>2 DEF AbstractStep
  <2>6. ASSUME NEW c \in Callers, Unlink(c) PROVE FALSE
    BY <2>1, <2>6 DEF Unlink, Undisturbed
  <2>7. ASSUME NEW c \in Callers,
               \/ Call(c) \/ Read(c) \/ Probe(c) \/ Poll(c) \/ GiveUp(c)
               \/ WriteFails(c) \/ OpenDenied(c) \/ Finish(c)
        PROVE  AbstractStep
    BY <2>0, <2>7 DEF Call, Read, Probe, Poll, GiveUp, WriteFails, OpenDenied, Finish,
                Holder, Working, AbstractStep
  <2>8. ASSUME NEW p \in Processes, Die(p) PROVE FALSE
    BY <2>8 DEF Die, Intact
  <2>9. CASE UNCHANGED vars
    BY <2>9 DEF vars, Holder, Working, Intact, AbstractStep
  <2> QED
    BY <2>2, <2>4, <2>5, <2>6, <2>7, <2>8, <2>9 DEF Next
<1> QED
  BY <1>1, <1>2, <1>3, LockInvariant, LockTyped, PTL
     DEF Spec, ImplementsExclusiveLock, Exclusive!Spec, AbstractStep
=============================================================================
