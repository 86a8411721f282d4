------------------------ MODULE ProgressBridgeProofs ------------------------
(***************************************************************************)
(* Proofs about ProgressBridge: for any number of events, bridges and      *)
(* faults, a notification that was not refused is handed over once, and    *)
(* once more for each record that was lost.                                *)
(***************************************************************************)
EXTENDS ProgressBridge, TLAPS

Busy(e) == \E b \in Bridges : delivery[b] # "idle" /\ Current(b) = e
NeverRefused(e) == \A i \in DOMAIN log[e] : log[e][i] # "failed"

(* One delivery is under way.                                               *)
Alone == \A b, c \in Bridges : delivery[b] # "idle" /\ delivery[c] # "idle" => b = c

(* What was handed over and is not lost has a record or is under way.       *)
Counted(e) ==
  /\ NeverRefused(e) => sends[e] <= lost[e] + 1
  /\ NeverRefused(e) /\ log[e] = <<>> /\ ~Busy(e) => sends[e] <= lost[e]

Inv == TypeOK /\ Alone /\ \A e \in Events : Counted(e)
----------------------------------------------------------------------------
(* Ends of queues.                                                          *)
LEMMA Longer ==
  ASSUME NEW S, NEW s \in Seq(S), NEW t \in Seq(S), s # <<>>
  PROVE  s \o t \in Seq(S) /\ s \o t # <<>> /\ Head(s \o t) = Head(s)
OBVIOUS

LEMMA Shorter ==
  ASSUME NEW S, NEW s \in Seq(S), s # <<>>
  PROVE  Tail(s) \in Seq(S) /\ Head(s) \in S
OBVIOUS

LEMMA Appended ==
  ASSUME NEW S, NEW s \in Seq(S), NEW x \in S
  PROVE  /\ Append(s, x) \in Seq(S) /\ Append(s, x) # <<>>
         /\ DOMAIN s \subseteq DOMAIN Append(s, x)
         /\ \A i \in DOMAIN s : Append(s, x)[i] = s[i]
OBVIOUS

LEMMA CurrentIs == ASSUME TypeOK, NEW b \in Bridges, queue[b] # <<>> PROVE Current(b) \in Events
BY Shorter DEF TypeOK, Current

LEMMA InitInv == Init => Inv
BY BridgeAssumption DEF Init, Inv, TypeOK, Alone, Counted, Busy, Events, Bridges
----------------------------------------------------------------------------
LEMMA StepTyped == TypeOK /\ [Next]_vars => TypeOK'
<1> SUFFICES ASSUME TypeOK, [Next]_vars PROVE TypeOK'
  OBVIOUS
<1> USE BridgeAssumption
<1>1. CASE Publish
  <2>1. published' \in Events /\ published' \in 0..N
    BY <1>1 DEF Publish, TypeOK, Events
  <2>2. journal' \in Seq(Events)
    BY <1>1, <2>1, Appended DEF Publish, TypeOK
  <2>3. \A b \in Bridges : Append(queue[b], published') \in Seq(Events) /\ Append(queue[b], published') # <<>>
    BY <2>1 DEF TypeOK
  <2>4. queue' \in [Bridges -> Seq(Events)] /\ \A b \in Bridges : queue[b] # <<>> => queue'[b] # <<>>
    BY <1>1, <2>3 DEF Publish, TypeOK
  <2>5. faults' \in 0..MaxFaults
    BY <1>1 DEF Publish, TypeOK
  <2>6. UNCHANGED <<bridge, delivery, log, sends, lost, missed>>
    BY <1>1 DEF Publish
  <2> QED BY <2>1, <2>2, <2>4, <2>5, <2>6 DEF TypeOK
<1>2. CASE Crash
  <2>1. faults' \in 0..MaxFaults /\ UNCHANGED <<published, journal, log, sends, missed>>
    BY <1>2 DEF Crash, TypeOK
  <2>2. bridge' \in [Bridges -> {"none", "replaying", "live", "closed"}]
    BY <1>2 DEF Crash
  <2>3. lost' \in [Events -> Nat]
    <3> DEFINE under(e) == \E b \in Bridges : delivery[b] # "idle" /\ Current(b) = e
    <3>1. \A e \in Events : (IF under(e) THEN lost[e] + 1 ELSE lost[e]) \in Nat
      BY DEF TypeOK
    <3>2. lost' = [e \in Events |-> IF under(e) THEN lost[e] + 1 ELSE lost[e]]
      BY <1>2 DEF Crash
    <3> HIDE DEF under
    <3> QED BY <3>1, <3>2
  <2>4. delivery' = [b \in Bridges |-> "idle"] /\ queue' = [b \in Bridges |-> <<>>]
    BY <1>2 DEF Crash
  <2>5. queue' \in [Bridges -> Seq(Events)]
    BY <2>4
  <2>6. delivery' \in [Bridges -> {"idle", "sending"} \cup Verdicts] /\ \A b \in Bridges : delivery'[b] = "idle"
    BY <2>4
  <2> QED BY <2>1, <2>2, <2>3, <2>5, <2>6 DEF TypeOK
<1>3. ASSUME NEW b \in Bridges, Connect(b) \/ Disconnect(b) PROVE TypeOK'
  BY <1>3 DEF Connect, Disconnect, TypeOK
<1>4. ASSUME NEW b \in Bridges, Replay(b) PROVE TypeOK'
  <2>1. queue[b] \o journal \in Seq(Events) /\ (queue[b] # <<>> => queue[b] \o journal # <<>>)
    BY Longer DEF TypeOK
  <2> QED BY <1>4, <2>1 DEF Replay, TypeOK
<1>5. ASSUME NEW b \in Bridges, Dequeue(b), queue[b] # <<>>
      PROVE  queue' \in [Bridges -> Seq(Events)] /\ \A c \in Bridges \ {b} : queue'[c] = queue[c]
  BY <1>5, Shorter DEF Dequeue, TypeOK
<1>6. ASSUME NEW b \in Bridges, Dropped(b) \/ Conflict(b) \/ Settled(b) PROVE TypeOK'
  BY <1>5, <1>6, CurrentIs DEF Dropped, Conflict, Settled, Waiting, TypeOK
<1>7. ASSUME NEW b \in Bridges, Begin(b) \/ Answer(b) PROVE TypeOK'
  <2>1. /\ queue[b] # <<>> /\ UNCHANGED <<published, journal, bridge, queue, log, lost, missed, faults>>
        /\ \E v \in {"sending"} \cup Verdicts : delivery' = [delivery EXCEPT ![b] = v]
    BY <1>7 DEF Begin, Answer, Waiting, TypeOK
  <2>2. sends' = sends \/ sends' = [sends EXCEPT ![Current(b)] = @ + 1]
    BY <1>7 DEF Begin, Answer
  <2>3. sends' \in [Events -> Nat]
    <3>1. Current(b) \in Events /\ sends \in [Events -> Nat]
      BY <2>1, CurrentIs DEF TypeOK
    <3> QED BY <2>2, <3>1
  <2>4. delivery' \in [Bridges -> {"idle", "sending"} \cup Verdicts]
    BY <2>1 DEF TypeOK
  <2>5. \A c \in Bridges : delivery'[c] # "idle" => queue'[c] # <<>>
    BY <2>1 DEF TypeOK
  <2> QED BY <2>1, <2>3, <2>4, <2>5 DEF TypeOK
<1>8. ASSUME NEW b \in Bridges, Record(b) PROVE TypeOK'
  <2>1. delivery[b] # "idle" /\ queue[b] # <<>> /\ Current(b) \in Events
    BY <1>8, CurrentIs DEF Record, TypeOK, Verdicts
  <2>2. Append(log[Current(b)], delivery[b]) \in Seq(Verdicts)
    BY <1>8, <2>1 DEF Record, TypeOK
  <2>3. log' \in [Events -> Seq(Verdicts)]
    BY <1>8, <2>1, <2>2 DEF Record, TypeOK
  <2> QED BY <1>5, <1>8, <2>1, <2>3 DEF Record, TypeOK
<1>9. ASSUME NEW b \in Bridges, RecordFails(b) PROVE TypeOK'
  <2>1. delivery[b] # "idle" /\ queue[b] # <<>> /\ Current(b) \in Events
    BY <1>9, CurrentIs DEF RecordFails, TypeOK, Verdicts
  <2>2. faults' \in 0..MaxFaults /\ UNCHANGED <<published, journal, bridge, log, sends>>
    BY <1>9 DEF RecordFails, TypeOK
  <2>3. CASE delivery[b] # "unknown"
    <3>1. delivery' = [delivery EXCEPT ![b] = "unknown"] /\ UNCHANGED <<queue, lost, missed>>
      BY <1>9, <2>3 DEF RecordFails
    <3> QED BY <2>1, <2>2, <3>1 DEF TypeOK, Verdicts
  <2>4. CASE delivery[b] = "unknown"
    <3>1. /\ delivery' = [delivery EXCEPT ![b] = "idle"] /\ Dequeue(b)
          /\ lost' = [lost EXCEPT ![Current(b)] = @ + 1] /\ missed' = missed \cup {Current(b)}
      BY <1>9, <2>4 DEF RecordFails
    <3>2. lost' \in [Events -> Nat] /\ missed' \subseteq Events
      BY <2>1, <3>1 DEF TypeOK
    <3> QED BY <1>5, <2>1, <2>2, <3>1, <3>2 DEF TypeOK
  <2> QED BY <2>3, <2>4
<1>10. CASE UNCHANGED vars
  BY <1>10 DEF vars, TypeOK
<1> QED BY <1>1, <1>2, <1>3, <1>4, <1>6, <1>7, <1>8, <1>9, <1>10 DEF Next, Deliver

LEMMA StepAlone == TypeOK /\ Alone /\ [Next]_vars => Alone'
<1> SUFFICES ASSUME TypeOK, Alone, [Next]_vars PROVE Alone'
  OBVIOUS
<1>1. CASE UNCHANGED delivery
  BY <1>1 DEF Alone
<1>2. ASSUME NEW b \in Bridges, Begin(b) \/ Answer(b) \/ Record(b) \/ RecordFails(b) PROVE Alone'
  <2>1. \E v : delivery' = [delivery EXCEPT ![b] = v]
    BY <1>2 DEF Begin, Answer, Record, RecordFails
  <2>2. \A c \in Bridges \ {b} : delivery'[c] = delivery[c]
    BY <2>1 DEF TypeOK
  <2>3. \A c \in Bridges \ {b} : delivery[c] = "idle"
    BY <1>2 DEF Alone, Begin, Locked, Answer, Record, RecordFails, Verdicts
  <2> QED BY <2>2, <2>3 DEF Alone
<1>3. CASE Crash
  BY <1>3 DEF Crash, Alone
<1> QED BY <1>1, <1>2, <1>3
        DEF Next, vars, Deliver, Publish, Connect, Replay, Disconnect, Dropped, Conflict, Settled
----------------------------------------------------------------------------
(* A step that leaves deliveries alone leaves the first of their queues.     *)
LEMMA StillBusy ==
  ASSUME TypeOK, UNCHANGED delivery, [Next]_vars, NEW e \in Events
  PROVE  Busy(e)' <=> Busy(e)
<1> SUFFICES \A b \in Bridges : delivery[b] # "idle" => Current(b)' = Current(b)
  BY DEF Busy
<1> TAKE b \in Bridges
<1> HAVE delivery[b] # "idle"
<1>1. queue[b] \in Seq(Events) /\ queue[b] # <<>> /\ journal \in Seq(Events)
  BY DEF TypeOK
<1>2. CASE queue'[b] = queue[b]
  BY <1>2 DEF Current
<1>3. CASE Publish
  <2>1. published' \in Events
    BY <1>3, BridgeAssumption DEF Publish, TypeOK, Events
  <2> QED BY <1>1, <1>3, <2>1 DEF Publish, Current
<1>4. ASSUME NEW c \in Bridges, Replay(c) PROVE Current(b)' = Current(b)
  <2>1. queue'[b] = queue[b] \/ queue'[b] = queue[b] \o journal
    BY <1>4 DEF Replay, TypeOK
  <2> QED BY <1>1, <1>2, <2>1, Longer DEF Current
<1>5. ASSUME NEW c \in Bridges, Waiting(c), Dequeue(c) PROVE queue'[b] = queue[b]
  BY <1>5 DEF Waiting, Dequeue, TypeOK
<1>6. ASSUME NEW c \in Bridges, Begin(c) \/ Answer(c) \/ Record(c) \/ RecordFails(c) PROVE queue'[b] = queue[b]
  BY <1>6 DEF Begin, Waiting, Answer, Record, RecordFails, TypeOK, Verdicts
<1>7. CASE Crash
  BY <1>7 DEF Crash
<1> QED BY <1>2, <1>3, <1>4, <1>5, <1>6, <1>7
        DEF Next, vars, Deliver, Connect, Disconnect, Dropped, Conflict, Settled

LEMMA StepCounted == Inv /\ [Next]_vars => \A e \in Events : Counted(e)'
<1> SUFFICES ASSUME Inv, [Next]_vars, NEW e \in Events PROVE Counted(e)'
  OBVIOUS
<1> USE DEF Inv
<1>1. /\ sends \in [Events -> Nat] /\ lost \in [Events -> Nat] /\ log[e] \in Seq(Verdicts)
      /\ Counted(e)
  BY DEF TypeOK
<1>2. CASE UNCHANGED <<delivery, log, sends, lost>>
  BY <1>1, <1>2, StillBusy DEF Counted, NeverRefused
<1>3. ASSUME NEW b \in Bridges, Begin(b) PROVE Counted(e)'
  <2>1. CASE Current(b) # e
    <3>1. Busy(e)' <=> Busy(e)
      BY <1>3, <2>1 DEF Begin, Waiting, Busy, Current, TypeOK
    <3>2. sends'[e] = sends[e]
      BY <1>1, <1>3, <2>1 DEF Begin
    <3> QED BY <1>1, <1>3, <3>1, <3>2 DEF Begin, Counted, NeverRefused
  <2>2. CASE Current(b) = e
    <3>1. sends'[e] = sends[e] + 1 /\ UNCHANGED <<log, lost, queue>>
      BY <1>1, <1>3, <2>2 DEF Begin
    <3>2. Busy(e)'
      BY <1>3, <2>2 DEF Begin, Busy, Current, TypeOK
    <3>3. ~Busy(e)
      BY <1>3 DEF Begin, Busy, Locked
    <3>4. ASSUME NeverRefused(e) PROVE log[e] = <<>>
      <4>1. SUFFICES ASSUME log[e] # <<>> PROVE FALSE
        OBVIOUS
      <4>2. log[e][1] \in Verdicts /\ 1 \in DOMAIN log[e]
        BY <1>1, <4>1
      <4> QED BY <1>3, <2>2, <3>4, <4>1, <4>2 DEF Begin, Prior, NeverRefused, Verdicts
    <3> QED BY <1>1, <3>1, <3>2, <3>3, <3>4 DEF Counted, NeverRefused
  <2> QED BY <2>1, <2>2
<1>4. ASSUME NEW b \in Bridges, Answer(b) PROVE Counted(e)'
  <2>1. Busy(e)' <=> Busy(e)
    BY <1>4 DEF Answer, Busy, Current, TypeOK, Verdicts
  <2> QED BY <1>1, <1>4, <2>1 DEF Answer, Counted, NeverRefused
<1>5. ASSUME NEW b \in Bridges, delivery[b] # "idle", Dequeue(b), delivery' = [delivery EXCEPT ![b] = "idle"]
      PROVE  Current(b) # e => (Busy(e)' <=> Busy(e))
  <2>1. \A c \in Bridges \ {b} : delivery'[c] = delivery[c] /\ Current(c)' = Current(c)
    BY <1>5 DEF Dequeue, Current, TypeOK
  <2>2. delivery'[b] = "idle"
    BY <1>5 DEF TypeOK
  <2> QED BY <1>5, <2>1, <2>2 DEF Busy
<1>6. ASSUME NEW b \in Bridges, Record(b) PROVE Counted(e)'
  <2>1. delivery[b] # "idle" /\ delivery[b] \in Verdicts
    BY <1>6 DEF Record, Verdicts
  <2>2. CASE Current(b) # e
    <3>1. (Busy(e)' <=> Busy(e)) /\ UNCHANGED <<sends, lost>>
      BY <1>5, <1>6, <2>1, <2>2 DEF Record
    <3>2. log'[e] = log[e]
      BY <1>6, <2>2 DEF Record, TypeOK
    <3> QED BY <1>1, <3>1, <3>2 DEF Counted, NeverRefused
  <2>3. CASE Current(b) = e
    <3>1. log'[e] = Append(log[e], delivery[b]) /\ UNCHANGED <<sends, lost>>
      BY <1>6, <2>3 DEF Record, TypeOK
    <3>2. log'[e] # <<>>
      BY <1>1, <2>1, <3>1, Appended
    <3>3. NeverRefused(e)' => NeverRefused(e)
      BY <1>1, <2>1, <3>1, Appended DEF NeverRefused
    <3> QED BY <1>1, <3>1, <3>2, <3>3 DEF Counted
  <2> QED BY <2>2, <2>3
<1>7. ASSUME NEW b \in Bridges, RecordFails(b) PROVE Counted(e)'
  <2>1. delivery[b] # "idle"
    BY <1>7 DEF RecordFails, Verdicts
  <2>2. CASE delivery[b] # "unknown"
    <3>1. Busy(e)' <=> Busy(e)
      BY <1>7, <2>1, <2>2 DEF RecordFails, Busy, Current, TypeOK
    <3> QED BY <1>1, <1>7, <2>2, <3>1 DEF RecordFails, Counted, NeverRefused
  <2>3. CASE delivery[b] = "unknown" /\ Current(b) # e
    <3>1. lost'[e] = lost[e]
      BY <1>1, <1>7, <2>3 DEF RecordFails
    <3> QED BY <1>1, <1>5, <1>7, <2>1, <2>3, <3>1 DEF RecordFails, Counted, NeverRefused
  <2>4. CASE delivery[b] = "unknown" /\ Current(b) = e
    <3>1. lost'[e] = lost[e] + 1 /\ UNCHANGED <<log, sends>>
      BY <1>1, <1>7, <2>4 DEF RecordFails
    <3> QED BY <1>1, <3>1 DEF Counted, NeverRefused
  <2> QED BY <2>2, <2>3, <2>4
<1>8. CASE Crash
  <2>1. lost'[e] = (IF Busy(e) THEN lost[e] + 1 ELSE lost[e]) /\ UNCHANGED <<log, sends>>
    BY <1>8 DEF Crash, Busy
  <2> QED BY <1>1, <2>1 DEF Counted, NeverRefused
<1> QED BY <1>2, <1>3, <1>4, <1>6, <1>7, <1>8
        DEF Next, vars, Deliver, Publish, Connect, Replay, Disconnect, Dropped, Conflict, Settled
----------------------------------------------------------------------------
LEMMA Invariance == Spec => []Inv
<1>1. Inv /\ [Next]_vars => Inv'
  BY StepTyped, StepAlone, StepCounted DEF Inv
<1> QED BY InitInv, <1>1, PTL DEF Spec

(* Events, queues, deliveries and records keep their types; a delivery under *)
(* way is one of the first in its queue.                                    *)
THEOREM BridgeTyped == Spec => []TypeOK
<1>1. Inv => TypeOK
  BY DEF Inv
<1> QED BY <1>1, Invariance, PTL

(* dispatchProgressNotification: whatever bridges disconnect, connect, replay *)
(* and crash, the channel is handed a notification it never refused once, and *)
(* once more for each time its record was lost.                             *)
THEOREM HandedOverOnce == Spec => []OnceUnlessRefused
<1>1. Inv => OnceUnlessRefused
  <2> SUFFICES ASSUME Inv, NEW e \in Events, NeverRefused(e) PROVE sends[e] <= 1 + lost[e]
    BY DEF OnceUnlessRefused, NeverRefused
  <2>1. sends[e] \in Nat /\ lost[e] \in Nat /\ sends[e] <= lost[e] + 1
    BY DEF Inv, TypeOK, Counted
  <2> QED BY <2>1
<1> QED BY <1>1, Invariance, PTL
=============================================================================
