--------------------------- MODULE ProgressBridge ---------------------------
(***************************************************************************)
(* The notifications of one project on their way to its Discord channel:   *)
(* the event bus with its journal, the bridge that follows the bus and     *)
(* replays the journal when it connects, and the delivery of a             *)
(* notification with its durable record.  A bridge that disconnects        *)
(* finishes the delivery it is in, so it can meet the next one.            *)
(***************************************************************************)
EXTENDS Integers, Sequences

CONSTANTS N,            \* events published in a behaviour
          MaxBridges,   \* bridges connected one after another
          MaxFaults     \* crashes and failed writes

ASSUME BridgeAssumption == N \in Nat /\ MaxBridges \in Nat /\ MaxFaults \in Nat

VARIABLES published,  \* how many events there are
          journal,    \* those with a file in the journal, as they occurred
          bridge,     \* what each bridge is, and whether its replay is due
          queue,      \* the promise chain of each bridge
          delivery,   \* where the delivery of the first in the queue is
          log,        \* the records of each event in delivered.jsonl, in order
          sends,      \* history: how often each was handed to the adapter
          lost,       \* history: how many of those left no record
          missed,     \* history: the events a bridge gave up
          faults

vars == <<published, journal, bridge, queue, delivery, log, sends, lost, missed, faults>>

Events == 1..N
Bridges == 1..MaxBridges
Verdicts == {"accepted", "failed", "unknown"}

(* The records are searched from the first.                                 *)
Prior(e) == IF log[e] = <<>> THEN "none" ELSE log[e][1]

Journalled(e) == \E i \in 1..Len(journal) : journal[i] = e

Locked == \E b \in Bridges : delivery[b] # "idle"
Current(b) == Head(queue[b])
Active(b) == bridge[b] \in {"replaying", "live"}
Waiting(b) == delivery[b] = "idle" /\ queue[b] # <<>>
Dequeue(b) == queue' = [queue EXCEPT ![b] = Tail(@)]

Init ==
  /\ published = 0 /\ journal = <<>>
  /\ bridge = [b \in Bridges |-> "none"]
  /\ queue = [b \in Bridges |-> <<>>]
  /\ delivery = [b \in Bridges |-> "idle"]
  /\ log = [e \in Events |-> <<>>]
  /\ sends = [e \in Events |-> 0] /\ lost = [e \in Events |-> 0]
  /\ missed = {} /\ faults = 0

(* The journal is written first; if that fails the event is live only.      *)
Publish ==
  /\ published < N
  /\ published' = published + 1
  /\ \/ journal' = Append(journal, published') /\ UNCHANGED faults
     \/ faults < MaxFaults /\ faults' = faults + 1 /\ UNCHANGED journal
  /\ queue' = [b \in Bridges |-> IF Active(b) THEN Append(queue[b], published') ELSE queue[b]]
  /\ UNCHANGED <<bridge, delivery, log, sends, lost, missed>>

Connect(b) ==
  /\ bridge[b] = "none"
  /\ \A c \in Bridges : bridge[c] = IF c < b THEN "closed" ELSE "none"
  /\ bridge' = [bridge EXCEPT ![b] = "replaying"]
  /\ UNCHANGED <<published, journal, queue, delivery, log, sends, lost, missed, faults>>

(* replayAll answers, in the order in which the events occurred.            *)
Replay(b) ==
  /\ bridge[b] = "replaying"
  /\ bridge' = [bridge EXCEPT ![b] = "live"]
  /\ queue' = [queue EXCEPT ![b] = @ \o journal]
  /\ UNCHANGED <<published, journal, delivery, log, sends, lost, missed, faults>>

Disconnect(b) ==
  /\ Active(b)
  /\ bridge' = [bridge EXCEPT ![b] = "closed"]
  /\ UNCHANGED <<published, journal, queue, delivery, log, sends, lost, missed, faults>>

Dropped(b) ==
  /\ Waiting(b) /\ ~Active(b)
  /\ Dequeue(b)
  /\ UNCHANGED <<published, journal, bridge, delivery, log, sends, lost, missed, faults>>

(* The lock is not waited for: the conflict is answered unknown, and nothing *)
(* is recorded.                                                             *)
Conflict(b) ==
  /\ Waiting(b) /\ Active(b) /\ Locked
  /\ Dequeue(b)
  /\ missed' = missed \cup {Current(b)}
  /\ UNCHANGED <<published, journal, bridge, delivery, log, sends, lost, faults>>

Settled(b) ==
  /\ Waiting(b) /\ Active(b) /\ ~Locked
  /\ Prior(Current(b)) \in {"accepted", "unknown"}
  /\ Dequeue(b)
  /\ UNCHANGED <<published, journal, bridge, delivery, log, sends, lost, missed, faults>>

(* Fault: the lock is not taken. *)
BeginUnlocked(b) ==
  /\ Waiting(b) /\ Active(b)
  /\ Prior(Current(b)) \notin {"accepted", "unknown"}
  /\ delivery' = [delivery EXCEPT ![b] = "sending"]
  /\ sends' = [sends EXCEPT ![Current(b)] = @ + 1]
  /\ UNCHANGED <<published, journal, bridge, queue, log, lost, missed, faults>>

Begin(b) ==
  /\ Waiting(b) /\ Active(b) /\ ~Locked
  /\ Prior(Current(b)) \notin {"accepted", "unknown"}
  /\ delivery' = [delivery EXCEPT ![b] = "sending"]
  /\ sends' = [sends EXCEPT ![Current(b)] = @ + 1]
  /\ UNCHANGED <<published, journal, bridge, queue, log, lost, missed, faults>>

(* The adapter accepts, refuses or throws; when it throws nobody knows       *)
(* whether the message arrived.                                             *)
Answer(b) ==
  /\ delivery[b] = "sending"
  /\ \E verdict \in Verdicts : delivery' = [delivery EXCEPT ![b] = verdict]
  /\ UNCHANGED <<published, journal, bridge, queue, log, sends, lost, missed, faults>>

Record(b) ==
  /\ delivery[b] \in Verdicts
  /\ log' = [log EXCEPT ![Current(b)] = Append(@, delivery[b])]
  /\ delivery' = [delivery EXCEPT ![b] = "idle"]
  /\ Dequeue(b)
  /\ UNCHANGED <<published, journal, bridge, sends, lost, missed, faults>>

(* Fault: a delivery that throws ends the chain of its project. *)
RecordFailsForGood(b) ==
  /\ delivery[b] \in Verdicts /\ faults < MaxFaults
  /\ faults' = faults + 1
  /\ delivery' = [delivery EXCEPT ![b] = "idle"]
  /\ lost' = [lost EXCEPT ![Current(b)] = @ + 1]
  /\ missed' = missed \cup {Current(b)}
  /\ queue' = [queue EXCEPT ![b] = <<>>]
  /\ UNCHANGED <<published, journal, bridge, log, sends>>

(* appendFile throws.  The first two are inside the try, whose catch records *)
(* unknown; the throw of the catch ends the delivery.                       *)
RecordFails(b) ==
  /\ delivery[b] \in Verdicts /\ faults < MaxFaults
  /\ faults' = faults + 1
  /\ \/ /\ delivery[b] # "unknown"
        /\ delivery' = [delivery EXCEPT ![b] = "unknown"]
        /\ UNCHANGED <<queue, lost, missed>>
     \/ /\ delivery[b] = "unknown"
        /\ delivery' = [delivery EXCEPT ![b] = "idle"]
        /\ lost' = [lost EXCEPT ![Current(b)] = @ + 1]
        /\ missed' = missed \cup {Current(b)}
        /\ Dequeue(b)
  /\ UNCHANGED <<published, journal, bridge, log, sends>>

(* The process ends; a dead owner's lock is removed.                        *)
Crash ==
  /\ faults < MaxFaults /\ \E b \in Bridges : Active(b) \/ delivery[b] # "idle"
  /\ faults' = faults + 1
  /\ bridge' = [b \in Bridges |-> IF bridge[b] = "none" THEN "none" ELSE "closed"]
  /\ lost' = [e \in Events |->
                IF \E b \in Bridges : delivery[b] # "idle" /\ Current(b) = e THEN lost[e] + 1 ELSE lost[e]]
  /\ delivery' = [b \in Bridges |-> "idle"] /\ queue' = [b \in Bridges |-> <<>>]
  /\ UNCHANGED <<published, journal, log, sends, missed>>

Deliver(b) ==
  \/ Dropped(b) \/ Conflict(b) \/ Settled(b) \/ Begin(b) \/ Answer(b) \/ Record(b) \/ RecordFails(b)

Next ==
  \/ Publish \/ Crash
  \/ \E b \in Bridges : Connect(b) \/ Replay(b) \/ Disconnect(b) \/ Deliver(b)

Spec == Init /\ [][Next]_vars

(* The promises of a live process go on, and the adapter answers or throws. *)
FairSpec ==
  Spec /\ \A b \in Bridges : WF_vars(Replay(b)) /\ WF_vars(Deliver(b))
----------------------------------------------------------------------------
TypeOK ==
  /\ published \in 0..N /\ journal \in Seq(Events)
  /\ bridge \in [Bridges -> {"none", "replaying", "live", "closed"}]
  /\ queue \in [Bridges -> Seq(Events)]
  /\ delivery \in [Bridges -> {"idle", "sending"} \cup Verdicts]
  /\ \A b \in Bridges : delivery[b] # "idle" => queue[b] # <<>>
  /\ log \in [Events -> Seq(Verdicts)]
  /\ sends \in [Events -> Nat] /\ lost \in [Events -> Nat]
  /\ missed \subseteq Events /\ faults \in 0..MaxFaults

(* dispatchProgressNotification decides from the records, and bridges before *)
(* and after a restart, live events and replays all come to it: a            *)
(* notification that the channel never refused is handed over once, and once *)
(* more for each time its record was lost.                                  *)
OnceUnlessRefused ==
  \A e \in Events : (\A i \in DOMAIN log[e] : log[e][i] # "failed") => sends[e] <= 1 + lost[e]

(* Whatever was delivered before and whatever throws in between, a bridge    *)
(* that stays connected comes to every event of the journal, the project     *)
(* queue goes on after a failure, and the event ends with a record, unless   *)
(* it was given up for the lock or its record could not be written.          *)
JournalReached ==
  \A b \in Bridges, e \in Events :
    (Active(b) /\ Journalled(e)) ~> (log[e] # <<>> \/ ~Active(b) \/ e \in missed)

(* "adapter exceptions are recorded as unknown so a restart cannot blindly   *)
(* duplicate an uncertain send": what has such a record, or an accepted one, *)
(* is not sent again. The code does not keep it: behind a "failed" record    *)
(* Settled never sees the one that follows.                                 *)
SettledNotResent ==
  [][\A e \in Events : (\E i \in DOMAIN log[e] : log[e][i] \in {"accepted", "unknown"})
                         => sends'[e] = sends[e]]_vars
=============================================================================
