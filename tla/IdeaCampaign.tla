---------------------------- MODULE IdeaCampaign ----------------------------
(***************************************************************************)
(* What Idea Lab campaigns promise to the one who starts them: every       *)
(* production is started for a proposal of its own, a prototype that is    *)
(* ready stays ready, a campaign is complete only with enough of them, and *)
(* one that is cancelled, blocked or complete starts and delivers nothing  *)
(* more.                                                                   *)
(***************************************************************************)
EXTENDS Naturals, FiniteSets

CONSTANTS Campaigns,  \* the campaigns
          Proposals,  \* the numbers of a campaign's proposals
          Target      \* the number of prototypes a campaign is asked for

VARIABLES
  status,             \* the status of each campaign
  started,            \* the proposal each production was started for, 0 for none
  delivered           \* the productions whose prototype is ready

Open(c) == status[c] \in {"generating", "producing"}

Init ==
  /\ status = [c \in Campaigns |-> "none"]
  /\ started = [c \in Campaigns |-> [o \in Proposals |-> 0]]
  /\ delivered = [c \in Campaigns |-> {}]

Move(c, to) ==
  status' = [status EXCEPT ![c] = to] /\ UNCHANGED <<started, delivered>>

Create(c) == status[c] = "none" /\ Move(c, "generating")

Propose(c) == Open(c) /\ Move(c, "producing")

Start(c) ==
  /\ Open(c)
  /\ \E o, p \in Proposals :
       /\ started[c][o] = 0 /\ \A other \in Proposals : started[c][other] # p
       /\ started' = [started EXCEPT ![c][o] = p]
  /\ UNCHANGED <<status, delivered>>

Deliver(c) ==
  /\ Open(c)
  /\ \E o \in Proposals \ delivered[c] :
       started[c][o] # 0 /\ delivered' = [delivered EXCEPT ![c] = @ \cup {o}]
  /\ UNCHANGED <<status, started>>

Complete(c) ==
  Open(c) /\ Cardinality(delivered[c]) >= Target /\ Move(c, "complete")

Block(c) == Open(c) /\ Move(c, "blocked")

Cancel(c) == (Open(c) \/ status[c] = "blocked") /\ Move(c, "cancelled")

Next ==
  \E c \in Campaigns :
    Create(c) \/ Propose(c) \/ Start(c) \/ Deliver(c) \/ Complete(c) \/ Block(c) \/ Cancel(c)

Spec == Init /\ [][Next]_<<status, started, delivered>>
=============================================================================
