----------------------- MODULE CampaignRuntimeProofs ------------------------
(***************************************************************************)
(* Proofs about the Idea Lab runtime, for any campaigns, targets, budgets, *)
(* step limits and outcomes, and any number of disturbances.               *)
(***************************************************************************)
EXTENDS CampaignRuntime, FiniteSetTheorems, WellFoundedInduction, TLAPS

LEMMA Constants ==
  /\ ProposalBudget \in Nat \ {0} /\ Target \in Nat \ {0} /\ MaxSteps \in Nat \ {0}
  /\ NoCampaign \notin Campaigns /\ MaxDisturbances \in Nat
BY CampaignAssumption

----------------------------------------------------------------------------
(* The queues: no campaign is in them twice, and what is scheduled is in    *)
(* them or is being passed.                                                 *)
Waits(q) == ToSet(q.fresh) \cup ToSet(q.recovery)

Once(seq) == \A i, j \in DOMAIN seq : seq[i] = seq[j] => i = j

InLine(q) ==
  /\ q = [fresh |-> q.fresh, recovery |-> q.recovery, scheduled |-> q.scheduled,
          failed |-> q.failed, follow |-> q.follow, active |-> q.active]
  /\ q.fresh \in Seq(Campaigns) /\ q.recovery \in Seq(Campaigns)
  /\ q.failed \subseteq Campaigns /\ q.follow \subseteq Campaigns
  /\ q.active \in Campaigns \cup {NoCampaign}
  /\ Once(q.fresh) /\ Once(q.recovery) /\ ToSet(q.fresh) \cap ToSet(q.recovery) = {}
  /\ q.active \notin Waits(q)
  /\ q.scheduled = Waits(q) \cup ({q.active} \ {NoCampaign})

LEMMA ToSetType ==
  ASSUME NEW s \in Seq(Campaigns)
  PROVE  ToSet(s) \subseteq Campaigns
BY DEF ToSet

LEMMA AppendOnce ==
  ASSUME NEW s \in Seq(Campaigns), NEW c \in Campaigns, Once(s), c \notin ToSet(s)
  PROVE  /\ Append(s, c) \in Seq(Campaigns) /\ Once(Append(s, c))
         /\ ToSet(Append(s, c)) = ToSet(s) \cup {c}
<1>1. Append(s, c) \in Seq(Campaigns)
  OBVIOUS
<1> DEFINE t == Append(s, c)
<1>2. /\ DOMAIN t = DOMAIN s \cup {Len(s) + 1} /\ t[Len(s) + 1] = c
      /\ \A i \in DOMAIN s : t[i] = s[i] /\ i # Len(s) + 1
  OBVIOUS
<1> HIDE DEF t
<1>3. ToSet(t) = ToSet(s) \cup {c}
  BY <1>2 DEF ToSet
<1>4. Once(t)
  BY <1>2 DEF Once, ToSet
<1> QED
  BY <1>1, <1>3, <1>4 DEF t

LEMMA TailOnce ==
  ASSUME NEW s \in Seq(Campaigns), s # <<>>, Once(s)
  PROVE  /\ Head(s) \in Campaigns /\ Head(s) \in ToSet(s)
         /\ Tail(s) \in Seq(Campaigns) /\ Once(Tail(s))
         /\ ToSet(Tail(s)) = ToSet(s) \ {Head(s)}
<1>1. /\ Head(s) = s[1] /\ 1 \in DOMAIN s /\ Tail(s) \in Seq(Campaigns)
      /\ DOMAIN Tail(s) = 1 .. Len(s) - 1 /\ DOMAIN s = 1 .. Len(s) /\ Len(s) \in Nat
      /\ \A i \in DOMAIN Tail(s) : Tail(s)[i] = s[i + 1]
  OBVIOUS
<1>2. \A i \in DOMAIN s : i # 1 => i - 1 \in DOMAIN Tail(s) /\ s[i] = Tail(s)[i - 1]
  BY <1>1
<1>3. \A i \in DOMAIN Tail(s) : i + 1 \in DOMAIN s /\ i + 1 # 1
  BY <1>1
<1>4. Once(Tail(s))
  BY <1>1, <1>3 DEF Once
<1>5. ToSet(Tail(s)) = ToSet(s) \ {Head(s)}
  <2>1. ASSUME NEW x \in ToSet(Tail(s)) PROVE x \in ToSet(s) /\ x # Head(s)
    <3>1. PICK i \in DOMAIN Tail(s) : x = Tail(s)[i]
      BY DEF ToSet
    <3>2. x = s[i + 1] /\ i + 1 \in DOMAIN s /\ i + 1 # 1
      BY <1>1, <1>3, <3>1
    <3> QED
      BY <1>1, <3>2 DEF ToSet, Once
  <2>2. ASSUME NEW x \in ToSet(s), x # Head(s) PROVE x \in ToSet(Tail(s))
    <3>1. PICK i \in DOMAIN s : x = s[i]
      BY DEF ToSet
    <3>2. i # 1
      BY <1>1, <2>2, <3>1
    <3> QED
      BY <1>2, <3>1, <3>2 DEF ToSet
  <2> QED
    BY <2>1, <2>2
<1>6. Head(s) \in Campaigns /\ Head(s) \in ToSet(s)
  BY <1>1 DEF ToSet
<1> QED
  BY <1>1, <1>4, <1>5, <1>6

(* schedule keeps the queues in line, drops nothing, and takes a recovery   *)
(* into the queue unless a pass that will repeat it is running.             *)
LEMMA ScheduledInLine ==
  ASSUME NEW q, InLine(q), NEW c \in Campaigns, NEW source \in {"fresh", "recovery"},
         NEW r, r = Scheduled(q, c, source)
  PROVE  /\ InLine(r) /\ r.active = q.active /\ r.failed = q.failed
         /\ Waits(q) \subseteq Waits(r) /\ q.follow \subseteq r.follow
         /\ accepting = "open" /\ source = "recovery" =>
              c \in Waits(r) \/ (c = r.active /\ c \in r.follow)
<1>0. q.active = NoCampaign \/ q.active \in Campaigns
  BY DEF InLine
<1>1. CASE accepting = "closed"
  BY <1>1 DEF Scheduled
<1>2. CASE accepting # "closed" /\ c \notin q.scheduled
  <2>1. c \notin ToSet(q.fresh) /\ c \notin ToSet(q.recovery) /\ c # q.active
    BY <1>2, Constants DEF InLine, Waits
  <2>2. CASE source = "fresh"
    <3> DEFINE t == [fresh |-> Append(q.fresh, c), recovery |-> q.recovery, scheduled |-> q.scheduled \cup {c},
                     failed |-> q.failed, follow |-> q.follow, active |-> q.active]
    <3>1. r = t
      BY <1>2, <2>2 DEF Scheduled, Queued, InLine
    <3>2. /\ r.fresh \in Seq(Campaigns) /\ Once(r.fresh) /\ ToSet(r.fresh) = ToSet(q.fresh) \cup {c}
      BY <2>1, <3>1, AppendOnce DEF InLine
    <3>3. InLine(r) /\ Waits(q) \subseteq Waits(r)
      BY <2>1, <3>1, <3>2 DEF InLine, Waits
    <3> QED
      BY <2>2, <3>1, <3>3
  <2>3. CASE source = "recovery"
    <3> DEFINE t == [fresh |-> q.fresh, recovery |-> Append(q.recovery, c), scheduled |-> q.scheduled \cup {c},
                     failed |-> q.failed, follow |-> q.follow, active |-> q.active]
    <3>1. r = t
      BY <1>2, <2>3 DEF Scheduled, Queued, InLine
    <3>2. /\ r.recovery \in Seq(Campaigns) /\ Once(r.recovery) /\ ToSet(r.recovery) = ToSet(q.recovery) \cup {c}
      BY <2>1, <3>1, AppendOnce DEF InLine
    <3>3. InLine(r) /\ Waits(q) \subseteq Waits(r) /\ c \in Waits(r)
      BY <2>1, <3>1, <3>2 DEF InLine, Waits
    <3> QED
      BY <2>3, <3>1, <3>3
  <2> QED
    BY <2>2, <2>3
<1>3. CASE accepting # "closed" /\ c \in q.scheduled /\ source = "recovery" /\ q.active = c
  <2> DEFINE t == [fresh |-> q.fresh, recovery |-> q.recovery, scheduled |-> q.scheduled,
                   failed |-> q.failed, follow |-> q.follow \cup {c}, active |-> q.active]
  <2>1. r = t
    BY <1>3 DEF Scheduled, InLine
  <2>2. InLine(r) /\ Waits(r) = Waits(q)
    BY <2>1 DEF InLine, Waits
  <2> QED
    BY <1>3, <2>1, <2>2
<1>4. CASE accepting # "closed" /\ c \in q.scheduled /\ ~(source = "recovery" /\ q.active = c)
  <2>1. r = q
    BY <1>4 DEF Scheduled
  <2>2. source = "recovery" => c \in Waits(q)
    BY <1>4 DEF InLine
  <2> QED
    BY <2>1, <2>2
<1> QED
  BY <1>1, <1>2, <1>3, <1>4
----------------------------------------------------------------------------
(* The first of some numbers is one of them.                                *)
LEMMA FirstIn ==
  ASSUME NEW S \in SUBSET Nat, S # {}
  PROVE  First(S) \in S
<1> DEFINE R == {ss \in Nat \X Nat : ss[1] < ss[2]}
<1>1. IsWellFoundedOn(R, Nat)
  BY NatLessThanWellFounded DEF OpToRel
<1>2. PICK n \in S : \A m \in S : <<m, n>> \notin R
  <2> HIDE DEF R
  <2> QED
    BY <1>1, WFMin
<1>3. \A m \in S : n <= m
  <2>1. ASSUME NEW m \in S PROVE n <= m
    <3>1. <<m, n>> \in Nat \X Nat
      OBVIOUS
    <3>2. ~(m < n)
      BY <1>2, <3>1
    <3> QED
      BY <3>2
  <2> QED
    BY <2>1
<1> QED
  BY <1>3 DEF First
----------------------------------------------------------------------------
(* The files.  The productions of a campaign are numbered without a gap,    *)
(* each is made of a proposal of its own, those that are ready deserve it,  *)
(* and a complete campaign has enough of them and lists them all.           *)
Records ==
  /\ campaign \in [Campaigns -> Campaign]
  /\ production \in [Campaigns -> [Ordinals -> Production]]

MadeInOrder(c) == \E n \in 0 .. ProposalBudget : Made(c) = 1 .. n

MadeOnce(c) ==
  /\ \A o \in Ordinals : IF o \in Made(c) THEN production[c][o].proposal \in DOMAIN campaign[c].proposals
                         ELSE production[c][o].proposal = 0
  /\ \A o, p \in Made(c) : production[c][o].proposal = production[c][p].proposal => o = p

Deserved(c) ==
  /\ \A o \in Ready(c) : production[c][o].run = "DONE" /\ production[c][o].candidate = "saved"
  /\ campaign[c].status = "complete" => Cardinality(Ready(c)) >= Target /\ campaign[c].linked = Made(c)

Numbered(c) ==
  /\ Len(campaign[c].proposals) <= ProposalBudget
  /\ MadeInOrder(c) /\ MadeOnce(c) /\ Deserved(c)
  /\ campaign[c].linked \subseteq Made(c)

LEMMA Untouched ==
  ASSUME NEW c \in Campaigns, campaign'[c] = campaign[c], production'[c] = production[c], Numbered(c)
  PROVE  Numbered(c)' /\ Made(c)' = Made(c) /\ Waiting(c)' = Waiting(c)
<1>1. Made(c)' = Made(c)
  BY DEF Made
<1>2. Ready(c)' = Ready(c)
  BY <1>1 DEF Ready
<1>3. Waiting(c)' = Waiting(c)
  BY <1>1 DEF Waiting
<1> QED
  BY <1>1, <1>2, <1>3 DEF Numbered, MadeInOrder, MadeOnce, Deserved

(* A production that exists is saved again, or one that does not yet.       *)
LEMMA ItemSaved ==
  ASSUME Records, \A d \in Campaigns : Numbered(d),
         NEW c \in Campaigns, NEW o \in Ordinals, NEW x \in Production,
         production' = [production EXCEPT ![c][o] = x], campaign' = campaign,
         x.proposal = production[c][o].proposal,
         x.status = "none" <=> production[c][o].status = "none",
         \/ x.status = production[c][o].status
         \/ production[c][o].status # "ready" /\ campaign[c].status # "complete",
         x.status = "ready" => x.run = "DONE" /\ x.candidate = "saved"
  PROVE  /\ Records' /\ \A d \in Campaigns : Numbered(d)'
         /\ \A d \in Campaigns : Made(d)' = Made(d) /\ Waiting(d)' = Waiting(d)
         /\ production'[c][o] = x
<1>1. /\ production' \in [Campaigns -> [Ordinals -> Production]]
      /\ production'[c][o] = x
      /\ \A d \in Campaigns : d # c => production'[d] = production[d]
      /\ \A p \in Ordinals : p # o => production'[c][p] = production[c][p]
  BY DEF Records
<1>2. Records'
  BY <1>1 DEF Records
<1>3. ASSUME NEW d \in Campaigns, d # c
      PROVE  Numbered(d)' /\ Made(d)' = Made(d) /\ Waiting(d)' = Waiting(d)
  BY <1>1, <1>3, Untouched
<1>4. Made(c)' = Made(c)
  BY <1>1 DEF Made
<1>5. \A p \in Ordinals : production'[c][p].proposal = production[c][p].proposal
  BY <1>1
<1>6. Waiting(c)' = Waiting(c)
  BY <1>4, <1>5 DEF Waiting, Made
<1>7. Made(c) \subseteq Ordinals
  BY DEF Made
<1>8. MadeOnce(c)'
  BY <1>4, <1>5, <1>7 DEF Numbered, MadeOnce
<1>9. Deserved(c)'
  <2>1. CASE x.status = production[c][o].status
    <3>1. Ready(c)' = Ready(c)
      BY <1>1, <1>4, <1>7, <2>1 DEF Ready
    <3>2. \A p \in Ready(c) : production'[c][p].run = "DONE" /\ production'[c][p].candidate = "saved"
      BY <1>1, <1>7, <2>1 DEF Numbered, Deserved, Ready
    <3>3. Deserved(c)
      BY DEF Numbered
    <3>4. campaign'[c].status = "complete" =>
            Cardinality(Ready(c)') >= Target /\ campaign'[c].linked = Made(c)'
      BY <1>4, <3>1, <3>3 DEF Deserved
    <3> QED
      BY <3>1, <3>2, <3>4 DEF Deserved
  <2>2. CASE production[c][o].status # "ready" /\ campaign[c].status # "complete"
    <3>1. \A p \in Ready(c)' : production'[c][p].run = "DONE" /\ production'[c][p].candidate = "saved"
      <4> TAKE p \in Ready(c)'
      <4>1. p \in Made(c) /\ p \in Ordinals /\ production'[c][p].status = "ready"
        BY <1>4, <1>7 DEF Ready
      <4>2. CASE p = o
        BY <1>1, <4>1, <4>2
      <4>3. CASE p # o
        <5>1. production'[c][p] = production[c][p] /\ p \in Ready(c)
          BY <1>1, <4>1, <4>3 DEF Ready
        <5> QED
          BY <5>1 DEF Numbered, Deserved
      <4> QED
        BY <4>2, <4>3
    <3> QED
      BY <2>2, <3>1 DEF Deserved
  <2> QED
    BY <2>1, <2>2
<1>10. Numbered(c)'
  BY <1>4, <1>8, <1>9 DEF Numbered, MadeInOrder
<1> QED
  BY <1>1, <1>2, <1>3, <1>4, <1>6, <1>10

(* A campaign is saved, with more proposals or more productions listed.     *)
LEMMA CampaignSaved ==
  ASSUME Records, \A d \in Campaigns : Numbered(d),
         NEW c \in Campaigns, NEW x \in Campaign,
         campaign' = [campaign EXCEPT ![c] = x], production' = production,
         Len(x.proposals) <= ProposalBudget,
         DOMAIN campaign[c].proposals \subseteq DOMAIN x.proposals,
         x.linked \subseteq Made(c),
         x.status = "complete" => Cardinality(Ready(c)) >= Target /\ x.linked = Made(c)
  PROVE  /\ Records' /\ \A d \in Campaigns : Numbered(d)'
         /\ \A d \in Campaigns : Made(d)' = Made(d)
         /\ campaign'[c] = x
<1>1. campaign'[c] = x /\ \A d \in Campaigns : d # c => campaign'[d] = campaign[d]
  BY DEF Records
<1>2. Records'
  BY DEF Records
<1>3. \A d \in Campaigns : Made(d)' = Made(d) /\ Ready(d)' = Ready(d)
  BY DEF Made, Ready
<1>4. \A d \in Campaigns : d # c => Numbered(d)'
  BY <1>1, Untouched
<1>5. MadeOnce(c)'
  BY <1>1, <1>3 DEF Numbered, MadeOnce, Made
<1>6. MadeInOrder(c)' /\ Deserved(c)'
  BY <1>1, <1>3 DEF Numbered, MadeInOrder, Deserved, Ready
<1>7. Numbered(c)'
  BY <1>1, <1>3, <1>5, <1>6 DEF Numbered
<1> QED
  BY <1>1, <1>2, <1>3, <1>4, <1>7
----------------------------------------------------------------------------
(* The pass.  At each step it holds the lock of an unfinished campaign, and *)
(* from its creation to its last save it is about a production that nothing *)
(* else has made ready.                                                     *)
Making == {"create", "provision"}
Writing == Producing \ Making

PassMeans ==
  /\ pass.pc # "idle" => pass.of \in Campaigns
  /\ pass.pc \notin Unlocked => campaign[pass.of].status \in Unfinished
  /\ pass.pc \in Producing \cup {"link", "generate", "record"} => pass.steps < MaxSteps
  /\ pass.pc = "record" => pass.verdict # "none" /\ Len(campaign[pass.of].proposals) < ProposalBudget
  /\ pass.pc \in Producing \cup {"link"} => pass.item \in Ordinals
  /\ pass.pc \in Making => Made(pass.of) = 1 .. pass.item - 1 /\ Waiting(pass.of) # {}
  /\ pass.pc \in Writing \cup {"link"} => Item.status # "none"
  /\ pass.pc \in Writing => Item.status # "ready"
  /\ pass.pc \in {"deploy", "materialize", "save"} => Item.run = "DONE"
  /\ pass.pc = "save" => Item.candidate = "saved"

Filed == Records /\ \A d \in Campaigns : Numbered(d)

Placed == pass \in Pass /\ PassMeans

LEMMA PassNames ==
  /\ Unlocked \cap Producing = {}
  /\ {"link", "generate", "record", "scan"} \cap (Unlocked \cup Producing) = {}
  /\ Making \subseteq Producing /\ Writing \subseteq Producing /\ Making \cap Writing = {}
  /\ {"allocate", "advance", "supervise", "settle", "deploy", "materialize", "save"} \subseteq Writing
  /\ PassSteps = Producing \cup Unlocked \cup {"scan", "link", "generate", "record"}
  /\ "idle" \in Unlocked /\ "begin" \in Unlocked /\ "ended" \in Unlocked /\ "failed" \in Unlocked
  /\ "guard" \in Unlocked
BY DEF Unlocked, Producing, Making, Writing, PassSteps

LEMMA NoPassTyped == NoPass \in Pass
BY Constants, PassNames DEF NoPass, Pass

LEMMA GotoTyped ==
  ASSUME pass \in Pass, NEW to \in PassSteps, pass' = [pass EXCEPT !.pc = to]
  PROVE  /\ pass' \in Pass /\ pass'.pc = to /\ pass'.of = pass.of /\ pass'.steps = pass.steps
         /\ pass'.item = pass.item /\ pass'.verdict = pass.verdict
BY DEF Pass

LEMMA UnlockedPlaced ==
  ASSUME pass' \in Pass, pass'.pc \in Unlocked, pass'.of \in Campaigns \/ pass'.pc = "idle"
  PROVE  Placed'
BY PassNames DEF Placed, PassMeans

LEMMA RoundPlaced ==
  ASSUME Placed, pass.pc \notin Unlocked, pass.steps < MaxSteps, AnotherRound(pass.steps + 1),
         campaign'[pass.of].status \in Unfinished
  PROVE  Placed' /\ pass'.pc = "scan" /\ pass'.of = pass.of
<1>1. pass.of \in Campaigns /\ pass.steps + 1 \in 0 .. MaxSteps
  BY Constants, PassNames DEF Placed, PassMeans, Pass
<1>2. pass' = [NoPass EXCEPT !.pc = "scan", !.of = pass.of, !.steps = pass.steps + 1]
  BY DEF AnotherRound
<1>3. pass' \in Pass /\ pass'.pc = "scan" /\ pass'.of = pass.of
  BY <1>1, <1>2, PassNames, NoPassTyped DEF Pass
<1> QED
  BY <1>1, <1>3, PassNames DEF Placed, PassMeans

(* What the pass rests on is its campaign and, in a production, that.       *)
LEMMA PlaceKept ==
  ASSUME Placed, pass' = pass,
         pass.pc \notin Unlocked => campaign'[pass.of] = campaign[pass.of],
         pass.pc \in Producing => production'[pass.of] = production[pass.of],
         pass.pc # "idle" => Made(pass.of)' = Made(pass.of)
  PROVE  Placed'
<1>1. CASE pass.pc \in Unlocked
  BY <1>1, UnlockedPlaced DEF Placed, PassMeans
<1>2. CASE pass.pc \in Producing
  <2>1. Made(pass.of)' = Made(pass.of) /\ Waiting(pass.of)' = Waiting(pass.of) /\ Item' = Item
    BY <1>2, PassNames DEF Made, Waiting, Item
  <2> QED
    BY <1>2, <2>1, PassNames DEF Placed, PassMeans
<1>3. CASE pass.pc \notin Unlocked /\ pass.pc \notin Producing
  <2>1. pass.pc = "link" => Item'.status # "none"
    BY <1>3, PassNames DEF Placed, PassMeans, Made, Item
  <2> QED
    BY <1>3, <2>1, PassNames DEF Placed, PassMeans
<1> QED
  BY <1>1, <1>2, <1>3

LEMMA MadeTyped ==
  ASSUME Records, NEW c \in Campaigns
  PROVE  /\ Made(c) \subseteq Ordinals /\ Active(c) \subseteq Made(c) /\ Ready(c) \subseteq Made(c)
         /\ Ordinals \subseteq Nat /\ Waiting(c) \subseteq DOMAIN campaign[c].proposals
         /\ campaign[c] \in Campaign
         /\ \A o \in Ordinals : production[c][o] \in Production
BY Constants DEF Made, Active, Ready, Ordinals, Waiting, Records

LEMMA MadeFinite ==
  ASSUME Records, NEW c \in Campaigns, Numbered(c)
  PROVE  Cardinality(Made(c)) \in Nat /\ Cardinality(Ready(c)) \in Nat
<1>1. PICK n \in 0 .. ProposalBudget : Made(c) = 1 .. n
  BY DEF Numbered, MadeInOrder
<1>2. IsFiniteSet(Made(c))
  BY <1>1, FS_Interval, Constants
<1>3. IsFiniteSet(Ready(c))
  BY <1>2, MadeTyped, FS_Subset
<1> QED
  BY <1>2, <1>3, FS_CardinalityType

(* A proposal that waits leaves room for one more production.               *)
LEMMA RoomToMake ==
  ASSUME Records, NEW c \in Campaigns, Numbered(c), Waiting(c) # {}
  PROVE  /\ Cardinality(Made(c)) + 1 \in Ordinals
         /\ Made(c) = 1 .. Cardinality(Made(c))
<1>1. PICK n \in 0 .. ProposalBudget : Made(c) = 1 .. n
  BY DEF Numbered, MadeInOrder
<1>2. n \in Nat /\ IsFiniteSet(Made(c)) /\ Cardinality(Made(c)) = n
  BY <1>1, FS_Interval, Constants
<1>3. PICK p \in DOMAIN campaign[c].proposals : \A o \in Made(c) : production[c][o].proposal # p
  BY DEF Waiting
<1>4. campaign[c].proposals \in Seq({"accepted", "rejected"})
  BY MadeTyped DEF Campaign
<1> DEFINE k == Len(campaign[c].proposals)
           T == (1 .. k) \ {p}
           f == [o \in Made(c) |-> production[c][o].proposal]
<1>5. k \in Nat /\ k <= ProposalBudget /\ DOMAIN campaign[c].proposals = 1 .. k
  BY <1>4 DEF Numbered
<1>6. IsFiniteSet(T) /\ Cardinality(T) = k - 1
  <2>1. IsFiniteSet(1 .. k) /\ Cardinality(1 .. k) = k
    BY <1>5, FS_Interval
  <2>2. p \in 1 .. k
    BY <1>3, <1>5
  <2> QED
    BY <2>1, <2>2, FS_RemoveElement
<1>7. f \in [Made(c) -> T]
  BY <1>3, <1>5, MadeTyped DEF Numbered, MadeOnce
<1>8. \A o, q \in Made(c) : f[o] = f[q] => o = q
  BY DEF Numbered, MadeOnce
<1>9. ~(Cardinality(T) < Cardinality(Made(c)))
  <2> HIDE DEF T, f
  <2> QED
    BY <1>2, <1>6, <1>7, <1>8, FS_PigeonHole
<1>10. n <= k - 1
  BY <1>2, <1>5, <1>6, <1>9
<1>11. n + 1 \in Ordinals
  BY <1>2, <1>5, <1>10, Constants DEF Ordinals
<1> QED
  BY <1>1, <1>2, <1>11

(* The steps of the campaign supervisor.                                    *)
LEMMA SupervisorStep ==
  ASSUME Filed, Placed, Begin \/ Scan \/ OutOfSteps \/ Generate \/ RecordProposal \/ LinkProduction
  PROVE  Filed' /\ Placed'
<1> USE DEF filed, served, passFrame, supervised, Goto, SaveCampaign
<1>0. pass \in Pass /\ pass.steps \in 0 .. MaxSteps
  BY DEF Placed, Pass
<1>s. {"scan", "ended", "advance", "create", "generate", "record"} \subseteq PassSteps
  BY DEF PassSteps, Unlocked, Producing
<1>1. CASE Begin
  <2>1. UNCHANGED filed /\ Filed'
    <3>1. \A d \in Campaigns : Numbered(d)'
      BY <1>1, Untouched DEF Begin, Filed
    <3> QED
      BY <1>1, <3>1 DEF Begin, Filed, Records
  <2>2. pass.of \in Campaigns
    BY <1>1 DEF Begin, Placed, PassMeans
  <2>3. CASE campaign[pass.of].status \in Unfinished
    <3>1. pass' = [pass EXCEPT !.pc = "scan"]
      BY <1>1, <2>3 DEF Begin
    <3>2. pass' \in Pass /\ pass'.pc = "scan" /\ pass'.of = pass.of
      BY <1>0, <1>s, <3>1, GotoTyped
    <3> QED
      BY <2>1, <2>2, <2>3, <3>2, PassNames DEF Placed, PassMeans
  <2>4. CASE campaign[pass.of].status \notin Unfinished
    <3>1. pass' = [pass EXCEPT !.pc = "ended"]
      BY <1>1, <2>4 DEF Begin
    <3>2. pass' \in Pass /\ pass'.pc = "ended" /\ pass'.of = pass.of
      BY <1>0, <1>s, <3>1, GotoTyped
    <3> QED
      BY <2>1, <2>2, <3>2, PassNames, UnlockedPlaced
  <2> QED
    BY <2>3, <2>4
<1>2. ASSUME pass.pc \notin Unlocked
      PROVE  /\ pass.of \in Campaigns /\ campaign[pass.of].status \in Unfinished
             /\ campaign[pass.of] \in Campaign /\ Numbered(pass.of)
             /\ campaign[pass.of].status # "complete"
             /\ Len(campaign[pass.of].proposals) <= ProposalBudget
  BY <1>2, PassNames, MadeTyped DEF Placed, PassMeans, Filed, Unfinished, Numbered
<1>3. CASE Scan
  <2>a. PICK c \in Campaigns : c = pass.of
    BY <1>2, <1>3, PassNames DEF Scan
  <2> DEFINE linked == [campaign[c] EXCEPT !.linked = @ \cup Made(c)]
  <2>0. /\ pass.pc = "scan" /\ pass.steps < MaxSteps /\ production' = production
        /\ c \in Campaigns /\ campaign[c].status \in Unfinished /\ campaign[c] \in Campaign
        /\ Numbered(c) /\ Len(campaign[c].proposals) <= ProposalBudget
    BY <1>2, <1>3, <2>a, PassNames DEF Scan
  <2>b. Cardinality(Ready(c)) \in Nat /\ Cardinality(Made(c)) \in Nat
    BY <2>0, MadeFinite DEF Filed
  <2>1. /\ linked \in Campaign /\ linked.proposals = campaign[c].proposals
        /\ linked.status = campaign[c].status /\ linked.linked = Made(c)
    <3>1. Made(c) \subseteq Ordinals /\ campaign[c].linked \subseteq Made(c)
      BY <2>0, MadeTyped DEF Filed, Numbered
    <3> QED
      BY <2>0, <3>1 DEF Campaign
  <2>2. CASE Cardinality(Ready(c)) >= Target
    <3> DEFINE x == [linked EXCEPT !.status = "complete"]
    <3>1. campaign' = [campaign EXCEPT ![c] = x] /\ pass' = [pass EXCEPT !.pc = "ended"]
      BY <1>3, <2>a, <2>b, <2>2, Constants DEF Scan
    <3>2. x \in Campaign /\ x.proposals = campaign[c].proposals /\ x.status = "complete" /\ x.linked = Made(c)
      BY <2>1 DEF Campaign, CampaignStatuses
    <3> HIDE DEF x
    <3>3. Filed'
      BY <2>0, <2>2, <3>1, <3>2, CampaignSaved DEF Filed
    <3>4. pass' \in Pass /\ pass'.pc = "ended" /\ pass'.of = pass.of
      BY <1>0, <1>s, <3>1, GotoTyped
    <3> QED
      BY <2>a, <3>3, <3>4, PassNames, UnlockedPlaced
  <2>3. CASE ~(Cardinality(Ready(c)) >= Target)
    <3>1. campaign' = [campaign EXCEPT ![c] = linked]
      BY <1>3, <2>a, <2>3 DEF Scan
    <3>2. /\ Filed' /\ campaign'[c] = linked
      <4> HIDE DEF linked
      <4> QED
        BY <2>0, <2>1, <3>1, CampaignSaved DEF Filed, Unfinished
    <3>3. Made(c)' = Made(c) /\ Waiting(c)' = Waiting(c)
      <4>1. campaign'[c].proposals = campaign[c].proposals
        BY <2>1, <3>2
      <4> QED
        BY <2>0, <4>1 DEF Made, Waiting
    <3>4. campaign'[c].status \in Unfinished
      BY <2>0, <2>1, <3>2
    <3> HIDE DEF linked
    <3>5. CASE Active(c) # {}
      <4>1. First(Active(c)) \in Active(c) /\ First(Active(c)) \in Ordinals
        <5>1. Active(c) \subseteq Ordinals /\ Ordinals \subseteq Nat
          BY <2>0, MadeTyped DEF Filed
        <5> QED
          BY <3>5, <5>1, FirstIn
      <4>2. pass' = [pass EXCEPT !.pc = "advance", !.item = First(Active(c))]
        BY <1>3, <2>a, <2>3, <3>5 DEF Scan
      <4>3. /\ pass' \in Pass /\ pass'.pc = "advance" /\ pass'.of = c /\ pass'.steps = pass.steps
            /\ pass'.item = First(Active(c))
        <5>1. First(Active(c)) \in 0 .. ProposalBudget
          BY <4>1, Constants DEF Ordinals
        <5> QED
          BY <1>0, <1>s, <2>a, <4>2, <5>1 DEF Pass
      <4>4. production[c][First(Active(c))].status \notin {"none", "ready"}
        BY <4>1 DEF Active, Working
      <4>5. Item' = production[c][First(Active(c))]
        BY <2>0, <4>3 DEF Item
      <4> QED
        BY <2>0, <3>2, <3>4, <4>1, <4>3, <4>4, <4>5, PassNames DEF Placed, PassMeans
    <3>6. CASE Active(c) = {} /\ Waiting(c) # {}
      <4>1. Cardinality(Made(c)) + 1 \in Ordinals /\ Made(c) = 1 .. Cardinality(Made(c))
        BY <2>0, <3>6, RoomToMake DEF Filed
      <4>2. pass' = [pass EXCEPT !.pc = "create", !.item = Cardinality(Made(c)) + 1]
        BY <1>3, <2>a, <2>3, <3>6 DEF Scan
      <4>3. /\ pass' \in Pass /\ pass'.pc = "create" /\ pass'.of = c /\ pass'.steps = pass.steps
            /\ pass'.item = Cardinality(Made(c)) + 1
        <5>1. Cardinality(Made(c)) + 1 \in 0 .. ProposalBudget
          BY <4>1, Constants DEF Ordinals
        <5> QED
          BY <1>0, <1>s, <2>a, <4>2, <5>1 DEF Pass
      <4>4. Made(pass.of)' = 1 .. pass'.item - 1 /\ Waiting(pass.of)' # {}
        <5>2. Made(pass.of)' = Made(c)' /\ Waiting(pass.of)' = Waiting(c)'
          <6>1. pass'.of = c
            BY <4>3
          <6>2. Made(pass.of)' = Made(c)'
            BY <6>1 DEF Made
          <6> QED
            BY <6>1, <6>2 DEF Waiting
        <5>3. pass'.item - 1 = Cardinality(Made(c))
          BY <2>b, <4>3
        <5>4. Made(pass.of)' = 1 .. pass'.item - 1
          BY <3>3, <4>1, <5>2, <5>3
        <5>5. Waiting(pass.of)' # {}
          BY <3>3, <3>6, <5>2
        <5> QED
          BY <5>4, <5>5
      <4>5. /\ pass'.of \in Campaigns /\ campaign'[pass'.of].status \in Unfinished
            /\ pass'.item \in Ordinals /\ pass'.steps < MaxSteps
        BY <2>0, <3>4, <4>1, <4>3
      <4>6. pass'.pc \in Making /\ pass'.pc \notin Writing \cup {"link", "record", "idle", "deploy", "materialize", "save"}
        BY <4>3 DEF Making, Writing
      <4> QED
        BY <3>2, <4>3, <4>4, <4>5, <4>6, PassNames DEF Placed, PassMeans
    <3>7. CASE Active(c) = {} /\ Waiting(c) = {}
      <4>1. pass' = [pass EXCEPT !.pc = "generate"]
        BY <1>3, <2>a, <2>3, <3>7 DEF Scan
      <4>2. pass' \in Pass /\ pass'.pc = "generate" /\ pass'.of = c /\ pass'.steps = pass.steps
        BY <1>0, <1>s, <2>a, <4>1, GotoTyped
      <4> QED
        BY <2>0, <3>2, <3>4, <4>2, PassNames DEF Placed, PassMeans
    <3> QED
      BY <3>5, <3>6, <3>7
  <2> QED
    BY <2>2, <2>3
<1>4. CASE OutOfSteps
  <2>1. Filed'
    <3>1. \A d \in Campaigns : Numbered(d)'
      BY <1>4, Untouched DEF OutOfSteps, Filed
    <3> QED
      BY <1>4, <3>1 DEF OutOfSteps, Filed, Records
  <2>2. pass' \in Pass /\ pass'.pc = "ended" /\ pass'.of = pass.of
    BY <1>0, <1>s, <1>4, GotoTyped DEF OutOfSteps
  <2> QED
    BY <1>2, <1>4, <2>1, <2>2, PassNames, UnlockedPlaced DEF OutOfSteps
<1>5. CASE Generate
  <2>a. PICK c \in Campaigns : c = pass.of
    BY <1>2, <1>5, PassNames DEF Generate
  <2>0. /\ production' = production /\ campaign[c].status \in Unfinished /\ campaign[c] \in Campaign
        /\ Numbered(c) /\ pass.steps < MaxSteps
    BY <1>2, <1>5, <2>a, PassNames DEF Generate, Placed, PassMeans
  <2>1. ASSUME campaign' = campaign, Len(campaign[c].proposals) < ProposalBudget,
               NEW verdict \in {"accepted", "rejected"},
               pass' = [pass EXCEPT !.pc = "record", !.verdict = verdict]
        PROVE  Filed' /\ Placed'
    <3>1. Filed'
      <4>1. \A d \in Campaigns : Numbered(d)'
        BY <2>0, <2>1, Untouched DEF Filed
      <4> QED
        BY <2>0, <2>1, <4>1 DEF Filed, Records
    <3>2. /\ pass' \in Pass /\ pass'.pc = "record" /\ pass'.of = c /\ pass'.steps = pass.steps
          /\ pass'.verdict # "none"
      BY <1>0, <1>s, <2>a, <2>1 DEF Pass
    <3>3. /\ campaign'[pass'.of].status \in Unfinished /\ pass'.steps < MaxSteps
          /\ Len(campaign'[pass'.of].proposals) < ProposalBudget
      BY <2>0, <2>1, <3>2
    <3> QED
      BY <2>a, <3>1, <3>2, <3>3, PassNames DEF Placed, PassMeans
  <2>2. ASSUME campaign' = [campaign EXCEPT ![c] = [campaign[c] EXCEPT !.status = "blocked"]],
               pass' = [pass EXCEPT !.pc = "ended"]
        PROVE  Filed' /\ Placed'
    <3> DEFINE x == [campaign[c] EXCEPT !.status = "blocked"]
    <3>1. /\ x \in Campaign /\ x.proposals = campaign[c].proposals /\ x.status = "blocked"
          /\ x.linked = campaign[c].linked
      BY <2>0 DEF Campaign, CampaignStatuses
    <3>2. campaign' = [campaign EXCEPT ![c] = x]
      BY <2>2
    <3> HIDE DEF x
    <3>3. Filed'
      BY <2>0, <3>1, <3>2, CampaignSaved DEF Filed, Numbered
    <3>4. pass' \in Pass /\ pass'.pc = "ended" /\ pass'.of = pass.of
      BY <1>0, <1>s, <2>2, GotoTyped
    <3> QED
      BY <2>a, <3>3, <3>4, PassNames, UnlockedPlaced
  <2> QED
    BY <1>5, <2>a, <2>1, <2>2 DEF Generate
<1>6. CASE RecordProposal
  <2>a. PICK c \in Campaigns : c = pass.of
    BY <1>2, <1>6, PassNames DEF RecordProposal
  <2>0. /\ production' = production /\ campaign[c].status \in Unfinished /\ campaign[c] \in Campaign
        /\ Numbered(c) /\ pass.steps < MaxSteps /\ Len(campaign[c].proposals) < ProposalBudget
        /\ pass.verdict \in {"accepted", "rejected"} /\ pass.pc \notin Unlocked
    BY <1>0, <1>2, <1>6, <2>a, PassNames DEF RecordProposal, Placed, PassMeans, Pass
  <2> DEFINE more == Append(campaign[c].proposals, pass.verdict)
             x == [campaign[c] EXCEPT
                     !.proposals = Append(@, pass.verdict),
                     !.status = IF pass.verdict = "accepted" THEN "producing" ELSE @]
  <2>1. /\ more \in Seq({"accepted", "rejected"})
        /\ Len(more) <= ProposalBudget /\ DOMAIN campaign[c].proposals \subseteq DOMAIN more
    <3>1. campaign[c].proposals \in Seq({"accepted", "rejected"})
      BY <2>0 DEF Campaign
    <3>2. Len(more) = Len(campaign[c].proposals) + 1
      BY <2>0, <3>1
    <3> QED
      BY <2>0, <3>1, <3>2, Constants
  <2>2. /\ x.proposals = more /\ x.linked = campaign[c].linked /\ x.status \in Unfinished
    BY <2>0 DEF Campaign, Unfinished
  <2>3. x \in Campaign
    BY <2>0, <2>1 DEF Campaign, CampaignStatuses, Unfinished
  <2>4. campaign' = [campaign EXCEPT ![c] = x] /\ AnotherRound(pass.steps + 1)
    BY <1>6, <2>a DEF RecordProposal
  <2> HIDE DEF x, more
  <2>5. Filed' /\ campaign'[c] = x
    BY <2>0, <2>1, <2>2, <2>3, <2>4, CampaignSaved DEF Filed, Numbered, Unfinished
  <2> QED
    BY <2>0, <2>a, <2>2, <2>4, <2>5, RoundPlaced
<1>7. CASE LinkProduction
  <2>a. PICK c \in Campaigns : c = pass.of
    BY <1>2, <1>7, PassNames DEF LinkProduction
  <2>0. /\ production' = production /\ campaign[c] \in Campaign
        /\ Numbered(c) /\ pass.steps < MaxSteps /\ pass.item \in Made(c) /\ pass.pc \notin Unlocked
    BY <1>2, <1>7, <2>a, PassNames DEF LinkProduction, Placed, PassMeans, Item, Made
  <2> DEFINE x == [campaign[c] EXCEPT !.status = "producing", !.linked = @ \cup {pass.item}]
  <2>1. /\ x.proposals = campaign[c].proposals /\ x.linked = campaign[c].linked \cup {pass.item}
        /\ x.status = "producing"
    BY <2>0 DEF Campaign
  <2>2. x \in Campaign
    BY <2>0, MadeTyped DEF Campaign, CampaignStatuses, Filed
  <2>3. campaign' = [campaign EXCEPT ![c] = x] /\ AnotherRound(pass.steps + 1)
    BY <1>7, <2>a DEF LinkProduction
  <2> HIDE DEF x
  <2>4. Filed' /\ campaign'[c] = x
    BY <2>0, <2>1, <2>2, <2>3, CampaignSaved DEF Filed, Numbered
  <2> QED
    BY <2>0, <2>a, <2>1, <2>3, <2>4, RoundPlaced DEF Unfinished
<1> QED
  BY <1>1, <1>3, <1>4, <1>5, <1>6, <1>7
----------------------------------------------------------------------------
(* The steps of the production driver.  It saves the production it is about *)
(* and goes on, leaves, or begins another round.                            *)
LEMMA InProduction ==
  ASSUME Filed, Placed, pass.pc \in Producing
  PROVE  /\ pass.of \in Campaigns /\ pass.item \in Ordinals /\ pass.steps < MaxSteps
         /\ pass.pc \notin Unlocked /\ campaign[pass.of].status \in Unfinished
         /\ campaign[pass.of].status # "complete" /\ Item \in Production
         /\ pass.pc \in Writing => Item.status # "none" /\ Item.status # "ready"
         /\ pass.pc \in Making => Item.status = "none" /\ pass.item \notin Made(pass.of)
<1>1. /\ pass.of \in Campaigns /\ pass.item \in Ordinals /\ pass.steps < MaxSteps
      /\ pass.pc \notin Unlocked /\ campaign[pass.of].status \in Unfinished
      /\ pass.pc \in Writing => Item.status # "none" /\ Item.status # "ready"
      /\ pass.pc \in Making => Made(pass.of) = 1 .. pass.item - 1
  BY PassNames DEF Placed, PassMeans
<1>2. Item \in Production
  BY <1>1, MadeTyped DEF Item, Filed
<1>3. ASSUME pass.pc \in Making PROVE pass.item \notin Made(pass.of)
  BY <1>1, <1>3, Constants DEF Ordinals
<1>4. ASSUME pass.pc \in Making PROVE Item.status = "none"
  BY <1>1, <1>3, <1>4 DEF Item, Made
<1> QED
  BY <1>1, <1>2, <1>3, <1>4 DEF Unfinished

LEMMA ItemStep ==
  ASSUME Filed, Placed, pass.pc \in Producing, NEW x \in Production, SaveItem(x), campaign' = campaign,
         x.proposal = Item.proposal, x.status = "none" <=> Item.status = "none",
         x.status = "ready" => x.run = "DONE" /\ x.candidate = "saved"
  PROVE  /\ Filed' /\ production'[pass.of][pass.item] = x
         /\ \A d \in Campaigns : Made(d)' = Made(d) /\ Waiting(d)' = Waiting(d)
<1>1. PICK c \in Campaigns, o \in Ordinals : c = pass.of /\ o = pass.item
  BY InProduction
<1>2. /\ production' = [production EXCEPT ![c][o] = x]
      /\ x.proposal = production[c][o].proposal
      /\ x.status = "none" <=> production[c][o].status = "none"
      /\ production[c][o].status # "ready" /\ campaign[c].status # "complete"
  BY <1>1, InProduction, PassNames DEF SaveItem, Item, Writing
<1>3. /\ Records' /\ \A d \in Campaigns : Numbered(d)'
      /\ \A d \in Campaigns : Made(d)' = Made(d) /\ Waiting(d)' = Waiting(d)
      /\ production'[c][o] = x
  BY <1>2, ItemSaved DEF Filed
<1> QED
  BY <1>1, <1>3 DEF Filed

LEMMA GoneOn ==
  ASSUME Filed, Placed, pass.pc \in Producing, NEW to \in Writing \cup {"link"},
         pass' = [pass EXCEPT !.pc = to], campaign' = campaign,
         NEW x, production'[pass.of][pass.item] = x, x.status # "none",
         to # "link" => x.status # "ready",
         to \in {"deploy", "materialize", "save"} => x.run = "DONE",
         to = "save" => x.candidate = "saved"
  PROVE  Placed'
<1>1. to \in PassSteps
  BY DEF PassSteps, Writing
<1>2. /\ pass' \in Pass /\ pass'.pc = to /\ pass'.of = pass.of /\ pass'.steps = pass.steps
      /\ pass'.item = pass.item
  BY <1>1, GotoTyped DEF Placed
<1>3. Item' = x
  BY <1>2 DEF Item
<1>4. to \notin Unlocked /\ to \notin Making /\ to # "record" /\ to # "idle"
  BY PassNames
<1> QED
  BY <1>2, <1>3, <1>4, InProduction, PassNames DEF Placed, PassMeans

LEMMA Left ==
  ASSUME Filed, Placed, pass.pc \in Producing, NEW to \in {"ended", "failed"},
         pass' = [pass EXCEPT !.pc = to]
  PROVE  Placed'
<1>1. pass' \in Pass /\ pass'.pc = to /\ pass'.of = pass.of
  BY GotoTyped DEF Placed, PassSteps, Unlocked
<1> QED
  BY <1>1, InProduction, PassNames, UnlockedPlaced

LEMMA NothingSaved ==
  ASSUME Filed, UNCHANGED filed
  PROVE  Filed' /\ \A d \in Campaigns : Made(d)' = Made(d) /\ Waiting(d)' = Waiting(d)
<1>1. \A d \in Campaigns : Numbered(d)' /\ Made(d)' = Made(d) /\ Waiting(d)' = Waiting(d)
  BY Untouched DEF Filed, filed
<1> QED
  BY <1>1 DEF Filed, Records, filed

LEMMA CreateRunStep ==
  ASSUME Filed, Placed, CreateRun
  PROVE  Filed' /\ Placed'
<1> DEFINE x == [Item EXCEPT !.run = IF @ = "none" THEN "READY" ELSE @]
<1>0. /\ pass.pc = "create" /\ SaveItem(x) /\ campaign' = campaign /\ pass' = [pass EXCEPT !.pc = "provision"]
      /\ pass.pc \in Making /\ pass.pc \in Producing /\ "provision" \in PassSteps /\ "provision" \in Making
      /\ "provision" \notin Writing
  BY DEF CreateRun, Goto, Making, Producing, PassSteps, Writing
<1>1. Item \in Production /\ Item.status = "none"
  BY <1>0, InProduction
<1>2. x.proposal = Item.proposal /\ x.status = "none"
  BY <1>1 DEF Production
<1>3. x \in Production
  BY <1>1 DEF Production, RunStatuses
<1> HIDE DEF x
<1>4. Filed' /\ \A d \in Campaigns : Made(d)' = Made(d) /\ Waiting(d)' = Waiting(d)
  BY <1>0, <1>1, <1>2, <1>3, ItemStep
<1>5. /\ pass' \in Pass /\ pass'.pc = "provision" /\ pass'.of = pass.of /\ pass'.steps = pass.steps
      /\ pass'.item = pass.item
  BY <1>0, GotoTyped DEF Placed
<1>6. PICK c \in Campaigns : c = pass.of
  BY <1>0, InProduction
<1>7. Made(pass.of)' = Made(c)'
  BY <1>5, <1>6 DEF Made
<1>8. Waiting(pass.of)' = Waiting(c)'
  BY <1>5, <1>6, <1>7 DEF Waiting
<1>9. Made(c) = 1 .. pass.item - 1 /\ Waiting(c) # {}
  BY <1>0, <1>6 DEF Placed, PassMeans
<1>10. /\ Made(pass.of)' = 1 .. pass'.item - 1 /\ Waiting(pass.of)' # {}
  BY <1>4, <1>5, <1>7, <1>8, <1>9
<1>11. /\ pass'.of \in Campaigns /\ campaign'[pass'.of].status \in Unfinished
       /\ pass'.item \in Ordinals /\ pass'.steps < MaxSteps
  BY <1>0, <1>5, InProduction
<1>12. pass'.pc \notin Unlocked /\ pass'.pc \notin Writing \cup {"link", "record", "idle", "deploy", "materialize", "save"}
  BY <1>0, <1>5, PassNames
<1> QED
  BY <1>4, <1>5, <1>10, <1>11, <1>12, PassNames DEF Placed, PassMeans

(* The new production takes the next number and a proposal of its own.      *)
LEMMA ProvisionStep ==
  ASSUME Filed, Placed, Provision
  PROVE  Filed' /\ Placed'
<1>0. /\ pass.pc = "provision" /\ campaign' = campaign /\ pass' = [pass EXCEPT !.pc = "allocate"]
      /\ pass.pc \in Making /\ pass.pc \in Producing /\ "allocate" \in Writing
  BY DEF Provision, Goto, Making, Producing, Writing
<1>1. PICK c \in Campaigns, o \in Ordinals : c = pass.of /\ o = pass.item
  BY <1>0, InProduction
<1>2. /\ Records /\ Numbered(c) /\ campaign[c].status \in Unfinished
      /\ production[c][o] \in Production /\ production[c][o].status = "none"
      /\ o \notin Made(c) /\ Made(c) = 1 .. o - 1 /\ Waiting(c) # {}
  BY <1>0, <1>1, InProduction DEF Filed, Item, Placed, PassMeans
<1>3. PICK p : p = First(Waiting(c))
  OBVIOUS
<1>4. /\ p \in DOMAIN campaign[c].proposals /\ \A q \in Made(c) : production[c][q].proposal # p
      /\ p \in 0 .. ProposalBudget
  <2>1. campaign[c].proposals \in Seq({"accepted", "rejected"}) /\ Len(campaign[c].proposals) <= ProposalBudget
    BY <1>2, MadeTyped DEF Campaign, Numbered
  <2>2. DOMAIN campaign[c].proposals \subseteq Nat /\ DOMAIN campaign[c].proposals \subseteq 0 .. ProposalBudget
    BY <2>1, Constants
  <2>3. Waiting(c) \in SUBSET Nat
    BY <1>2, <2>2, MadeTyped
  <2>4. p \in Waiting(c)
    BY <1>2, <1>3, <2>3, FirstIn
  <2> QED
    BY <2>2, <2>4 DEF Waiting
<1> DEFINE x == [Item EXCEPT !.status = "queued", !.proposal = First(Waiting(pass.of))]
<1>5. x \in Production /\ x.status = "queued" /\ x.proposal = p
  BY <1>1, <1>2, <1>3, <1>4 DEF Production, ProductionStatuses, Item
<1>6. production' = [production EXCEPT ![c][o] = x]
  BY <1>1 DEF Provision, SaveItem
<1> HIDE DEF x
<1>7. /\ production' \in [Campaigns -> [Ordinals -> Production]]
      /\ production'[c][o] = x
      /\ \A d \in Campaigns : d # c => production'[d] = production[d]
      /\ \A q \in Ordinals : q # o => production'[c][q] = production[c][q]
  BY <1>2, <1>5, <1>6 DEF Records
<1>8. \A d \in Campaigns : d # c => Numbered(d)'
  BY <1>0, <1>7, Untouched DEF Filed
<1>9. Made(c)' = Made(c) \cup {o}
  BY <1>5, <1>7 DEF Made
<1>10. Made(c)' = 1 .. o /\ o \in 0 .. ProposalBudget
  BY <1>2, <1>9, Constants DEF Ordinals
<1>11. Ready(c)' = Ready(c)
  BY <1>2, <1>5, <1>7, <1>9 DEF Ready, Made
<1>12. MadeInOrder(c)'
  BY <1>10 DEF MadeInOrder
<1>13. MadeOnce(c)'
  <2>1. \A q \in Ordinals : IF q \in Made(c)' THEN production'[c][q].proposal \in DOMAIN campaign'[c].proposals
                            ELSE production'[c][q].proposal = 0
    <3> TAKE q \in Ordinals
    <3>1. CASE q = o
      BY <1>0, <1>4, <1>5, <1>7, <1>9, <3>1
    <3>2. CASE q # o
      BY <1>0, <1>2, <1>7, <1>9, <3>2 DEF Numbered, MadeOnce
    <3> QED
      BY <3>1, <3>2
  <2>2. \A q, r \in Made(c)' : production'[c][q].proposal = production'[c][r].proposal => q = r
    <3> TAKE q, r \in Made(c)'
    <3>0. Made(c) \subseteq Ordinals
      BY <1>2, MadeTyped
    <3>1. CASE q = o \/ r = o
      BY <1>2, <1>4, <1>5, <1>7, <1>9, <3>0, <3>1
    <3>2. CASE q # o /\ r # o
      BY <1>2, <1>7, <1>9, <3>0, <3>2 DEF Numbered, MadeOnce
    <3> QED
      BY <3>1, <3>2
  <2> QED
    BY <2>1, <2>2 DEF MadeOnce
<1>14. Deserved(c)'
  <2>1. \A q \in Ready(c) : production'[c][q] = production[c][q]
    BY <1>2, <1>7, MadeTyped
  <2>2. \A q \in Ready(c) : production[c][q].run = "DONE" /\ production[c][q].candidate = "saved"
    BY <1>2 DEF Numbered, Deserved
  <2>3. campaign'[c].status # "complete"
    BY <1>0, <1>2 DEF Unfinished
  <2> QED
    BY <1>11, <2>1, <2>2, <2>3 DEF Deserved
<1>15. Numbered(c)'
  <2>1. Len(campaign'[c].proposals) <= ProposalBudget /\ campaign'[c].linked \subseteq Made(c)'
    BY <1>0, <1>2, <1>9 DEF Numbered
  <2> QED
    BY <1>12, <1>13, <1>14, <2>1 DEF Numbered
<1>16. Filed'
  BY <1>0, <1>2, <1>7, <1>8, <1>15 DEF Filed, Records
<1>17. production'[pass.of][pass.item] = x
  BY <1>1, <1>7
<1> QED
  BY <1>0, <1>5, <1>16, <1>17, GoneOn

LEMMA SandboxStep ==
  ASSUME Filed, Placed, Allocate \/ AllocateFails
  PROVE  Filed' /\ Placed'
<1>0. pass.pc = "allocate" /\ campaign' = campaign /\ pass.pc \in Producing /\ pass.pc \in Writing
  BY DEF Allocate, AllocateFails, Producing, Writing, Making
<1>1. Item \in Production /\ Item.status # "none" /\ Item.status # "ready"
  BY <1>0, InProduction
<1>2. ASSUME NEW sandbox \in {Item.sandbox, "made", "allocated"},
             SaveItem([Item EXCEPT !.sandbox = sandbox])
      PROVE  Filed' /\ production'[pass.of][pass.item] = [Item EXCEPT !.sandbox = sandbox]
  <2> DEFINE x == [Item EXCEPT !.sandbox = sandbox]
  <2>1. x \in Production /\ x.proposal = Item.proposal /\ x.status = Item.status
    BY <1>1, <1>2 DEF Production
  <2> HIDE DEF x
  <2>2. SaveItem(x)
    BY <1>2 DEF x
  <2>3. Filed' /\ production'[pass.of][pass.item] = x
    BY <1>0, <1>1, <2>1, <2>2, ItemStep
  <2> QED
    BY <2>3 DEF x
<1>3. CASE Allocate
  <2> DEFINE x == [Item EXCEPT !.sandbox = "allocated"]
  <2>1. x.status = Item.status
    BY <1>1 DEF Production
  <2>2. Filed' /\ production'[pass.of][pass.item] = x
    BY <1>2, <1>3 DEF Allocate
  <2>3. pass' = [pass EXCEPT !.pc = "link"]
    BY <1>3 DEF Allocate, Goto
  <2> HIDE DEF x
  <2> QED
    BY <1>0, <1>1, <2>1, <2>2, <2>3, GoneOn
<1>4. CASE AllocateFails
  <2>1. Placed'
    BY <1>0, <1>4, Left DEF AllocateFails, Goto
  <2>2. CASE production' = production
    BY <1>0, <2>1, <2>2, NothingSaved DEF filed
  <2>3. CASE \E sandbox \in {Item.sandbox, "made"} : SaveItem([Item EXCEPT !.sandbox = sandbox])
    BY <1>2, <2>1, <2>3
  <2> QED
    BY <1>4, <2>2, <2>3 DEF AllocateFails
<1> QED
  BY <1>3, <1>4

LEMMA RoundBegun ==
  ASSUME Filed, Placed, pass.pc \in Producing, AnotherRound(pass.steps + 1), campaign' = campaign
  PROVE  Placed'
BY InProduction, RoundPlaced

LEMMA AdvanceStep ==
  ASSUME Filed, Placed, Advance
  PROVE  Filed' /\ Placed'
<1>0. /\ pass.pc = "advance" /\ campaign' = campaign /\ pass.pc \in Producing /\ pass.pc \in Writing
      /\ {"settle", "supervise"} \subseteq Writing \ {"deploy", "materialize", "save", "link"}
  BY DEF Advance, Producing, Writing, Making
<1>1. Item \in Production /\ Item.status # "none" /\ Item.status # "ready"
  BY <1>0, InProduction
<1>2. ASSUME NEW to \in {"settle", "supervise"}, pass' = [pass EXCEPT !.pc = to], production' = production
      PROVE  Filed' /\ Placed'
  <2>1. Filed'
    BY <1>0, <1>2, NothingSaved DEF filed
  <2>2. production'[pass.of][pass.item] = Item
    BY <1>2 DEF Item
  <2> QED
    BY <1>0, <1>1, <1>2, <2>1, <2>2, GoneOn
<1>3. ASSUME SaveItem([Item EXCEPT !.run = "RUNNING"]), pass' = [pass EXCEPT !.pc = "supervise"]
      PROVE  Filed' /\ Placed'
  <2> DEFINE x == [Item EXCEPT !.run = "RUNNING"]
  <2>1. x \in Production /\ x.proposal = Item.proposal /\ x.status = Item.status
    BY <1>1 DEF Production, RunStatuses
  <2>2. SaveItem(x)
    BY <1>3
  <2> HIDE DEF x
  <2>3. Filed' /\ production'[pass.of][pass.item] = x
    BY <1>0, <1>1, <2>1, <2>2, ItemStep
  <2> QED
    BY <1>0, <1>1, <1>3, <2>1, <2>3, GoneOn
<1>4. ASSUME SaveItem([Item EXCEPT !.run = "WAITING_AGENT", !.status = "running"]),
             pass' = [pass EXCEPT !.pc = "ended"]
      PROVE  Filed' /\ Placed'
  <2> DEFINE x == [Item EXCEPT !.run = "WAITING_AGENT", !.status = "running"]
  <2>1. x \in Production /\ x.proposal = Item.proposal /\ x.status = "running"
    BY <1>1 DEF Production, RunStatuses, RunOutcomes, ProductionStatuses
  <2>2. SaveItem(x)
    BY <1>4
  <2> HIDE DEF x
  <2>3. Filed'
    BY <1>0, <1>1, <2>1, <2>2, ItemStep
  <2> QED
    BY <1>0, <1>4, <2>3, Left
<1> QED
  BY <1>2, <1>3, <1>4 DEF Advance, Goto

LEMMA SuperviseStep ==
  ASSUME Filed, Placed, Supervise \/ SuperviseThrows
  PROVE  Filed' /\ Placed'
<1>0. /\ pass.pc = "supervise" /\ campaign' = campaign /\ pass.pc \in Producing /\ pass.pc \in Writing
      /\ "settle" \in Writing \ {"deploy", "materialize", "save", "link"}
  BY DEF Supervise, SuperviseThrows, Producing, Writing, Making
<1>1. Item \in Production /\ Item.status # "none" /\ Item.status # "ready" /\ Item.run \in RunStatuses
      /\ Item.retry \in {"none", "active", "closed"}
  BY <1>0, InProduction DEF Production
<1>2. CASE Supervise
  <2>1. PICK outcome \in IF Item.run \in {"WAITING_EXTERNAL", "BLOCKED_USER"} THEN {Item.run} ELSE Outcomes :
          SaveItem([Item EXCEPT !.run = outcome,
                      !.retry = IF @ = "active" /\ outcome \in {"FAILED_FINAL", "DONE"} THEN "closed" ELSE @])
    BY <1>2 DEF Supervise
  <2>2. outcome \in RunStatuses
    BY <1>1, CampaignAssumption DEF RunStatuses
  <2> DEFINE retry == IF Item.retry = "active" /\ outcome \in {"FAILED_FINAL", "DONE"} THEN "closed" ELSE Item.retry
             x == [Item EXCEPT !.run = outcome, !.retry = retry]
  <2>3. retry \in {"none", "active", "closed"}
    BY <1>1
  <2>4. SaveItem(x)
    BY <1>1, <2>1 DEF Production
  <2> HIDE DEF retry
  <2>5. x \in Production /\ x.proposal = Item.proposal /\ x.status = Item.status
    BY <1>1, <2>2, <2>3 DEF Production
  <2> HIDE DEF x
  <2>6. Filed' /\ production'[pass.of][pass.item] = x
    BY <1>0, <1>1, <2>4, <2>5, ItemStep
  <2>7. pass' = [pass EXCEPT !.pc = "settle"]
    BY <1>2 DEF Supervise, Goto
  <2> QED
    BY <1>0, <1>1, <2>5, <2>6, <2>7, GoneOn
<1>3. CASE SuperviseThrows
  <2> DEFINE x == [Item EXCEPT !.run = "RUNNING"]
  <2>1. x \in Production /\ x.proposal = Item.proposal /\ x.status = Item.status
    BY <1>1 DEF Production, RunStatuses
  <2>2. SaveItem(x)
    BY <1>3 DEF SuperviseThrows
  <2> HIDE DEF x
  <2>3. Filed'
    BY <1>0, <1>1, <2>1, <2>2, ItemStep
  <2> QED
    BY <1>0, <1>3, <2>3, Left DEF SuperviseThrows, Goto
<1> QED
  BY <1>2, <1>3

LEMMA SettleStep ==
  ASSUME Filed, Placed, Settle
  PROVE  Filed' /\ Placed'
<1>0. /\ pass.pc = "settle" /\ campaign' = campaign /\ pass.pc \in Producing /\ pass.pc \in Writing
      /\ "deploy" \in Writing
  BY DEF Settle, Producing, Writing, Making
<1>1. Item \in Production /\ Item.status # "none" /\ Item.status # "ready"
  BY <1>0, InProduction
<1>2. ASSUME NEW status \in {"failed", "deploying", "running"}, SaveItem([Item EXCEPT !.status = status])
      PROVE  /\ Filed' /\ production'[pass.of][pass.item] = [Item EXCEPT !.status = status]
             /\ [Item EXCEPT !.status = status].status = status
             /\ [Item EXCEPT !.status = status].run = Item.run
  <2> DEFINE x == [Item EXCEPT !.status = status]
  <2>1. x \in Production /\ x.proposal = Item.proposal /\ x.status = status /\ x.run = Item.run
    BY <1>1 DEF Production, ProductionStatuses
  <2>2. SaveItem(x)
    BY <1>2
  <2> HIDE DEF x
  <2>3. Filed' /\ production'[pass.of][pass.item] = x
    BY <1>0, <1>1, <2>1, <2>2, ItemStep
  <2> QED
    BY <2>1, <2>3 DEF x
<1>3. ASSUME NEW status \in {"failed", "running"}, SaveItem([Item EXCEPT !.status = status]),
             AnotherRound(pass.steps + 1) \/ Goto("failed")
      PROVE  Filed' /\ Placed'
  BY <1>0, <1>2, <1>3, RoundBegun, Left DEF Goto
<1>4. ASSUME Item.run = "DONE", SaveItem([Item EXCEPT !.status = "deploying"]), Goto("deploy")
      PROVE  Filed' /\ Placed'
  <2> DEFINE x == [Item EXCEPT !.status = "deploying"]
  <2>1. Filed' /\ production'[pass.of][pass.item] = x /\ x.status = "deploying" /\ x.run = "DONE"
    BY <1>2, <1>4
  <2> HIDE DEF x
  <2> QED
    BY <1>0, <1>4, <2>1, GoneOn DEF Goto
<1> QED
  BY <1>3, <1>4 DEF Settle

LEMMA DeployStep ==
  ASSUME Filed, Placed, Deploy \/ DeployFails
  PROVE  Filed' /\ Placed'
<1>0. /\ pass.pc = "deploy" /\ campaign' = campaign /\ pass.pc \in Producing /\ pass.pc \in Writing
      /\ "materialize" \in Writing
  BY DEF Deploy, DeployFails, Producing, Writing, Making
<1>1. Item \in Production /\ Item.status # "none" /\ Item.status # "ready" /\ Item.run = "DONE"
  BY <1>0, InProduction DEF Placed, PassMeans
<1>2. ASSUME NEW status \in {"failed", "deploying", "verifying"}, SaveItem([Item EXCEPT !.status = status])
      PROVE  /\ Filed' /\ production'[pass.of][pass.item] = [Item EXCEPT !.status = status]
             /\ [Item EXCEPT !.status = status].status = status
             /\ [Item EXCEPT !.status = status].run = Item.run
  <2> DEFINE x == [Item EXCEPT !.status = status]
  <2>1. x \in Production /\ x.proposal = Item.proposal /\ x.status = status /\ x.run = Item.run
    BY <1>1 DEF Production, ProductionStatuses
  <2>2. SaveItem(x)
    BY <1>2
  <2> HIDE DEF x
  <2>3. Filed' /\ production'[pass.of][pass.item] = x
    BY <1>0, <1>1, <2>1, <2>2, ItemStep
  <2> QED
    BY <2>1, <2>3 DEF x
<1>3. CASE Deploy
  <2> DEFINE x == [Item EXCEPT !.status = "verifying"]
  <2>1. Filed' /\ production'[pass.of][pass.item] = x /\ x.status = "verifying" /\ x.run = "DONE"
    BY <1>1, <1>2, <1>3 DEF Deploy
  <2> HIDE DEF x
  <2> QED
    BY <1>0, <1>3, <2>1, GoneOn DEF Deploy, Goto
<1>4. CASE DeployFails
  <2>1. Filed'
    BY <1>2, <1>4 DEF DeployFails
  <2> QED
    BY <1>0, <1>4, <2>1, RoundBegun, Left DEF DeployFails, Goto
<1> QED
  BY <1>3, <1>4

LEMMA DeliverStep ==
  ASSUME Filed, Placed, Materialize \/ SaveReady
  PROVE  Filed' /\ Placed'
<1>0. /\ campaign' = campaign /\ pass.pc \in Producing /\ pass.pc \in Writing
      /\ pass.pc \in {"materialize", "save"} /\ "save" \in Writing
  BY DEF Materialize, SaveReady, Producing, Writing, Making
<1>1. Item \in Production /\ Item.status # "none" /\ Item.status # "ready" /\ Item.run = "DONE"
  BY <1>0, InProduction DEF Placed, PassMeans
<1>2. CASE Materialize
  <2> DEFINE x == [Item EXCEPT !.candidate = "saved"]
  <2>1. x \in Production /\ x.proposal = Item.proposal /\ x.status = Item.status /\ x.run = "DONE" /\ x.candidate = "saved"
    BY <1>1 DEF Production
  <2>2. SaveItem(x)
    BY <1>2 DEF Materialize
  <2> HIDE DEF x
  <2>3. Filed' /\ production'[pass.of][pass.item] = x
    BY <1>0, <1>1, <2>1, <2>2, ItemStep
  <2> QED
    BY <1>0, <1>1, <1>2, <2>1, <2>3, GoneOn DEF Materialize, Goto
<1>3. CASE SaveReady
  <2> DEFINE x == [Item EXCEPT !.status = "ready"]
  <2>0. Item.candidate = "saved"
    BY <1>3 DEF SaveReady, Placed, PassMeans
  <2>1. x \in Production /\ x.proposal = Item.proposal /\ x.status = "ready" /\ x.run = "DONE" /\ x.candidate = "saved"
    BY <1>1, <2>0 DEF Production, ProductionStatuses
  <2>2. SaveItem(x)
    BY <1>3 DEF SaveReady
  <2> HIDE DEF x
  <2>3. Filed'
    BY <1>0, <1>1, <2>1, <2>2, ItemStep
  <2> QED
    BY <1>0, <1>3, <2>3, RoundBegun DEF SaveReady
<1> QED
  BY <1>2, <1>3
----------------------------------------------------------------------------
(* The queues and the pass belong together.  A recovery that is owed waits  *)
(* in a queue, or the campaign's pass is about to read it or repeated.      *)
Passing == PassSteps \ {"idle", "guard"}

Kept ==
  \A c \in owed : \/ c \in Waits(queue)
                  \/ pass.of = c /\ (pass.pc \in {"begin", "guard"} \/ c \in queue.follow)

Lined ==
  /\ InLine(queue)
  /\ pass.pc \in {"idle", "guard"} <=> queue.active = NoCampaign
  /\ pass.pc \in Passing => pass.of = queue.active
  /\ pass.pc = "idle" => pass.of = NoCampaign
  /\ accepting = "closed" => owed = {}
  /\ Kept

Routes == {"created", "retried"} \X Campaigns

Around ==
  /\ accepting \in {"open", "closed"}
  /\ calls \subseteq Routes
  /\ link \in [agent : {"up", "down"}, capability : {"ready", "blocked"}]
  /\ recovery \in [pc : {"wanted", "list", "schedule", "done"}, todo : SUBSET Campaigns]
  /\ owed \subseteq Campaigns
  /\ disturbances \in 0 .. MaxDisturbances

Inv == Filed /\ Placed /\ Lined /\ Around

LEMMA Counted ==
  ASSUME disturbances \in 0 .. MaxDisturbances, Disturb \/ UNCHANGED disturbances
  PROVE  disturbances' \in 0 .. MaxDisturbances
BY Constants DEF Disturb

(* A step of a pass under way leaves the queues and the rest alone.         *)
LEMMA WithinPass ==
  ASSUME Placed,
         Begin \/ Scan \/ OutOfSteps \/ Generate \/ RecordProposal \/ LinkProduction \/ Driving
  PROVE  /\ UNCHANGED <<queue, accepting, calls, link, recovery>>
         /\ pass.pc \in Passing /\ pass'.pc \in Passing /\ pass'.of = pass.of
         /\ owed' = IF pass.pc = "begin" THEN owed \ {pass.of} ELSE owed
         /\ Disturb \/ UNCHANGED disturbances
         /\ pass.pc # "guard"
<1> USE DEF served, passFrame, supervised, Goto, AnotherRound
<1>0. Passing = (Producing \cup Unlocked \cup {"scan", "link", "generate", "record"}) \ {"idle", "guard"}
  BY DEF Passing, PassSteps
<1>1. \A to : pass' = [pass EXCEPT !.pc = to] => pass'.pc = to /\ pass'.of = pass.of
  BY DEF Placed, Pass
<1>2. \A n : AnotherRound(n) => pass'.pc = "scan" /\ pass'.of = pass.of
  BY NoPassTyped DEF Pass
<1>3. {"begin", "scan", "ended", "generate", "record", "link", "create", "provision", "allocate", "advance",
       "supervise", "settle", "deploy", "materialize", "save", "failed"} \subseteq Passing
  BY DEF Passing, PassSteps, Producing, Unlocked
<1>a. CASE Begin
  BY <1>1, <1>3, <1>a DEF Begin
<1>b. CASE Scan
  <2>1. /\ UNCHANGED supervised /\ UNCHANGED disturbances /\ pass.pc = "scan"
        /\ \E to \in {"ended", "advance", "create", "generate"} : \E item :
             pass' = [pass EXCEPT !.pc = to] \/ pass' = [pass EXCEPT !.pc = to, !.item = item]
    BY <1>b DEF Scan
  <2>2. pass'.pc \in {"ended", "advance", "create", "generate"} /\ pass'.of = pass.of
    BY <2>1 DEF Placed, Pass
  <2> QED
    BY <1>3, <2>1, <2>2
<1>c. CASE OutOfSteps
  BY <1>1, <1>3, <1>c DEF OutOfSteps
<1>d. CASE Generate
  <2>1. pass'.pc \in {"record", "ended"} /\ pass'.of = pass.of
    BY <1>d DEF Generate, Placed, Pass
  <2> QED
    BY <1>3, <1>d, <2>1 DEF Generate
<1>e. CASE RecordProposal
  BY <1>2, <1>3, <1>e DEF RecordProposal
<1>f. CASE LinkProduction
  BY <1>2, <1>3, <1>f DEF LinkProduction
<1>g. CASE CreateRun \/ Provision \/ Allocate \/ AllocateFails
  BY <1>1, <1>3, <1>g DEF CreateRun, Provision, Allocate, AllocateFails
<1>h. CASE Advance
  BY <1>1, <1>3, <1>h DEF Advance
<1>i. CASE Supervise \/ SuperviseThrows
  BY <1>1, <1>3, <1>i DEF Supervise, SuperviseThrows
<1>j. CASE Settle
  BY <1>1, <1>2, <1>3, <1>j DEF Settle
<1>k. CASE Deploy \/ DeployFails
  BY <1>1, <1>2, <1>3, <1>k DEF Deploy, DeployFails
<1>l. CASE Materialize \/ SaveReady
  BY <1>1, <1>2, <1>3, <1>l DEF Materialize, SaveReady
<1> QED
  BY <1>a, <1>b, <1>c, <1>d, <1>e, <1>f, <1>g, <1>h, <1>i, <1>j, <1>k, <1>l DEF Driving

LEMMA PassKeepsInv ==
  ASSUME Inv, Begin \/ Scan \/ OutOfSteps \/ Generate \/ RecordProposal \/ LinkProduction \/ Driving
  PROVE  Inv'
<1>1. Filed' /\ Placed'
  BY SupervisorStep, CreateRunStep, ProvisionStep, SandboxStep, AdvanceStep, SuperviseStep, SettleStep,
     DeployStep, DeliverStep DEF Inv, Driving
<1>2. /\ UNCHANGED <<queue, accepting, calls, link, recovery>>
      /\ pass.pc \in Passing /\ pass'.pc \in Passing /\ pass'.of = pass.of
      /\ owed' = IF pass.pc = "begin" THEN owed \ {pass.of} ELSE owed
      /\ Disturb \/ UNCHANGED disturbances
      /\ pass.pc # "guard"
  BY WithinPass DEF Inv
<1>3. Kept'
  <2>1. ASSUME NEW c \in owed', c \notin Waits(queue) PROVE pass'.of = c /\ c \in queue'.follow
    BY <1>2, <2>1 DEF Inv, Lined, Kept
  <2>2. Waits(queue)' = Waits(queue)
    BY <1>2
  <2> QED
    BY <2>1, <2>2 DEF Kept
<1>4. Lined'
  BY <1>2, <1>3 DEF Inv, Lined, Passing
<1>5. Around'
  BY <1>2, Counted DEF Inv, Around
<1> QED
  BY <1>1, <1>4, <1>5 DEF Inv

(* The first of the two queues together, and which of them it leaves.       *)
LEMMA HeadOfBoth ==
  ASSUME NEW s \in Seq(Campaigns), NEW t \in Seq(Campaigns), s \o t # <<>>
  PROVE  IF s # <<>> THEN Head(s \o t) = Head(s) ELSE t # <<>> /\ Head(s \o t) = Head(t)
OBVIOUS

LEMMA TakeStep ==
  ASSUME Inv, Take
  PROVE  Inv'
<1>0. /\ pass.pc = "idle" /\ UNCHANGED filed /\ UNCHANGED <<accepting, calls, link, recovery, owed, disturbances>>
      /\ queue.active = NoCampaign /\ InLine(queue)
  BY DEF Take, passFrame, Inv, Lined
<1>1. PICK c : c = Head(queue.fresh \o queue.recovery)
  OBVIOUS
<1>2. /\ queue.fresh \o queue.recovery # <<>>
      /\ queue' = [queue EXCEPT !.active = c,
                     !.fresh = IF @ # <<>> THEN Tail(@) ELSE @,
                     !.recovery = IF queue.fresh = <<>> THEN Tail(@) ELSE @]
      /\ pass' = [NoPass EXCEPT !.pc = "begin", !.of = c]
  BY <1>1 DEF Take
<1>3. /\ c \in Campaigns /\ InLine(queue') /\ queue'.active = c /\ queue'.follow = queue.follow
      /\ Waits(queue') \cup {c} = Waits(queue)
  <2>1. CASE queue.fresh # <<>>
    <3>1. queue' = [fresh |-> Tail(queue.fresh), recovery |-> queue.recovery, scheduled |-> queue.scheduled,
                    failed |-> queue.failed, follow |-> queue.follow, active |-> c]
      BY <1>0, <1>2, <2>1 DEF InLine
    <3>2. c = Head(queue.fresh)
      BY <1>0, <1>1, <1>2, <2>1, HeadOfBoth DEF InLine
    <3>3. /\ c \in Campaigns /\ c \in ToSet(queue.fresh)
          /\ Tail(queue.fresh) \in Seq(Campaigns) /\ Once(Tail(queue.fresh))
          /\ ToSet(Tail(queue.fresh)) = ToSet(queue.fresh) \ {c}
      BY <1>0, <2>1, <3>2, TailOnce DEF InLine
    <3>4. c # NoCampaign
      BY <3>3, Constants
    <3> QED
      BY <1>0, <3>1, <3>3, <3>4 DEF InLine, Waits
  <2>2. CASE queue.fresh = <<>>
    <3>1. queue' = [fresh |-> queue.fresh, recovery |-> Tail(queue.recovery), scheduled |-> queue.scheduled,
                    failed |-> queue.failed, follow |-> queue.follow, active |-> c]
      BY <1>0, <1>2, <2>2 DEF InLine
    <3>2. queue.recovery # <<>> /\ c = Head(queue.recovery)
      BY <1>0, <1>1, <1>2, <2>2, HeadOfBoth DEF InLine
    <3>3. /\ c \in Campaigns /\ c \in ToSet(queue.recovery)
          /\ Tail(queue.recovery) \in Seq(Campaigns) /\ Once(Tail(queue.recovery))
          /\ ToSet(Tail(queue.recovery)) = ToSet(queue.recovery) \ {c}
      BY <1>0, <3>2, TailOnce DEF InLine
    <3>4. c # NoCampaign
      BY <3>3, Constants
    <3> QED
      BY <1>0, <3>1, <3>3, <3>4 DEF InLine, Waits
  <2> QED
    BY <2>1, <2>2
<1>4. pass' \in Pass /\ pass'.pc = "begin" /\ pass'.of = c
  BY <1>2, <1>3, NoPassTyped, PassNames DEF Pass
<1>5. Filed'
  BY <1>0, NothingSaved DEF Inv
<1>6. Placed'
  BY <1>3, <1>4, UnlockedPlaced, PassNames
<1>7. Kept'
  <2>1. ASSUME NEW d \in owed PROVE d \in Waits(queue)
    BY <1>0, <2>1, Constants DEF Inv, Lined, Kept, Around
  <2> QED
    BY <1>0, <1>3, <1>4, <2>1 DEF Kept
<1>8. c # NoCampaign /\ "begin" \in Passing
  BY <1>3, Constants, PassNames DEF Passing
<1>9. Lined'
  BY <1>0, <1>3, <1>4, <1>7, <1>8 DEF Inv, Lined, Passing
<1> QED
  BY <1>0, <1>5, <1>6, <1>9 DEF Inv, Around

LEMMA FinishStep ==
  ASSUME Inv, PassEnded \/ PassFailed
  PROVE  Inv'
<1>0. /\ pass.pc \in Passing /\ pass.of \in Campaigns /\ pass.of = queue.active /\ InLine(queue)
      /\ pass.pc \notin {"begin", "guard"}
  BY PassNames DEF PassEnded, PassFailed, Inv, Lined, Placed, PassMeans, Passing
<1>1. PICK again \in BOOLEAN, failed \in SUBSET Campaigns : Finish(again, failed)
  BY <1>0 DEF PassEnded, PassFailed, InLine
<1>2. UNCHANGED filed /\ UNCHANGED <<accepting, calls, link, recovery, owed, disturbances>>
  BY <1>1 DEF Finish, passFrame
<1>3. PICK c \in Campaigns : c = pass.of
  BY <1>0
<1>4. queue' = [fresh |-> queue.fresh, recovery |-> queue.recovery, scheduled |-> queue.scheduled \ {c},
                failed |-> failed, follow |-> queue.follow \ {c}, active |-> NoCampaign]
  BY <1>0, <1>1, <1>3 DEF Finish, InLine
<1>5. InLine(queue') /\ Waits(queue') = Waits(queue)
  <2>1. NoCampaign \notin Waits(queue)
    BY <1>0, ToSetType, Constants DEF InLine, Waits
  <2> QED
    BY <1>0, <1>3, <1>4, <2>1 DEF InLine, Waits
<1>6. /\ pass' \in Pass
      /\ \/ pass'.pc = "guard" /\ pass'.of = c
         \/ pass'.pc = "idle" /\ pass'.of = NoCampaign /\ c \notin queue.follow
  <2>1. CASE again \/ c \in queue.follow
    BY <1>1, <1>3, <2>1, NoPassTyped, PassNames DEF Finish, Pass
  <2>2. CASE ~(again \/ c \in queue.follow)
    BY <1>1, <1>3, <2>2, NoPassTyped DEF Finish, NoPass
  <2> QED
    BY <2>1, <2>2
<1>7. Filed' /\ Placed'
  BY <1>2, <1>6, NothingSaved, UnlockedPlaced, PassNames DEF Inv
<1>8. Kept'
  <2>1. ASSUME NEW d \in owed, d \notin Waits(queue) PROVE pass'.of = d /\ pass'.pc = "guard"
    <3>1. d = c /\ d \in queue.follow
      BY <1>0, <1>3, <2>1 DEF Inv, Lined, Kept
    <3> QED
      BY <1>6, <3>1
  <2> QED
    BY <1>2, <1>5, <2>1 DEF Kept
<1>9. Lined'
  BY <1>2, <1>4, <1>5, <1>6, <1>8 DEF Inv, Lined, Passing
<1> QED
  BY <1>2, <1>7, <1>9 DEF Inv, Around

LEMMA GuardStep ==
  ASSUME Inv, Guard
  PROVE  Inv'
<1>0. /\ pass.pc = "guard" /\ pass' = NoPass /\ UNCHANGED filed
      /\ UNCHANGED <<accepting, calls, link, recovery, disturbances>>
      /\ InLine(queue) /\ queue.active = NoCampaign
  BY DEF Guard, passFrame, Inv, Lined
<1>1. PICK c \in Campaigns : c = pass.of
  BY <1>0, PassNames DEF Inv, Placed, PassMeans
<1>2. /\ queue' = IF Recoverable(c) THEN Scheduled(queue, c, "recovery") ELSE queue
      /\ owed' = IF Recoverable(c) THEN owed ELSE owed \ {c}
  BY <1>1 DEF Guard
<1>3. PICK r : r = Scheduled(queue, c, "recovery")
  OBVIOUS
<1>4. /\ InLine(r) /\ r.active = NoCampaign /\ Waits(queue) \subseteq Waits(r)
      /\ accepting = "open" => c \in Waits(r)
  <2>1. /\ InLine(r) /\ r.active = queue.active /\ Waits(queue) \subseteq Waits(r)
        /\ accepting = "open" => c \in Waits(r) \/ c = r.active
    BY <1>0, <1>3, ScheduledInLine
  <2> QED
    BY <1>0, <2>1, Constants
<1>5. /\ InLine(queue') /\ queue'.active = NoCampaign /\ Waits(queue) \subseteq Waits(queue')
  BY <1>0, <1>2, <1>3, <1>4
<1>6. Kept'
  <2>1. ASSUME NEW d \in owed' PROVE d \in Waits(queue')
    <3>1. CASE d \in Waits(queue)
      BY <1>5, <3>1
    <3>2. CASE d \notin Waits(queue)
      <4>1. d \in owed /\ accepting = "open"
        BY <1>2, <2>1 DEF Inv, Lined, Around
      <4>2. d = c \/ (d \in queue.follow /\ d = pass.of)
        BY <1>1, <3>2, <4>1 DEF Inv, Lined, Kept
      <4>3. d = c
        BY <1>1, <4>2
      <4>4. Recoverable(c)
        BY <1>2, <2>1, <4>3
      <4> QED
        BY <1>2, <1>3, <1>4, <4>1, <4>3, <4>4
    <3> QED
      BY <3>1, <3>2
  <2> QED
    BY <2>1 DEF Kept
<1>7. pass'.pc = "idle" /\ pass'.of = NoCampaign /\ pass' \in Pass
  BY <1>0, NoPassTyped DEF NoPass
<1>8. Filed' /\ Placed'
  BY <1>0, <1>7, NothingSaved, UnlockedPlaced, PassNames DEF Inv
<1>9. owed' \subseteq owed
  BY <1>2
<1>10. Lined'
  BY <1>0, <1>5, <1>6, <1>7, <1>9 DEF Inv, Lined, Passing
<1> QED
  BY <1>0, <1>8, <1>9, <1>10 DEF Inv, Around
----------------------------------------------------------------------------
(* The operator, the connection, the recovery and the process.              *)
LEMMA SameLine ==
  ASSUME Lined, UNCHANGED <<queue, pass, accepting, owed>>
  PROVE  Lined'
<1>1. InLine(queue)' /\ Waits(queue)' = Waits(queue)
  BY DEF Lined
<1>2. Kept'
  BY <1>1 DEF Lined, Kept
<1> QED
  BY <1>1, <1>2 DEF Lined

LEMMA OperatorStep ==
  ASSUME Inv, Operator
  PROVE  Inv'
<1> USE DEF operatorFrame
<1>1. ASSUME NEW c \in Campaigns, CreateCampaign(c) \/ CancelCampaign(c)
      PROVE  Inv'
  <2>1. PICK status \in {"generating", "cancelled"} : campaign' = [campaign EXCEPT ![c].status = status]
    BY <1>1 DEF CreateCampaign, CancelCampaign
  <2>2. /\ production' = production /\ UNCHANGED <<queue, accepting, owed, pass, link, recovery>>
        /\ calls' \subseteq calls \cup {<<"created", c>>}
        /\ Disturb \/ UNCHANGED disturbances
    BY <1>1 DEF CreateCampaign, CancelCampaign
  <2>3. campaign[c] \in Campaign /\ Numbered(c)
    BY MadeTyped DEF Inv, Filed
  <2> DEFINE x == [campaign[c] EXCEPT !.status = status]
  <2>4. /\ x \in Campaign /\ x.proposals = campaign[c].proposals /\ x.status = status
        /\ x.linked = campaign[c].linked /\ campaign' = [campaign EXCEPT ![c] = x]
    BY <2>1, <2>3 DEF Campaign, CampaignStatuses
  <2> HIDE DEF x
  <2>5. Filed' /\ \A d \in Campaigns : Made(d)' = Made(d)
    BY <2>2, <2>3, <2>4, CampaignSaved DEF Inv, Filed, Numbered
  <2>6. Placed'
    <3>1. pass.pc \notin Unlocked => campaign'[pass.of] = campaign[pass.of]
      <4>1. pass.pc \notin Unlocked => pass.of # c /\ pass.of \in Campaigns
        BY <1>1, PassNames DEF CreateCampaign, CancelCampaign, Inv, Placed, PassMeans, Unfinished
      <4> QED
        BY <2>4, <4>1 DEF Inv, Filed, Records
    <3>2. pass.pc # "idle" => Made(pass.of)' = Made(pass.of)
      <4>1. ASSUME pass.pc # "idle" PROVE pass.of \in Campaigns
        BY <4>1 DEF Inv, Placed, PassMeans
      <4> QED
        BY <2>2, <4>1 DEF Made
    <3> QED
      BY <2>2, <3>1, <3>2, PlaceKept DEF Inv
  <2>7. Lined'
    BY <2>2, SameLine DEF Inv
  <2>8. Around'
    <3>1. disturbances' \in 0 .. MaxDisturbances
      BY <2>2, Counted DEF Inv, Around
    <3>2. <<"created", c>> \in Routes
      BY DEF Routes
    <3>3. calls' \subseteq Routes
      BY <2>2, <3>2 DEF Inv, Around
    <3> QED
      BY <2>2, <3>1, <3>3 DEF Inv, Around, Routes
  <2> QED
    BY <2>5, <2>6, <2>7, <2>8 DEF Inv
<1>2. ASSUME NEW c \in Campaigns, NEW o \in Ordinals, RequestRetry(c, o)
      PROVE  Inv'
  <2>1. /\ campaign' = campaign /\ UNCHANGED <<queue, accepting, owed, pass, link, recovery>>
        /\ calls' = calls \cup {<<"retried", c>>} /\ Disturb /\ pass.pc \notin Producing
        /\ production[c][o].status # "none" /\ production[c][o].run = "FAILED_FINAL"
        /\ production' = [production EXCEPT ![c][o].run = "READY", ![c][o].retry = "active"]
    BY <1>2 DEF RequestRetry
  <2>2. production[c][o] \in Production /\ production[c][o].status # "ready"
    <3>1. production[c][o] \in Production /\ Numbered(c)
      BY MadeTyped DEF Inv, Filed
    <3> QED
      BY <2>1, <3>1 DEF Numbered, Deserved, Ready, Made
  <2> DEFINE x == [production[c][o] EXCEPT !.run = "READY", !.retry = "active"]
  <2>3. /\ x \in Production /\ x.proposal = production[c][o].proposal /\ x.status = production[c][o].status
    BY <2>2 DEF Production, RunStatuses
  <2>4. production' = [production EXCEPT ![c][o] = x]
    BY <2>1 DEF Inv, Filed, Records
  <2> HIDE DEF x
  <2>5. Filed' /\ \A d \in Campaigns : Made(d)' = Made(d)
    <3>1. /\ Records /\ \A d \in Campaigns : Numbered(d)
          /\ x.status = "none" <=> production[c][o].status = "none"
          /\ x.status # "ready"
      BY <2>1, <2>2, <2>3 DEF Inv, Filed
    <3>3. x.status = production[c][o].status /\ x \in Production /\ x.proposal = production[c][o].proposal
      BY <2>3
    <3>4. production' = [production EXCEPT ![c][o] = x] /\ campaign' = campaign
      BY <2>1, <2>4
    <3>2. /\ Records' /\ \A d \in Campaigns : Numbered(d)'
          /\ \A d \in Campaigns : Made(d)' = Made(d) /\ Waiting(d)' = Waiting(d)
      BY <3>1, <3>3, <3>4, ItemSaved
    <3> QED
      BY <3>2 DEF Filed
  <2>6. Placed'
    <3>1. pass.pc # "idle" => Made(pass.of)' = Made(pass.of)
      <4>1. ASSUME pass.pc # "idle" PROVE pass.of \in Campaigns
        BY <4>1 DEF Inv, Placed, PassMeans
      <4>2. ASSUME pass.pc # "idle" PROVE Made(pass.of)' = Made(pass.of)
        <5>1. PICK d \in Campaigns : d = pass.of
          BY <4>1, <4>2
        <5>2. Made(pass.of)' = Made(d)'
          BY <2>1, <5>1 DEF Made
        <5> QED
          BY <2>5, <5>1, <5>2
      <4> QED
        BY <4>2
    <3> QED
      BY <2>1, <3>1, PlaceKept DEF Inv
  <2>7. Lined'
    BY <2>1, SameLine DEF Inv
  <2>8. Around'
    <3>1. disturbances' \in 0 .. MaxDisturbances
      BY <2>1, Counted DEF Inv, Around
    <3>2. <<"retried", c>> \in Routes
      BY DEF Routes
    <3> QED
      BY <2>1, <3>1, <3>2 DEF Inv, Around, Routes
  <2> QED
    BY <2>5, <2>6, <2>7, <2>8 DEF Inv
<1>3. ASSUME NEW call \in calls, Enqueue(call)
      PROVE  Inv'
  <2>1. /\ UNCHANGED filed /\ UNCHANGED <<accepting, owed, pass, link, recovery, disturbances>>
        /\ calls' = calls \ {call}
        /\ queue' = queue \/ queue' = Scheduled(queue, call[2], "fresh")
    BY <1>3 DEF Enqueue
  <2>2. /\ InLine(queue') /\ queue'.active = queue.active /\ Waits(queue) \subseteq Waits(queue')
        /\ queue.follow \subseteq queue'.follow
    <3>1. call[2] \in Campaigns /\ InLine(queue)
      BY <1>3 DEF Inv, Lined, Around, Routes
    <3>2. CASE queue' = queue
      BY <3>1, <3>2
    <3>3. CASE queue' = Scheduled(queue, call[2], "fresh")
      BY <3>1, <3>3, ScheduledInLine
    <3> QED
      BY <2>1, <3>2, <3>3
  <2>3. Filed' /\ Placed'
    <3>1. Filed' /\ \A d \in Campaigns : Made(d)' = Made(d)
      BY <2>1, NothingSaved DEF Inv
    <3>2. pass.pc # "idle" => Made(pass.of)' = Made(pass.of)
      BY <2>1 DEF filed, Made
    <3> QED
      BY <2>1, <3>1, <3>2, PlaceKept DEF Inv, filed
  <2>4. Kept'
    BY <2>1, <2>2 DEF Inv, Lined, Kept
  <2>5. Lined'
    BY <2>1, <2>2, <2>4 DEF Inv, Lined
  <2>6. Around'
    BY <2>1 DEF Inv, Around
  <2> QED
    BY <2>3, <2>5, <2>6 DEF Inv
<1> QED
  BY <1>1, <1>2, <1>3 DEF Operator

LEMMA FilesKept ==
  ASSUME Inv, UNCHANGED filed, pass' = pass
  PROVE  Filed' /\ Placed'
<1>1. Filed' /\ \A d \in Campaigns : Made(d)' = Made(d)
  BY NothingSaved DEF Inv
<1>2. pass.pc # "idle" => Made(pass.of)' = Made(pass.of)
  BY DEF filed, Made
<1> QED
  BY <1>1, <1>2, PlaceKept DEF Inv, filed

(* A recovery that is asked for is owed, and kept.                          *)
LEMMA RecoverCampaignStep ==
  ASSUME Inv, NEW c \in Campaigns, RecoverCampaign(c)
  PROVE  Inv'
<1>1. /\ UNCHANGED filed /\ UNCHANGED <<pass, accepting, calls, link, disturbances>>
      /\ recovery' = [recovery EXCEPT !.todo = @ \ {c}] /\ InLine(queue)
  BY DEF RecoverCampaign, Inv, Lined
<1>2. Filed' /\ Placed'
  BY <1>1, FilesKept
<1>3. recovery' \in [pc : {"wanted", "list", "schedule", "done"}, todo : SUBSET Campaigns]
  BY <1>1 DEF Inv, Around
<1>4. CASE ~Recoverable(c)
  <2>1. queue' = queue /\ owed' = owed
    BY <1>4 DEF RecoverCampaign
  <2>2. Lined'
    BY <1>1, <2>1, SameLine DEF Inv
  <2> QED
    BY <1>1, <1>2, <1>3, <2>1, <2>2 DEF Inv, Around
<1>5. CASE Recoverable(c)
  <2>1. queue' = Scheduled(queue, c, "recovery") /\ owed' = IF accepting = "open" THEN owed \cup {c} ELSE owed
    BY <1>5 DEF RecoverCampaign
  <2>2. /\ InLine(queue') /\ queue'.active = queue.active
        /\ Waits(queue) \subseteq Waits(queue') /\ queue.follow \subseteq queue'.follow
        /\ accepting = "open" => c \in Waits(queue') \/ (c = queue.active /\ c \in queue'.follow)
    <3>1. PICK r : r = Scheduled(queue, c, "recovery")
      OBVIOUS
    <3>2. /\ InLine(r) /\ r.active = queue.active /\ Waits(queue) \subseteq Waits(r) /\ queue.follow \subseteq r.follow
          /\ accepting = "open" => c \in Waits(r) \/ (c = r.active /\ c \in r.follow)
      BY <1>1, <3>1, ScheduledInLine
    <3> QED
      BY <2>1, <3>1, <3>2
  <2>3. c = queue.active => pass.of = c
    <3>1. c # NoCampaign
      BY Constants
    <3>2. c = queue.active => pass.pc \in Passing
      BY <3>1 DEF Inv, Lined, Placed, Pass, Passing
    <3> QED
      BY <3>2 DEF Inv, Lined
  <2>4. Kept'
    BY <1>1, <2>1, <2>2, <2>3 DEF Inv, Lined, Kept
  <2>5. Lined'
    BY <1>1, <2>1, <2>2, <2>4 DEF Inv, Lined
  <2>6. Around'
    BY <1>1, <1>3, <2>1 DEF Inv, Around, Routes
  <2> QED
    BY <1>2, <2>5, <2>6 DEF Inv
<1> QED
  BY <1>4, <1>5

LEMMA ConnectionStep ==
  ASSUME Inv, Connect \/ Disconnect \/ ListCampaigns \/ Recovered \/ RecoveryFails
  PROVE  Inv'
<1> USE DEF linkFrame, served
<1>1. /\ UNCHANGED filed /\ UNCHANGED <<queue, accepting, owed, pass, calls>>
      /\ Disturb \/ UNCHANGED disturbances
  BY DEF Connect, Disconnect, ListCampaigns, Recovered, RecoveryFails
<1>2. Filed' /\ Placed' /\ Lined'
  BY <1>1, FilesKept, SameLine DEF Inv
<1>3. link' \in [agent : {"up", "down"}, capability : {"ready", "blocked"}]
  BY DEF Connect, Disconnect, ListCampaigns, Recovered, RecoveryFails, Inv, Around
<1>4. recovery' \in [pc : {"wanted", "list", "schedule", "done"}, todo : SUBSET Campaigns]
  BY DEF Connect, Disconnect, ListCampaigns, Recovered, RecoveryFails, Inv, Around
<1>5. disturbances' \in 0 .. MaxDisturbances
  BY <1>1, Counted DEF Inv, Around
<1>6. Around'
  BY <1>1, <1>3, <1>4, <1>5 DEF Inv, Around, Routes
<1> QED
  BY <1>2, <1>6 DEF Inv

LEMMA EmptyLine == InLine(EmptyQueue) /\ Waits(EmptyQueue) = {} /\ EmptyQueue.active = NoCampaign
<1>1. ToSet(<<>>) = {} /\ <<>> \in Seq(Campaigns)
  BY DEF ToSet
<1>2. Once(<<>>)
  BY DEF Once
<1> QED
  BY <1>1, <1>2 DEF InLine, Waits, EmptyQueue

LEMMA ProcessStep ==
  ASSUME Inv, Dispose \/ Crash
  PROVE  Inv'
<1>1. CASE Dispose
  <2>1. /\ UNCHANGED filed /\ UNCHANGED <<queue, pass, calls, link, recovery>>
        /\ accepting' = "closed" /\ owed' = {} /\ Disturb
    BY <1>1 DEF Dispose
  <2>2. Filed' /\ Placed'
    BY <2>1, FilesKept
  <2>3. Kept'
    BY <2>1 DEF Kept
  <2>4. Lined'
    BY <2>1, <2>3 DEF Inv, Lined
  <2>5. disturbances' \in 0 .. MaxDisturbances
    BY <2>1, Counted DEF Inv, Around
  <2>6. Around'
    BY <2>1, <2>5 DEF Inv, Around, Routes
  <2> QED
    BY <2>2, <2>4, <2>6 DEF Inv
<1>2. CASE Crash
  <2>1. /\ UNCHANGED filed /\ queue' = EmptyQueue /\ pass' = NoPass /\ accepting' = "open" /\ Disturb
        /\ calls' = {} /\ owed' = {} /\ link' = [agent |-> "down", capability |-> "blocked"]
        /\ recovery' = [pc |-> "wanted", todo |-> {}]
    BY <1>2 DEF Crash
  <2>2. pass' \in Pass /\ pass'.pc = "idle" /\ pass'.of = NoCampaign
    BY <2>1, NoPassTyped DEF NoPass
  <2>3. Filed' /\ Placed'
    BY <2>1, <2>2, NothingSaved, UnlockedPlaced, PassNames DEF Inv
  <2>4. Kept'
    BY <2>1 DEF Kept
  <2>5. Lined'
    BY <2>1, <2>2, <2>4, EmptyLine DEF Lined, Passing
  <2>6. disturbances' \in 0 .. MaxDisturbances
    BY <2>1, Counted DEF Inv, Around
  <2>7. Around'
    BY <2>1, <2>6 DEF Around, Routes
  <2> QED
    BY <2>3, <2>5, <2>7 DEF Inv
<1> QED
  BY <1>1, <1>2

LEMMA InitInv == Init => Inv
<1> SUFFICES ASSUME Init PROVE Inv
  OBVIOUS
<1>1. NoProduction \in Production
  BY Constants DEF NoProduction, Production, ProductionStatuses, RunStatuses
<1>2. [status |-> "none", proposals |-> <<>>, linked |-> {}] \in Campaign
  BY DEF Campaign, CampaignStatuses
<1>3. Records
  BY <1>1, <1>2 DEF Init, Records
<1>4. ASSUME NEW c \in Campaigns PROVE Numbered(c)
  <2>1. Made(c) = {} /\ Ready(c) = {}
    BY <1>4 DEF Init, Made, Ready, NoProduction
  <2>2. MadeInOrder(c)
    <3>1. 0 \in 0 .. ProposalBudget /\ 1 .. 0 = {}
      BY Constants
    <3> QED
      BY <2>1, <3>1 DEF MadeInOrder
  <2>3. MadeOnce(c)
    BY <1>4, <2>1 DEF Init, MadeOnce, NoProduction
  <2>4. Deserved(c)
    BY <1>4, <2>1 DEF Init, Deserved
  <2>5. Len(campaign[c].proposals) <= ProposalBudget /\ campaign[c].linked = {}
    BY <1>4, Constants DEF Init
  <2> QED
    BY <2>2, <2>3, <2>4, <2>5 DEF Numbered
<1>5. Placed
  BY NoPassTyped, PassNames DEF Init, Placed, PassMeans, NoPass
<1>6. Lined
  BY EmptyLine, NoPassTyped DEF Init, Lined, Kept, NoPass, Passing
<1>7. Around
  BY Constants DEF Init, Around
<1> QED
  BY <1>3, <1>4, <1>5, <1>6, <1>7 DEF Inv, Filed

LEMMA NextInv == Inv /\ [Next]_vars => Inv'
<1> SUFFICES ASSUME Inv, [Next]_vars PROVE Inv'
  OBVIOUS
<1>1. CASE UNCHANGED vars
  <2>1. Filed' /\ Placed'
    BY <1>1, FilesKept DEF vars
  <2>2. Lined'
    BY <1>1, SameLine DEF vars, served, Inv
  <2>3. Around'
    BY <1>1 DEF vars, served, Inv, Around, Routes
  <2> QED
    BY <2>1, <2>2, <2>3 DEF Inv
<1>2. CASE PassStep
  BY <1>2, TakeStep, FinishStep, GuardStep, PassKeepsInv DEF PassStep
<1>3. CASE Operator \/ Connect \/ Disconnect \/ Recovering \/ Dispose \/ Crash
  BY <1>3, OperatorStep, ConnectionStep, RecoverCampaignStep, ProcessStep DEF Recovering
<1> QED
  BY <1>1, <1>2, <1>3 DEF Next

LEMMA AlwaysInv == Spec => []Inv
BY InitInv, NextInv, PTL DEF Spec
----------------------------------------------------------------------------
(* Campaigns, productions, queues, pass and recovery keep their types, for  *)
(* any campaigns, targets, budgets and disturbances.                        *)
THEOREM CampaignTyped == Spec => []TypeOK
<1>1. Inv => TypeOK
  <2> SUFFICES ASSUME Inv PROVE TypeOK
    OBVIOUS
  <2>1. queue \in Queue
    <3>1. queue.scheduled \subseteq Campaigns
      BY ToSetType DEF Inv, Lined, InLine, Waits
    <3> QED
      BY <3>1 DEF Inv, Lined, InLine, Queue
  <2>2. \A c \in Campaigns : Len(campaign[c].proposals) <= ProposalBudget
    BY DEF Inv, Filed, Numbered
  <2> QED
    BY <2>1, <2>2 DEF TypeOK, Inv, Filed, Records, Placed, Around, Routes
<1> QED
  BY <1>1, AlwaysInv, PTL

(* A complete campaign has the prototypes it was asked for and lists all    *)
(* its productions, however its passes were interrupted.                    *)
THEOREM CompletionTrue == Spec => []CompleteTruthful
<1>1. Inv => CompleteTruthful
  BY DEF Inv, Filed, Numbered, Deserved, CompleteTruthful
<1> QED
  BY <1>1, AlwaysInv, PTL

LEMMA BothQueues ==
  ASSUME NEW q, InLine(q)
  PROVE  /\ ToSet(q.fresh \o q.recovery) = Waits(q)
         /\ Once(q.fresh \o q.recovery)
<1> DEFINE s == q.fresh
           t == q.recovery
           m == Len(s)
           n == Len(t)
<1>0. s \in Seq(Campaigns) /\ t \in Seq(Campaigns) /\ Once(s) /\ Once(t) /\ ToSet(s) \cap ToSet(t) = {}
  BY DEF InLine
<1> HIDE DEF s, t
<1>1. m \in Nat /\ n \in Nat /\ DOMAIN s = 1 .. m /\ DOMAIN t = 1 .. n
  BY <1>0
<1>2. DOMAIN (s \o t) = 1 .. m + n
  BY <1>0
<1>3. \A i \in 1 .. m : (s \o t)[i] = s[i] /\ s[i] \in ToSet(s)
  BY <1>0 DEF ToSet
<1>4. \A i \in m + 1 .. m + n : (s \o t)[i] = t[i - m] /\ i - m \in 1 .. n /\ t[i - m] \in ToSet(t)
  <2> TAKE i \in m + 1 .. m + n
  <2>1. i - m \in 1 .. n /\ i \in 1 .. m + n /\ ~(i <= m)
    BY <1>1
  <2>2. (s \o t)[i] = t[i - m]
    BY <1>0, <2>1
  <2> QED
    BY <1>1, <2>1, <2>2 DEF ToSet
<1>5. \A i \in 1 .. m + n : i \in 1 .. m \/ i \in m + 1 .. m + n
  BY <1>1
<1> DEFINE u == s \o t
<1> HIDE DEF u, m, n
<1>6. Once(u)
  <2> SUFFICES ASSUME NEW i \in DOMAIN u, NEW j \in DOMAIN u, u[i] = u[j] PROVE i = j
    BY DEF Once
  <2>0. i \in 1 .. m + n /\ j \in 1 .. m + n
    BY <1>2 DEF u
  <2>1. CASE i \in 1 .. m /\ j \in 1 .. m
    BY <1>0, <1>1, <1>3, <2>1 DEF u, Once
  <2>2. CASE i \in m + 1 .. m + n /\ j \in m + 1 .. m + n
    <3>1. i - m = j - m
      BY <1>0, <1>1, <1>4, <2>2 DEF u, Once
    <3> QED
      BY <1>1, <2>2, <3>1
  <2>3. CASE i \in 1 .. m /\ j \in m + 1 .. m + n
    BY <1>0, <1>3, <1>4, <2>3 DEF u
  <2>4. CASE j \in 1 .. m /\ i \in m + 1 .. m + n
    BY <1>0, <1>3, <1>4, <2>4 DEF u
  <2> QED
    BY <1>5, <2>0, <2>1, <2>2, <2>3, <2>4
<1>7. ToSet(u) = ToSet(s) \cup ToSet(t)
  <2>1. ASSUME NEW x \in ToSet(u) PROVE x \in ToSet(s) \cup ToSet(t)
    <3>1. PICK i \in 1 .. m + n : x = u[i]
      BY <1>2 DEF ToSet, u
    <3> QED
      BY <1>3, <1>4, <1>5, <3>1 DEF u
  <2>2. ASSUME NEW i \in 1 .. m PROVE s[i] \in ToSet(u)
    <3>1. i \in 1 .. m + n /\ u[i] = s[i]
      BY <1>1, <1>3 DEF u
    <3> QED
      BY <1>2, <3>1 DEF ToSet, u
  <2>3. ASSUME NEW i \in 1 .. n PROVE t[i] \in ToSet(u)
    <3>1. i + m \in m + 1 .. m + n /\ i + m \in 1 .. m + n /\ (i + m) - m = i
      BY <1>1
    <3>2. u[i + m] = t[i]
      BY <1>4, <3>1 DEF u
    <3> QED
      BY <1>2, <3>1, <3>2 DEF ToSet, u
  <2> QED
    BY <1>1, <2>1, <2>2, <2>3 DEF ToSet
<1> QED
  BY <1>6, <1>7 DEF u, s, t, Waits

(* A campaign is at most once in the queues or in the pass, and what counts *)
(* as scheduled is there, whatever is enqueued, recovered or repeated.      *)
THEOREM QueuedOnce == Spec => []ScheduledIsQueued
<1>1. Inv => ScheduledIsQueued
  BY BothQueues DEF Inv, Lined, InLine, Once, ScheduledIsQueued
<1> QED
  BY <1>1, AlwaysInv, PTL

(* A recovery that was asked for survives the pass it meets: the campaign   *)
(* waits, is about to be read, or is queued again.                          *)
THEOREM RecoverySurvives == Spec => []RecoveryKept
<1>1. Inv => RecoveryKept
  BY BothQueues DEF Inv, Lined, Kept, RecoveryKept
<1> QED
  BY <1>1, AlwaysInv, PTL

(* Once disposed of, the service takes nothing into its queues any more.    *)
THEOREM DisposedDrains == Spec => DisposeDrains
<1>1. ASSUME Inv, [Next]_vars, accepting = "closed", accepting' = "closed"
      PROVE  queue'.scheduled \subseteq queue.scheduled
  <2>0. \A c, source : Scheduled(queue, c, source) = queue
    BY <1>1 DEF Scheduled
  <2>1. CASE queue' = queue
    BY <2>1
  <2>2. CASE Take
    <3>1. PICK c, f, g : queue' = [queue EXCEPT !.active = c, !.fresh = f, !.recovery = g]
      BY <2>2 DEF Take
    <3>2. queue = [fresh |-> queue.fresh, recovery |-> queue.recovery, scheduled |-> queue.scheduled,
                   failed |-> queue.failed, follow |-> queue.follow, active |-> queue.active]
      BY <1>1 DEF Inv, Lined, InLine
    <3>3. queue' = [fresh |-> f, recovery |-> g, scheduled |-> queue.scheduled,
                    failed |-> queue.failed, follow |-> queue.follow, active |-> c]
      BY <3>1, <3>2
    <3> QED
      BY <3>3
  <2>3. CASE PassEnded \/ PassFailed
    <3>1. PICK f : queue' = [queue EXCEPT !.active = NoCampaign, !.scheduled = @ \ {pass.of},
                               !.follow = @ \ {pass.of}, !.failed = f]
      BY <2>3 DEF PassEnded, PassFailed, Finish
    <3> QED
      BY <1>1, <3>1 DEF Inv, Lined, InLine
  <2>4. CASE Guard \/ (\E call \in calls : Enqueue(call)) \/ \E c \in Campaigns : RecoverCampaign(c)
    BY <2>0, <2>4 DEF Guard, Enqueue, RecoverCampaign
  <2>5. CASE Begin \/ Scan \/ OutOfSteps \/ Generate \/ RecordProposal \/ LinkProduction \/ Driving
    BY <1>1, <2>5, WithinPass DEF Inv
  <2>6. CASE \/ \E c \in Campaigns :
                  CreateCampaign(c) \/ CancelCampaign(c) \/ \E o \in Ordinals : RequestRetry(c, o)
             \/ Connect \/ Disconnect \/ ListCampaigns \/ Recovered \/ RecoveryFails
             \/ Dispose \/ UNCHANGED vars
    BY <2>6 DEF CreateCampaign, CancelCampaign, RequestRetry, Connect, Disconnect, ListCampaigns,
                Recovered, RecoveryFails, Dispose, vars, operatorFrame, linkFrame, served
  <2>7. CASE Crash
    BY <1>1, <2>7 DEF Crash
  <2> QED
    BY <1>1, <2>2, <2>3, <2>4, <2>5, <2>6, <2>7 DEF Next, PassStep, Operator, Recovering
<1> QED
  BY <1>1, AlwaysInv, PTL DEF Spec, DisposeDrains
----------------------------------------------------------------------------
(* The contract sees the status of each campaign, the proposal each         *)
(* production was started for and the prototypes that are ready.            *)
Statuses == [c \in Campaigns |-> campaign[c].status]
Started == [c \in Campaigns |-> [o \in Ordinals |-> production[c][o].proposal]]
Delivered == [c \in Campaigns |-> Ready(c)]

StartedFor(c, o, p) == [Started EXCEPT ![c][o] = p]
DeliveredToo(c, o) == [Delivered EXCEPT ![c] = @ \cup {o}]

Unseen == Statuses' = Statuses /\ Started' = Started /\ Delivered' = Delivered

Seen == Contract!Next \/ Unseen

LEMMA CampaignSeen ==
  ASSUME Records, NEW c \in Campaigns, NEW x \in Campaign,
         campaign' = [campaign EXCEPT ![c] = x], production' = production
  PROVE  /\ Statuses' = [Statuses EXCEPT ![c] = x.status]
         /\ Started' = Started /\ Delivered' = Delivered
         /\ x.status = campaign[c].status => Unseen
<1>1. campaign'[c] = x /\ \A d \in Campaigns : d # c => campaign'[d] = campaign[d]
  BY DEF Records
<1>2. Statuses' = [Statuses EXCEPT ![c] = x.status]
  <2>1. \A d \in Campaigns : campaign'[d].status = IF d = c THEN x.status ELSE campaign[d].status
    BY <1>1
  <2>2. Statuses' = [d \in Campaigns |-> IF d = c THEN x.status ELSE campaign[d].status]
    BY <2>1 DEF Statuses
  <2> QED
    BY <2>2 DEF Statuses
<1>3. Started' = Started
  BY DEF Started
<1>4. Delivered' = Delivered
  BY DEF Delivered, Ready, Made
<1>5. x.status = campaign[c].status => Statuses' = Statuses
  BY <1>1 DEF Statuses
<1> QED
  BY <1>2, <1>3, <1>4, <1>5 DEF Unseen

LEMMA ItemSeen ==
  ASSUME Records, NEW c \in Campaigns, NEW o \in Ordinals, NEW x \in Production,
         production' = [production EXCEPT ![c][o] = x], campaign' = campaign
  PROVE  /\ Statuses' = Statuses
         /\ Started' = StartedFor(c, o, x.proposal)
         /\ x.proposal = production[c][o].proposal => Started' = Started
         /\ x.status # "ready" /\ production[c][o].status # "ready" => Delivered' = Delivered
         /\ x.status = "ready" => Delivered' = DeliveredToo(c, o)
         /\ x.proposal = production[c][o].proposal /\ (x.status = "ready" <=> production[c][o].status = "ready")
              => Unseen
<1>1. /\ production'[c][o] = x
      /\ \A d \in Campaigns : d # c => production'[d] = production[d]
      /\ \A p \in Ordinals : p # o => production'[c][p] = production[c][p]
  BY DEF Records
<1>2. Statuses' = Statuses
  BY DEF Statuses
<1>3. \A d \in Campaigns : d # c => Ready(d)' = Ready(d)
  BY <1>1 DEF Ready, Made
<1>4. Ready(c)' = IF x.status = "ready" THEN Ready(c) \cup {o} ELSE Ready(c) \ {o}
  <2>1. Ready(c)' = {p \in Ordinals : production'[c][p].status = "ready"}
    BY DEF Ready, Made
  <2>2. Ready(c) = {p \in Ordinals : production[c][p].status = "ready"}
    BY DEF Ready, Made
  <2>3. CASE x.status = "ready"
    BY <1>1, <2>1, <2>2, <2>3
  <2>4. CASE x.status # "ready"
    BY <1>1, <2>1, <2>2, <2>4
  <2> QED
    BY <2>3, <2>4
<1>5. x.status = "ready" => Delivered' = DeliveredToo(c, o)
  BY <1>3, <1>4 DEF Delivered, DeliveredToo
<1>6. Started' = StartedFor(c, o, x.proposal)
  <2>1. \A d \in Campaigns, p \in Ordinals :
          production'[d][p].proposal = IF d = c /\ p = o THEN x.proposal ELSE production[d][p].proposal
    BY <1>1
  <2>2. Started' = [d \in Campaigns |-> [p \in Ordinals |->
                      IF d = c /\ p = o THEN x.proposal ELSE production[d][p].proposal]]
    BY <2>1 DEF Started
  <2>3. [Started EXCEPT ![c][o] = x.proposal]
          = [d \in Campaigns |-> IF d = c THEN [Started[c] EXCEPT ![o] = x.proposal] ELSE Started[d]]
    BY DEF Started
  <2>4. [Started[c] EXCEPT ![o] = x.proposal]
          = [p \in Ordinals |-> IF p = o THEN x.proposal ELSE production[c][p].proposal]
    BY DEF Started
  <2>5. \A d \in Campaigns : d # c => Started[d] = [p \in Ordinals |-> production[d][p].proposal]
    BY DEF Started
  <2>6. \A d \in Campaigns :
          [p \in Ordinals |-> IF d = c /\ p = o THEN x.proposal ELSE production[d][p].proposal]
          = IF d = c THEN [Started[c] EXCEPT ![o] = x.proposal] ELSE Started[d]
    <3> TAKE d \in Campaigns
    <3>1. CASE d = c
      <4>1. [p \in Ordinals |-> IF d = c /\ p = o THEN x.proposal ELSE production[d][p].proposal]
            = [p \in Ordinals |-> IF p = o THEN x.proposal ELSE production[c][p].proposal]
        BY <3>1
      <4> QED
        BY <2>4, <3>1, <4>1
    <3>2. CASE d # c
      <4>1. [p \in Ordinals |-> IF d = c /\ p = o THEN x.proposal ELSE production[d][p].proposal]
            = [p \in Ordinals |-> production[d][p].proposal]
        BY <3>2
      <4> QED
        BY <2>5, <3>2, <4>1
    <3> QED
      BY <3>1, <3>2
  <2> QED
    BY <2>2, <2>3, <2>6 DEF StartedFor
<1>7. ASSUME x.proposal = production[c][o].proposal PROVE Started' = Started
  BY <1>1, <1>7 DEF Started
<1>8. ASSUME x.status = "ready" <=> production[c][o].status = "ready" PROVE Delivered' = Delivered
  <2>1. Ready(c)' = Ready(c)
    BY <1>1, <1>8 DEF Ready, Made
  <2> QED
    BY <1>3, <2>1 DEF Delivered
<1> QED
  BY <1>2, <1>5, <1>6, <1>7, <1>8 DEF Unseen

LEMMA Moves ==
  ASSUME NEW c \in Campaigns, NEW to, Statuses' = [Statuses EXCEPT ![c] = to],
         Started' = Started, Delivered' = Delivered
  PROVE  Contract!Move(c, to)
BY DEF Contract!Move, Statuses, Started, Delivered

LEMMA IsOpen ==
  ASSUME NEW c \in Campaigns
  PROVE  Contract!Open(c) <=> campaign[c].status \in Unfinished
BY DEF Contract!Open, Unfinished

(* A step of the driver is not seen, but for the production it begins and   *)
(* the prototype it delivers.                                               *)
LEMMA ItemUnseen ==
  ASSUME Filed, Placed, pass.pc \in Producing, NEW x \in Production, SaveItem(x), campaign' = campaign,
         x.proposal = Item.proposal, x.status # "ready"
  PROVE  Unseen
<1>1. PICK c \in Campaigns, o \in Ordinals : c = pass.of /\ o = pass.item
  BY InProduction
<1>2. /\ production' = [production EXCEPT ![c][o] = x] /\ Records
      /\ x.proposal = production[c][o].proposal
  BY <1>1 DEF SaveItem, Item, Filed
<1>3. production[c][o].status # "ready"
  BY <1>1, InProduction, PassNames DEF Item, Writing
<1> QED
  BY <1>2, <1>3, ItemSeen

LEMMA UnchangedUnseen ==
  ASSUME UNCHANGED filed
  PROVE  Unseen
BY DEF filed, Unseen, Statuses, Started, Delivered, Ready, Made

LEMMA DriverSeen ==
  ASSUME Inv, Driving
  PROVE  Seen
<1>0. Filed /\ Placed
  BY DEF Inv
<1>1. CASE CreateRun
  <2> DEFINE x == [Item EXCEPT !.run = IF @ = "none" THEN "READY" ELSE @]
  <2>1. pass.pc \in Producing /\ pass.pc \in Making /\ SaveItem(x) /\ campaign' = campaign
    BY <1>1 DEF CreateRun, Producing, Making
  <2>2. Item \in Production /\ Item.status = "none"
    BY <1>0, <2>1, InProduction
  <2>3. x \in Production /\ x.proposal = Item.proposal /\ x.status = "none"
    BY <2>2 DEF Production, RunStatuses
  <2> HIDE DEF x
  <2> QED
    BY <1>0, <2>1, <2>2, <2>3, ItemUnseen DEF Seen
<1>2. CASE Provision
  <2>1. PICK c \in Campaigns, o \in Ordinals : c = pass.of /\ o = pass.item
    BY <1>0, <1>2, InProduction DEF Provision, Producing
  <2>2. /\ pass.pc \in Making /\ pass.pc \in Producing /\ campaign' = campaign
        /\ Records /\ Numbered(c) /\ campaign[c].status \in Unfinished
        /\ production[c][o] \in Production /\ production[c][o].status = "none"
        /\ o \notin Made(c) /\ Waiting(c) # {}
    BY <1>0, <1>2, <2>1, InProduction DEF Provision, Producing, Making, Filed, Item, Placed, PassMeans
  <2>3. PICK p : p = First(Waiting(c))
    OBVIOUS
  <2>4. p \in Ordinals /\ \A q \in Made(c) : production[c][q].proposal # p
    <3>1. campaign[c].proposals \in Seq({"accepted", "rejected"}) /\ Len(campaign[c].proposals) <= ProposalBudget
      BY <2>2, MadeTyped DEF Campaign, Numbered
    <3>2. DOMAIN campaign[c].proposals \subseteq Nat /\ DOMAIN campaign[c].proposals \subseteq Ordinals
      BY <3>1, Constants DEF Ordinals
    <3>3. Waiting(c) \in SUBSET Nat
      BY <2>2, <3>2, MadeTyped
    <3>4. p \in Waiting(c)
      BY <2>2, <2>3, <3>3, FirstIn
    <3> QED
      BY <3>2, <3>4 DEF Waiting
  <2> DEFINE x == [Item EXCEPT !.status = "queued", !.proposal = First(Waiting(pass.of))]
  <2>5. x \in Production /\ x.status = "queued" /\ x.proposal = p
    <3>1. p \in 0 .. ProposalBudget
      BY <2>4, Constants DEF Ordinals
    <3> QED
      BY <2>1, <2>2, <2>3, <3>1 DEF Production, ProductionStatuses, Item
  <2>6. production' = [production EXCEPT ![c][o] = x]
    BY <1>2, <2>1 DEF Provision, SaveItem
  <2> HIDE DEF x
  <2>7. /\ Statuses' = Statuses /\ Started' = StartedFor(c, o, p)
        /\ Delivered' = Delivered
    <3>1. Records /\ x \in Production /\ campaign' = campaign /\ production' = [production EXCEPT ![c][o] = x]
      BY <2>2, <2>5, <2>6
    <3>2. /\ Statuses' = Statuses /\ Started' = StartedFor(c, o, x.proposal)
          /\ x.status # "ready" /\ production[c][o].status # "ready" => Delivered' = Delivered
      BY <2>1, <3>1, ItemSeen
    <3> QED
      BY <2>2, <2>5, <3>2
  <2>9. /\ Started[c][o] = 0 /\ \A other \in Ordinals : Started[c][other] # p
    <3>1. \A q \in Ordinals : q \notin Made(c) => production[c][q].proposal = 0
      BY <2>2 DEF Numbered, MadeOnce
    <3>2. p # 0
      BY <2>4, Constants DEF Ordinals
    <3> QED
      BY <2>2, <2>4, <3>1, <3>2 DEF Started
  <2>10. Contract!Open(c)
    BY <2>2, IsOpen
  <2>11. Contract!Start(c)
    BY <2>4, <2>7, <2>9, <2>10 DEF Contract!Start, Statuses, Started, Delivered, StartedFor
  <2> QED
    BY <2>11 DEF Seen, Contract!Next
<1>3. CASE Allocate \/ AllocateFails
  <2>1. pass.pc \in Producing /\ pass.pc \in Writing /\ campaign' = campaign
    BY <1>3 DEF Allocate, AllocateFails, Producing, Writing, Making
  <2>2. Item \in Production /\ Item.status # "none" /\ Item.status # "ready"
    BY <1>0, <2>1, InProduction
  <2>3. CASE production' = production
    BY <2>1, <2>3, UnchangedUnseen DEF filed, Seen
  <2>4. CASE \E sandbox \in {Item.sandbox, "made", "allocated"} : SaveItem([Item EXCEPT !.sandbox = sandbox])
    <3>1. PICK sandbox \in {Item.sandbox, "made", "allocated"} : SaveItem([Item EXCEPT !.sandbox = sandbox])
      BY <2>4
    <3> DEFINE x == [Item EXCEPT !.sandbox = sandbox]
    <3>2. x \in Production /\ x.proposal = Item.proposal /\ x.status = Item.status /\ SaveItem(x)
      BY <2>2, <3>1 DEF Production
    <3> HIDE DEF x
    <3> QED
      BY <1>0, <2>1, <2>2, <3>2, ItemUnseen DEF Seen
  <2> QED
    BY <1>3, <2>3, <2>4 DEF Allocate, AllocateFails
<1>4. CASE Advance \/ Supervise \/ SuperviseThrows
  <2>1. pass.pc \in Producing /\ pass.pc \in Writing /\ campaign' = campaign
    BY <1>4 DEF Advance, Supervise, SuperviseThrows, Producing, Writing, Making
  <2>2. Item \in Production /\ Item.status # "none" /\ Item.status # "ready"
    BY <1>0, <2>1, InProduction
  <2>3. CASE production' = production
    BY <2>1, <2>3, UnchangedUnseen DEF filed, Seen
  <2>4. ASSUME NEW x \in Production, x.proposal = Item.proposal, x.status \in {Item.status, "running"}, SaveItem(x)
        PROVE  Seen
    BY <1>0, <2>1, <2>2, <2>4, ItemUnseen DEF Seen
  <2>5. SaveItem([Item EXCEPT !.run = "RUNNING"]) => Seen
    <3> DEFINE x == [Item EXCEPT !.run = "RUNNING"]
    <3>1. x \in Production /\ x.proposal = Item.proposal /\ x.status = Item.status
      BY <2>2 DEF Production, RunStatuses
    <3> HIDE DEF x
    <3>2. SaveItem(x) => Seen
      BY <2>4, <3>1
    <3> QED
      BY <3>2 DEF x
  <2>6. Item.retry \in {"none", "active", "closed"} /\ {"RUNNING", "WAITING_AGENT"} \subseteq RunStatuses
    BY <2>2 DEF Production, RunStatuses, RunOutcomes
  <2>7. CASE Advance
    <3> DEFINE x == [Item EXCEPT !.run = "WAITING_AGENT", !.status = "running"]
    <3>1. \/ production' = production \/ SaveItem([Item EXCEPT !.run = "RUNNING"])
          \/ SaveItem(x)
      BY <2>7 DEF Advance
    <3>2. x \in Production /\ x.proposal = Item.proposal /\ x.status = "running"
      BY <2>2, <2>6 DEF Production, ProductionStatuses
    <3> HIDE DEF x
    <3> QED
      BY <2>3, <2>4, <2>5, <3>1, <3>2
  <2>8. CASE Supervise
    <3>1. PICK outcome \in IF Item.run \in {"WAITING_EXTERNAL", "BLOCKED_USER"} THEN {Item.run} ELSE Outcomes :
            SaveItem([Item EXCEPT !.run = outcome,
                        !.retry = IF @ = "active" /\ outcome \in {"FAILED_FINAL", "DONE"} THEN "closed" ELSE @])
      BY <2>8 DEF Supervise
    <3>2. outcome \in RunStatuses
      BY <2>2, CampaignAssumption DEF RunStatuses, Production
    <3>3. PICK retry \in {"none", "active", "closed"} :
            retry = IF Item.retry = "active" /\ outcome \in {"FAILED_FINAL", "DONE"} THEN "closed" ELSE Item.retry
      BY <2>6
    <3> DEFINE x == [Item EXCEPT !.run = outcome, !.retry = retry]
    <3>4. SaveItem(x)
      BY <2>2, <3>1, <3>3 DEF Production
    <3>5. x \in Production /\ x.proposal = Item.proposal /\ x.status = Item.status
      BY <2>2, <3>2 DEF Production
    <3> HIDE DEF x
    <3> QED
      BY <2>4, <3>4, <3>5
  <2>9. CASE SuperviseThrows
    <3>1. SaveItem([Item EXCEPT !.run = "RUNNING"])
      BY <2>9 DEF SuperviseThrows
    <3> QED
      BY <2>5, <3>1
  <2> QED
    BY <1>4, <2>7, <2>8, <2>9
<1>5. CASE Settle \/ Deploy \/ DeployFails
  <2>1. pass.pc \in Producing /\ pass.pc \in Writing /\ campaign' = campaign
    BY <1>5 DEF Settle, Deploy, DeployFails, Producing, Writing, Making
  <2>2. Item \in Production /\ Item.status # "none" /\ Item.status # "ready"
    BY <1>0, <2>1, InProduction
  <2>3. PICK status \in {"failed", "deploying", "running", "verifying"} : SaveItem([Item EXCEPT !.status = status])
    BY <1>5 DEF Settle, Deploy, DeployFails
  <2> DEFINE x == [Item EXCEPT !.status = status]
  <2>4. x \in Production /\ x.proposal = Item.proposal /\ x.status = status /\ SaveItem(x)
    BY <2>2, <2>3 DEF Production, ProductionStatuses
  <2>5. status # "none" /\ status # "ready"
    OBVIOUS
  <2> HIDE DEF x
  <2> QED
    BY <1>0, <2>1, <2>2, <2>4, <2>5, ItemUnseen DEF Seen
<1>6. CASE Materialize
  <2>1. pass.pc \in Producing /\ pass.pc \in Writing /\ campaign' = campaign
    BY <1>6 DEF Materialize, Producing, Writing, Making
  <2>2. Item \in Production /\ Item.status # "none" /\ Item.status # "ready"
    BY <1>0, <2>1, InProduction
  <2> DEFINE x == [Item EXCEPT !.candidate = "saved"]
  <2>3. x \in Production /\ x.proposal = Item.proposal /\ x.status = Item.status /\ SaveItem(x)
    BY <1>6, <2>2 DEF Production, Materialize
  <2> HIDE DEF x
  <2> QED
    BY <1>0, <2>1, <2>2, <2>3, ItemUnseen DEF Seen
<1>7. CASE SaveReady
  <2>1. pass.pc \in Producing /\ pass.pc \in Writing /\ campaign' = campaign
    BY <1>7 DEF SaveReady, Producing, Writing, Making
  <2>2. Item \in Production /\ Item.status # "none" /\ Item.status # "ready"
    BY <1>0, <2>1, InProduction
  <2>3. PICK c \in Campaigns, o \in Ordinals : c = pass.of /\ o = pass.item
    BY <1>0, <2>1, InProduction
  <2>4. Records /\ Numbered(c) /\ campaign[c].status \in Unfinished
    BY <1>0, <2>1, <2>3, InProduction DEF Filed
  <2> DEFINE x == [Item EXCEPT !.status = "ready"]
  <2>5. x \in Production /\ x.proposal = production[c][o].proposal /\ x.status = "ready"
    BY <2>2, <2>3 DEF Production, ProductionStatuses, Item
  <2>6. production' = [production EXCEPT ![c][o] = x]
    BY <1>7, <2>3 DEF SaveReady, SaveItem
  <2> HIDE DEF x
  <2>7. /\ Statuses' = Statuses /\ Started' = Started
        /\ Delivered' = DeliveredToo(c, o)
    <3>1. Records /\ x \in Production /\ campaign' = campaign /\ production' = [production EXCEPT ![c][o] = x]
      BY <2>1, <2>4, <2>5, <2>6
    <3>2. /\ Statuses' = Statuses
          /\ x.proposal = production[c][o].proposal => Started' = Started
          /\ x.status = "ready" => Delivered' = DeliveredToo(c, o)
      BY <2>3, <3>1, ItemSeen
    <3> QED
      BY <2>5, <3>2
  <2>9. o \notin Delivered[c]
    BY <2>2, <2>3 DEF Delivered, Ready, Item
  <2>10. Started[c][o] # 0
    <3>1. o \in Made(c)
      BY <2>2, <2>3 DEF Made, Item
    <3>2. production[c][o].proposal \in DOMAIN campaign[c].proposals
      BY <2>4, <3>1 DEF Numbered, MadeOnce
    <3>3. campaign[c].proposals \in Seq({"accepted", "rejected"})
      BY <2>4, MadeTyped DEF Campaign
    <3> QED
      BY <3>2, <3>3 DEF Started
  <2>11. Contract!Open(c)
    BY <2>4, IsOpen
  <2>12. Contract!Deliver(c)
    BY <2>7, <2>9, <2>10, <2>11 DEF Contract!Deliver, Statuses, Started, Delivered, DeliveredToo
  <2> QED
    BY <2>12 DEF Seen, Contract!Next
<1> QED
  BY <1>1, <1>2, <1>3, <1>4, <1>5, <1>6, <1>7 DEF Driving

LEMMA SameCardinality ==
  ASSUME NEW S
  PROVE  Contract!Cardinality(S) = Cardinality(S)
BY DEF Contract!Cardinality, Cardinality

(* A campaign that is saved makes a move of the contract, or none.          *)
LEMMA SavedSeen ==
  ASSUME Records, NEW c \in Campaigns, NEW x \in Campaign,
         campaign' = [campaign EXCEPT ![c] = x], production' = production,
         \/ x.status = campaign[c].status
         \/ /\ campaign[c].status \in Unfinished
            /\ \/ x.status \in {"producing", "blocked"}
               \/ x.status = "complete" /\ Cardinality(Ready(c)) >= Target
         \/ campaign[c].status \in Unfinished \cup {"blocked"} /\ x.status = "cancelled"
         \/ campaign[c].status = "none" /\ x.status = "generating"
  PROVE  Seen
<1>1. Contract!Move(c, x.status)
  BY CampaignSeen, Moves
<1>2. CASE x.status = campaign[c].status
  BY <1>2, CampaignSeen DEF Seen
<1>3. CASE campaign[c].status \in Unfinished /\ x.status \in {"producing", "blocked"}
  BY <1>1, <1>3, IsOpen DEF Seen, Contract!Next, Contract!Propose, Contract!Block
<1>4. CASE campaign[c].status \in Unfinished /\ x.status = "complete" /\ Cardinality(Ready(c)) >= Target
  <2>1. Contract!Complete(c)
    <3>1. [d \in Campaigns |-> Ready(d)][c] = Ready(c)
      OBVIOUS
    <3>2. Contract!Move(c, "complete") /\ Contract!Open(c)
      BY <1>1, <1>4, IsOpen
    <3> HIDE DEF Ready
    <3> QED
      BY <1>4, <3>1, <3>2, SameCardinality DEF Contract!Complete
  <2> QED
    BY <2>1 DEF Seen, Contract!Next
<1>5. CASE campaign[c].status \in Unfinished \cup {"blocked"} /\ x.status = "cancelled"
  <2>1. Contract!Cancel(c)
    BY <1>1, <1>5, IsOpen DEF Contract!Cancel, Unfinished
  <2> QED
    BY <2>1 DEF Seen, Contract!Next
<1>6. CASE campaign[c].status = "none" /\ x.status = "generating"
  <2>1. Contract!Create(c)
    BY <1>1, <1>6 DEF Contract!Create
  <2> QED
    BY <2>1 DEF Seen, Contract!Next
<1> QED
  BY <1>2, <1>3, <1>4, <1>5, <1>6

LEMMA SupervisorSeen ==
  ASSUME Inv, Begin \/ Scan \/ OutOfSteps \/ Generate \/ RecordProposal \/ LinkProduction
  PROVE  Seen
<1>1. CASE Begin \/ OutOfSteps
  BY <1>1, UnchangedUnseen DEF Begin, OutOfSteps, Seen
<1>2. CASE Scan \/ Generate \/ RecordProposal \/ LinkProduction
  <2>1. PICK c \in Campaigns : c = pass.of
    BY <1>2, PassNames DEF Scan, Generate, RecordProposal, LinkProduction, Inv, Placed, PassMeans
  <2>2. /\ production' = production /\ Records /\ campaign[c] \in Campaign /\ Numbered(c)
        /\ campaign[c].status \in Unfinished
    BY <1>2, <2>1, PassNames, MadeTyped
       DEF Scan, Generate, RecordProposal, LinkProduction, Inv, Filed, Placed, PassMeans
  <2>3. Made(c) \subseteq Ordinals /\ campaign[c].linked \subseteq Made(c)
    BY <2>2, MadeTyped DEF Numbered
  <2>4. CASE Scan
    <3> DEFINE linked == [campaign[c] EXCEPT !.linked = @ \cup Made(c)]
               x == [linked EXCEPT !.status = "complete"]
    <3>1. /\ linked \in Campaign /\ linked.status = campaign[c].status
          /\ x \in Campaign /\ x.status = "complete"
      BY <2>2, <2>3 DEF Campaign, CampaignStatuses
    <3>2. \/ Cardinality(Ready(c)) >= Target /\ campaign' = [campaign EXCEPT ![c] = x]
          \/ campaign' = [campaign EXCEPT ![c] = linked]
      BY <2>1, <2>4 DEF Scan, SaveCampaign
    <3> HIDE DEF linked, x
    <3> QED
      BY <2>2, <3>1, <3>2, SavedSeen
  <2>5. CASE Generate
    <3> DEFINE x == [campaign[c] EXCEPT !.status = "blocked"]
    <3>1. x \in Campaign /\ x.status = "blocked"
      BY <2>2 DEF Campaign, CampaignStatuses
    <3>2. campaign' = campaign \/ campaign' = [campaign EXCEPT ![c] = x]
      BY <2>1, <2>5 DEF Generate, SaveCampaign
    <3> HIDE DEF x
    <3> QED
      BY <2>2, <3>1, <3>2, SavedSeen, UnchangedUnseen DEF filed, Seen
  <2>6. CASE RecordProposal
    <3> DEFINE x == [campaign[c] EXCEPT
                       !.proposals = Append(@, pass.verdict),
                       !.status = IF pass.verdict = "accepted" THEN "producing" ELSE @]
    <3>1. Append(campaign[c].proposals, pass.verdict) \in Seq({"accepted", "rejected"})
      BY <2>2, <2>6 DEF Campaign, RecordProposal, Inv, Placed, PassMeans, Pass
    <3>2. x \in Campaign /\ x.status \in {"producing", campaign[c].status}
      BY <2>2, <3>1 DEF Campaign, CampaignStatuses
    <3>3. campaign' = [campaign EXCEPT ![c] = x]
      BY <2>1, <2>6 DEF RecordProposal, SaveCampaign
    <3> HIDE DEF x
    <3> QED
      BY <2>2, <3>2, <3>3, SavedSeen
  <2>7. CASE LinkProduction
    <3> DEFINE x == [campaign[c] EXCEPT !.status = "producing", !.linked = @ \cup {pass.item}]
    <3>1. pass.item \in Ordinals
      BY <2>7 DEF LinkProduction, Inv, Placed, PassMeans
    <3>2. x \in Campaign /\ x.status = "producing"
      BY <2>2, <3>1 DEF Campaign, CampaignStatuses
    <3>3. campaign' = [campaign EXCEPT ![c] = x]
      BY <2>1, <2>7 DEF LinkProduction, SaveCampaign
    <3> HIDE DEF x
    <3> QED
      BY <2>2, <3>2, <3>3, SavedSeen
  <2> QED
    BY <1>2, <2>4, <2>5, <2>6, <2>7
<1> QED
  BY <1>1, <1>2

LEMMA OperatorSeen ==
  ASSUME Inv, Operator
  PROVE  Seen
<1>1. ASSUME NEW c \in Campaigns, CreateCampaign(c) \/ CancelCampaign(c)
      PROVE  Seen
  <2>1. PICK status \in {"generating", "cancelled"} :
          /\ campaign' = [campaign EXCEPT ![c].status = status] /\ production' = production
          /\ status = "generating" => campaign[c].status = "none"
          /\ status = "cancelled" => campaign[c].status \in Unfinished \cup {"blocked"}
    BY <1>1 DEF CreateCampaign, CancelCampaign
  <2>2. Records /\ campaign[c] \in Campaign
    BY MadeTyped DEF Inv, Filed
  <2> DEFINE x == [campaign[c] EXCEPT !.status = status]
  <2>3. x \in Campaign /\ x.status = status /\ campaign' = [campaign EXCEPT ![c] = x]
    BY <2>1, <2>2 DEF Campaign, CampaignStatuses
  <2> HIDE DEF x
  <2> QED
    BY <2>1, <2>2, <2>3, SavedSeen
<1>2. ASSUME NEW c \in Campaigns, NEW o \in Ordinals, RequestRetry(c, o)
      PROVE  Seen
  <2>1. /\ campaign' = campaign
        /\ production' = [production EXCEPT ![c][o].run = "READY", ![c][o].retry = "active"]
    BY <1>2 DEF RequestRetry
  <2>2. Records /\ production[c][o] \in Production
    BY MadeTyped DEF Inv, Filed
  <2> DEFINE x == [production[c][o] EXCEPT !.run = "READY", !.retry = "active"]
  <2>3. x \in Production /\ x.proposal = production[c][o].proposal /\ x.status = production[c][o].status
    BY <2>2 DEF Production, RunStatuses
  <2>4. production' = [production EXCEPT ![c][o] = x]
    BY <2>1, <2>2 DEF Records
  <2> HIDE DEF x
  <2>5. x.status = "ready" <=> production[c][o].status = "ready"
    BY <2>3
  <2>6. Unseen
    BY <2>1, <2>2, <2>3, <2>4, <2>5, ItemSeen
  <2> QED
    BY <2>6 DEF Seen
<1>3. ASSUME NEW call \in calls, Enqueue(call)
      PROVE  Seen
  BY <1>3, UnchangedUnseen DEF Enqueue, Seen
<1> QED
  BY <1>1, <1>2, <1>3 DEF Operator

(* Every campaign implements its contract: one production for one proposal, *)
(* a prototype that is ready stays ready, nothing is started or delivered   *)
(* once the campaign is over, across retries, throws and restarts.          *)
THEOREM CampaignsImplementContract == Spec => ImplementsCampaign
<1>1. Init => Contract!Init
  BY DEF Init, Contract!Init, NoProduction, Ready, Made
<1>2. ASSUME Inv, [Next]_vars PROVE Seen
  <2>1. CASE \/ Take \/ PassEnded \/ PassFailed \/ Guard \/ Connect \/ Disconnect \/ Recovering
             \/ Dispose \/ Crash \/ UNCHANGED vars
    <3>1. UNCHANGED filed
      BY <2>1 DEF Take, PassEnded, PassFailed, Finish, Guard, Connect, Disconnect, Recovering, ListCampaigns,
                  Recovered, RecoveryFails, RecoverCampaign, Dispose, Crash, vars, linkFrame
    <3> QED
      BY <3>1, UnchangedUnseen DEF Seen
  <2>2. CASE Begin \/ Scan \/ OutOfSteps \/ Generate \/ RecordProposal \/ LinkProduction \/ Driving
    BY <1>2, <2>2, SupervisorSeen, DriverSeen
  <2>3. CASE Operator
    BY <1>2, <2>3, OperatorSeen
  <2> QED
    BY <1>2, <2>1, <2>2, <2>3 DEF Next, PassStep
<1>3. ASSUME Inv, [Next]_vars PROVE [Contract!Next]_<<Statuses, Started, Delivered>>
  BY <1>2, <1>3 DEF Seen, Unseen
<1> QED
  BY <1>1, <1>3, AlwaysInv, PTL DEF Spec, ImplementsCampaign, Contract!Spec, Statuses, Started, Delivered
=============================================================================
