---------------------------- MODULE PipelineProofs ---------------------------
(***************************************************************************)
(* Proofs about Pipeline, for any domains, certificates, registrations and *)
(* DomainChecks: a run fails closed, whatever its lookups answer and       *)
(* whenever its context ends, and is a run of Triage.                      *)
(***************************************************************************)
EXTENDS Pipeline, EvidenceProofs

USE PinnedAssumption, SimilarAssumption, EvidenceAssumption, PipelineAssumption

-----------------------------------------------------------------------------
(***************************************************************************)
(* The inductive invariant.  EvidenceStaysWithItsSide alone would not      *)
(* survive a probe that comes in late; Staging says there is none.         *)
(***************************************************************************)

\* What each stage finds done.
Staging ==
    /\ stage = "preflight" => \A i \in Slots : fetched[i] = {}
    /\ stage \in {"fetch", "authority"} => \A i \in Slots : probes[i] # {}
    /\ stage \in {"preflight", "fetch"} => target = {} /\ sus = {}
    /\ target # {} \/ sus # {} => \A i \in Slots : fetched[i] # {}

\* Nothing goes past the gate unless both domains are live.
PastGate ==
    \/ stage \in {"fetch", "authority"}
    \/ \E i \in Slots : fetched[i] # {}
    \/ result # {}
    => \A role \in Role : LiveAt(role)

\* A result stands on two data sets of good quality.
ResultHasData ==
    result # {} => \E t \in target, s \in sus : VerifyDataQuality(t, s) = "none"

IInv == TypeOK /\ Staging /\ PastGate /\ EvidenceStaysWithItsSide /\ ResultHasData

\* It reads the arguments, the two results tables and the two sides, nothing else.
LEMMA SidesFrame ==
    ASSUME EvidenceStaysWithItsSide,
           UNCHANGED <<legit, suspect, now, probes, fetched, target, sus>>
    PROVE  EvidenceStaysWithItsSide'
  BY DEF EvidenceStaysWithItsSide, RealSlot

LEMMA InitEstablishes == Init => IInv
<1> SUFFICES ASSUME Init PROVE IInv
  OBVIOUS
<1>1. legit \in Domain /\ suspect \in Domain
  BY DEF Init
<1>2. Slots # {}
  BY DEF Slots
<1>3. TypeOK
  BY <1>1 DEF Init, TypeOK, Option
<1> QED
  BY <1>2, <1>3 DEF Init, IInv, Staging, PastGate, EvidenceStaysWithItsSide, ResultHasData

LEMMA ExpireStep ==
    ASSUME IInv, Expire
    PROVE  IInv'
<1>1. UNCHANGED <<args, stage, doomed, probes, fetched, asking, target, sus, exit, result>>
  BY DEF Expire
<1>2. TypeOK'
  BY <1>1 DEF Expire, IInv, TypeOK, args, Slots
<1>3. Staging' /\ ResultHasData'
  BY <1>1 DEF IInv, Staging, ResultHasData, Slots, args
<1>4. PastGate'
  BY <1>1 DEF IInv, PastGate, Slots, args, LiveAt, RealSlot
<1>5. EvidenceStaysWithItsSide'
  BY <1>1, SidesFrame DEF IInv, args
<1> QED
  BY <1>2, <1>3, <1>4, <1>5 DEF IInv

\* The slots of the two roles.
LEMMA RoleSlots ==
    /\ \A role \in Role : RealSlot(role) \in Slots
    /\ \A i \in Slots : \E role \in Role : RealSlot(role) = i
    /\ SlotOf(legit) = RealSlot("target")
    /\ SlotOf(suspect) = RealSlot("suspect")
  BY DEF Role, RealSlot, Slots, SlotOf

LEMMA ProbedStep ==
    ASSUME IInv, NEW i \in {1, 2}, Probed(i)
    PROVE  IInv'
<1>1. PICK dc \in Checks : probes' = [probes EXCEPT ![i] = {dc}]
  BY DEF Probed
<1>2. /\ stage = "preflight" /\ i \in Slots /\ probes[i] = {}
      /\ UNCHANGED <<args, stage, expired, doomed, fetched, asking, target, sus, exit, result>>
  BY DEF Probed
<1>3. Slots' = Slots
  BY <1>2 DEF Slots, args
<1>4. target = {} /\ sus = {} /\ \A j \in Slots : fetched[j] = {}
  BY <1>2 DEF IInv, Staging
<1>5. result = {}
  BY <1>2 DEF IInv, TypeOK
<1>6. probes' \in [Slots -> Option(Checks)]
  BY <1>1, OptionOfOne DEF IInv, TypeOK
<1>7. TypeOK'
  BY <1>2, <1>3, <1>6 DEF IInv, TypeOK, args
<1>8. Staging' /\ PastGate' /\ EvidenceStaysWithItsSide' /\ ResultHasData'
  BY <1>2, <1>3, <1>4, <1>5 DEF Staging, PastGate, EvidenceStaysWithItsSide, ResultHasData
<1> QED
  BY <1>7, <1>8 DEF IInv

\* The gate looks up the check of a role's own slot.
LEMMA CheckOfSlot ==
    ASSUME IInv, NEW i \in Slots, probes[i] # {}
    PROVE  /\ (CHOOSE dc \in Checks : dc \in probes[i]) \in Checks
           /\ probes[i] = {CHOOSE dc \in Checks : dc \in probes[i]}
<1>1. probes[i] \in Option(Checks)
  BY DEF IInv, TypeOK
<1>2. \E dc \in Checks : dc \in probes[i]
  BY <1>1 DEF Option
<1> QED
  BY <1>1, <1>2, OptionIsSingle

LEMMA GatedStep ==
    ASSUME IInv, Gated
    PROVE  IInv'
<1>1. /\ stage = "preflight" /\ \A i \in Slots : probes[i] # {}
      /\ UNCHANGED <<args, expired, probes, fetched, asking, target, sus, result>>
  BY DEF Gated
<1>2. Slots' = Slots /\ \A role : RealSlot(role)' = RealSlot(role)
  BY <1>1 DEF Slots, RealSlot, args
<1>3. target = {} /\ sus = {} /\ \A j \in Slots : fetched[j] = {}
  BY <1>1 DEF IInv, Staging
<1>4. result = {} /\ exit = {}
  BY <1>1 DEF IInv, TypeOK
<1>5. CASE Gate(CheckOf(legit)) = "pass" /\ Gate(CheckOf(suspect)) = "pass"
  <2>1. stage' = "fetch" /\ doomed' = expired /\ exit' = exit
    BY <1>5 DEF Gated
  <2>2. CheckOf(legit).systemLive /\ CheckOf(suspect).systemLive
    BY <1>5 DEF Gate
  <2>3. probes[RealSlot("target")] = {CheckOf(legit)}
    BY <1>1, CheckOfSlot, RoleSlots DEF CheckOf, Role
  <2>4. probes[RealSlot("suspect")] = {CheckOf(suspect)}
    BY <1>1, CheckOfSlot, RoleSlots DEF CheckOf, Role
  <2>5. \A role \in Role : LiveAt(role)
    BY <2>2, <2>3, <2>4 DEF LiveAt, Role
  <2>6. PastGate'
    BY <1>1, <1>2, <2>5 DEF PastGate, LiveAt
  <2>7. TypeOK'
    BY <1>1, <1>2, <1>4, <2>1 DEF IInv, TypeOK, args
  <2>8. Staging' /\ EvidenceStaysWithItsSide' /\ ResultHasData'
    BY <1>1, <1>2, <1>3, <1>4, <2>1 DEF Staging, EvidenceStaysWithItsSide, ResultHasData
  <2> QED
    BY <2>6, <2>7, <2>8 DEF IInv
<1>6. CASE ~(Gate(CheckOf(legit)) = "pass" /\ Gate(CheckOf(suspect)) = "pass")
  <2>1. PICK d \in {legit, suspect}, role \in Role :
          /\ Gate(CheckOf(d)) # "pass"
          /\ exit' = {[why |-> Gate(CheckOf(d)), about |-> role, causes |-> {}]}
          /\ stage' = "done" /\ doomed' = doomed
    BY <1>6 DEF Gated, Role
  <2>2. Gate(CheckOf(d)) \in {"suppressed", "unresolved"}
    BY <2>1 DEF Gate
  <2>3. [why |-> Gate(CheckOf(d)), about |-> role, causes |-> {}] \in Exit
    BY <2>2 DEF Exit, Role
  <2>4. exit' \in Option(Exit)
    BY <2>1, <2>3, OptionOfOne
  <2>5. \A e \in exit' : e.why # "verdict"
    BY <2>1, <2>2
  <2>6. exit' # {}
    BY <2>1
  <2>7. TypeOK'
    BY <1>1, <1>2, <1>4, <2>1, <2>4, <2>5, <2>6 DEF IInv, TypeOK, args
  <2>8. Staging' /\ PastGate' /\ EvidenceStaysWithItsSide' /\ ResultHasData'
    BY <1>1, <1>2, <1>3, <1>4, <2>1
       DEF Staging, PastGate, EvidenceStaysWithItsSide, ResultHasData
  <2> QED
    BY <2>7, <2>8 DEF IInv
<1> QED
  BY <1>5, <1>6

LEMMA FetchedStep ==
    ASSUME IInv, NEW i \in {1, 2}, Fetched(i)
    PROVE  IInv'
<1>1. /\ stage = "fetch" /\ i \in Slots /\ fetched[i] = {}
      /\ UNCHANGED <<args, stage, expired, doomed, probes, asking, target, sus, exit, result>>
  BY DEF Fetched
<1>2. PICK a : /\ a \in (IF doomed THEN {NoAnswers} ELSE UNION {AnswersTo(dc) : dc \in probes[i]})
               /\ fetched' = [fetched EXCEPT ![i] = {a}]
  BY DEF Fetched
<1>3. a \in Answers
  BY <1>2 DEF NoAnswers, AnswersTo, Answers, Option
<1>4. Slots' = Slots /\ \A role : RealSlot(role)' = RealSlot(role)
  BY <1>1 DEF Slots, RealSlot, args
<1>5. target = {} /\ sus = {}
  BY <1>1 DEF IInv, Staging
<1>6. fetched' \in [Slots -> Option(Answers)]
  BY <1>2, <1>3, OptionOfOne DEF IInv, TypeOK
<1>7. TypeOK'
  BY <1>1, <1>4, <1>5, <1>6 DEF IInv, TypeOK, args
<1>8. Staging' /\ EvidenceStaysWithItsSide' /\ ResultHasData'
  BY <1>1, <1>4, <1>5 DEF IInv, TypeOK, Staging, EvidenceStaysWithItsSide, ResultHasData
<1>9. PastGate'
  BY <1>1, <1>4 DEF IInv, PastGate, LiveAt
<1> QED
  BY <1>7, <1>8, <1>9 DEF IInv

\* Nothing of what the sender-authority stage adds is in what a fetch leaves.
LEMMA InfoUnasked ==
    ASSUME NEW d \in Domain, NEW dc \in DomainCheck, NEW a \in Answers, now \in Clock
    PROVE  Unasked(Info(d, dc, a, now)) = Info(d, dc, a, now)
<1> DEFINE i == Info(d, dc, a, now)
<1>1. i.spfChecked = FALSE /\ i.spfAuthorized = FALSE /\ i.dmarc = {}
  BY DEF Info
<1>2. i \in DomainData
  BY InfoType
<1> HIDE DEF i
<1>3. Unasked(i) = i
  BY <1>1, <1>2 DEF Unasked, DomainData
<1> QED
  BY <1>3 DEF i

LEMMA FetchJoinedStep ==
    ASSUME IInv, FetchJoined
    PROVE  IInv'
<1>1. /\ stage = "fetch" /\ \A i \in Slots : fetched[i] # {}
      /\ target' = InfoOf(legit) /\ sus' = InfoOf(suspect)
      /\ stage' = "authority" /\ doomed' = expired /\ asking' = {"dmarc", "spf"}
      /\ UNCHANGED <<args, expired, probes, fetched, exit, result>>
  BY DEF FetchJoined
<1>2. Slots' = Slots /\ \A role : RealSlot(role)' = RealSlot(role)
  BY <1>1 DEF Slots, RealSlot, args
<1>3. ASSUME NEW d \in Domain, SlotOf(d) \in Slots
      PROVE  \E dc \in DomainCheck, a \in Answers :
                /\ InfoOf(d) = {Info(d, dc, a, now)}
                /\ probes[SlotOf(d)] = {dc} /\ fetched[SlotOf(d)] = {a}
  <2>1. probes[SlotOf(d)] = {CheckOf(d)} /\ CheckOf(d) \in DomainCheck
    BY <1>1, <1>3, CheckOfSlot DEF CheckOf, IInv, Staging
  <2>2. PICK a : a \in fetched[SlotOf(d)]
    BY <1>1, <1>3
  <2>3. fetched[SlotOf(d)] = {a} /\ a \in Answers
    BY <1>3, <2>2, OptionIsSingle DEF IInv, TypeOK
  <2> QED
    BY <2>1, <2>3 DEF InfoOf
<1>4. PICK dcT \in DomainCheck, aT \in Answers :
         /\ target' = {Info(legit, dcT, aT, now)}
         /\ probes[1] = {dcT} /\ fetched[1] = {aT}
  BY <1>1, <1>3, RoleSlots DEF RealSlot, Role, IInv, TypeOK
<1>5. PICK dcS \in DomainCheck, aS \in Answers :
         /\ sus' = {Info(suspect, dcS, aS, now)}
         /\ probes[RealSlot("suspect")] = {dcS} /\ fetched[RealSlot("suspect")] = {aS}
  BY <1>1, <1>3, RoleSlots DEF Role, IInv, TypeOK
<1>6. target' \in Option(DomainData) /\ sus' \in Option(DomainData)
  BY <1>4, <1>5, InfoType, OptionOfOne DEF IInv, TypeOK
<1>7. TypeOK'
  BY <1>1, <1>2, <1>4, <1>5, <1>6 DEF IInv, TypeOK, args
<1>8. Staging' /\ ResultHasData'
  BY <1>1, <1>2 DEF IInv, TypeOK, Staging, ResultHasData
<1>9. PastGate'
  BY <1>1, <1>2 DEF IInv, PastGate, LiveAt
<1>10. EvidenceStaysWithItsSide'
  <2>1. UNCHANGED <<legit, suspect, now, probes, fetched>>
    BY <1>1 DEF args
  <2>2. \A t \in target', dc \in probes[1], a \in fetched[1] : Unasked(t) = Info(legit, dc, a, now)
    BY <1>4, InfoUnasked DEF IInv, TypeOK
  <2>3. \A s \in sus', dc \in probes[RealSlot("suspect")], a \in fetched[RealSlot("suspect")] :
           Unasked(s) = Info(suspect, dc, a, now)
    BY <1>5, InfoUnasked DEF IInv, TypeOK
  <2> QED
    BY <1>2, <2>1, <2>2, <2>3 DEF EvidenceStaysWithItsSide, RealSlot
<1> QED
  BY <1>7, <1>8, <1>9, <1>10 DEF IInv

LEMMA AskedDMARCStep ==
    ASSUME IInv, AskedDMARC
    PROVE  IInv'
<1>1. /\ stage = "authority" /\ asking' = asking \ {"dmarc"}
      /\ UNCHANGED <<args, stage, expired, doomed, probes, fetched, sus, exit, result>>
  BY DEF AskedDMARC
<1>2. PICK policy \in Option(Policy) : target' = {[t EXCEPT !.dmarc = policy] : t \in target}
  BY DEF AskedDMARC, Option
<1>3. Slots' = Slots /\ \A role : RealSlot(role)' = RealSlot(role)
  BY <1>1 DEF Slots, RealSlot, args
<1>4. PICK t \in target : target = {t} /\ t \in DomainData
  BY <1>1, OptionIsSingle DEF IInv, TypeOK
<1> DEFINE new == [t EXCEPT !.dmarc = policy]
<1>5. new \in DomainData /\ Unasked(new) = Unasked(t)
  BY <1>4 DEF DomainData, Unasked
<1>6. target' = {new}
  BY <1>2, <1>4
<1> HIDE DEF new
<1>7. target' \in Option(DomainData)
  BY <1>5, <1>6, OptionOfOne
<1>8. TypeOK'
  BY <1>1, <1>3, <1>4, <1>6, <1>7 DEF IInv, TypeOK, args
<1>9. Staging' /\ ResultHasData'
  BY <1>1, <1>3, <1>4, <1>6 DEF IInv, TypeOK, Staging, ResultHasData
<1>10. PastGate'
  BY <1>1, <1>3 DEF IInv, PastGate, LiveAt
<1>11. EvidenceStaysWithItsSide'
  BY <1>1, <1>4, <1>5, <1>6 DEF IInv, EvidenceStaysWithItsSide, RealSlot, args
<1> QED
  BY <1>8, <1>9, <1>10, <1>11 DEF IInv

LEMMA AskedSPFStep ==
    ASSUME IInv, AskedSPF
    PROVE  IInv'
<1>1. /\ stage = "authority" /\ asking' = asking \ {"spf"}
      /\ UNCHANGED <<args, stage, expired, doomed, probes, fetched, target, exit, result>>
  BY DEF AskedSPF
<1>2. PICK checked \in BOOLEAN, authorized \in BOOLEAN :
         sus' = {[s EXCEPT !.spfChecked = checked, !.spfAuthorized = authorized] : s \in sus}
  BY DEF AskedSPF
<1>3. Slots' = Slots /\ \A role : RealSlot(role)' = RealSlot(role)
  BY <1>1 DEF Slots, RealSlot, args
<1>4. PICK s \in sus : sus = {s} /\ s \in DomainData
  BY <1>1, OptionIsSingle DEF IInv, TypeOK
<1> DEFINE new == [s EXCEPT !.spfChecked = checked, !.spfAuthorized = authorized]
<1>5. new \in DomainData /\ Unasked(new) = Unasked(s)
  BY <1>4 DEF DomainData, Unasked
<1>6. sus' = {new}
  BY <1>2, <1>4
<1> HIDE DEF new
<1>7. sus' \in Option(DomainData)
  BY <1>5, <1>6, OptionOfOne
<1>8. TypeOK'
  BY <1>1, <1>3, <1>4, <1>6, <1>7 DEF IInv, TypeOK, args
<1>9. Staging' /\ ResultHasData'
  BY <1>1, <1>3, <1>4, <1>6 DEF IInv, TypeOK, Staging, ResultHasData
<1>10. PastGate'
  BY <1>1, <1>3 DEF IInv, PastGate, LiveAt
<1>11. EvidenceStaysWithItsSide'
  BY <1>1, <1>4, <1>5, <1>6 DEF IInv, EvidenceStaysWithItsSide, RealSlot, args
<1> QED
  BY <1>8, <1>9, <1>10, <1>11 DEF IInv

\* The quality gate refuses with one of its four complaints, or lets Score
\* speak about data of good quality.
LEMMA ConcludedStep ==
    ASSUME IInv, Concluded
    PROVE  IInv'
<1>1. /\ stage = "authority" /\ stage' = "done"
      /\ UNCHANGED <<args, expired, doomed, probes, fetched, asking, target, sus>>
  BY DEF Concluded
<1>2. PICK t \in target, s \in sus :
         IF VerifyDataQuality(t, s) # "none"
         THEN /\ exit' = {[why |-> "quality", about |-> VerifyDataQuality(t, s), causes |-> Causes]}
              /\ result' = result
         ELSE /\ exit' = {[why |-> "verdict", about |-> "pair", causes |-> {}]}
              /\ result' = {Score(t, s)}
  BY DEF Concluded
<1>3. Slots' = Slots /\ \A role : RealSlot(role)' = RealSlot(role)
  BY <1>1 DEF Slots, RealSlot, args
<1>4. exit = {} /\ result = {}
  BY <1>1 DEF IInv, TypeOK
<1>5. Causes \subseteq {"target RDAP", "target TLS", "suspect RDAP", "suspect TLS"}
  BY DEF Causes
<1>6. \A role \in Role : LiveAt(role)
  BY <1>1 DEF IInv, PastGate
<1>7. Staging' /\ EvidenceStaysWithItsSide'
  <2>1. Staging'
    BY <1>1, <1>3 DEF IInv, TypeOK, Staging
  <2>2. EvidenceStaysWithItsSide'
    BY <1>1, SidesFrame DEF IInv, args
  <2> QED
    BY <2>1, <2>2
<1>8. PastGate'
  BY <1>1, <1>3, <1>6 DEF PastGate, LiveAt
<1>9. CASE VerifyDataQuality(t, s) # "none"
  <2>1. VerifyDataQuality(t, s) \in {"target date", "suspect date", "target certificate", "suspect certificate"}
    BY <1>9 DEF VerifyDataQuality
  <2>2. [why |-> "quality", about |-> VerifyDataQuality(t, s), causes |-> Causes] \in Exit
    BY <1>5, <2>1 DEF Exit
  <2>3. exit' \in Option(Exit) /\ exit' # {} /\ \A e \in exit' : e.why # "verdict"
    BY <1>2, <1>9, <2>2, OptionOfOne
  <2>4. result' = {}
    BY <1>2, <1>4, <1>9
  <2>5. TypeOK'
    BY <1>1, <1>3, <2>3, <2>4 DEF IInv, TypeOK, args
  <2> QED
    BY <1>7, <1>8, <2>4, <2>5 DEF IInv, ResultHasData
<1>10. CASE VerifyDataQuality(t, s) = "none"
  <2>1. [why |-> "verdict", about |-> "pair", causes |-> {}] \in Exit
    BY DEF Exit
  <2>2. exit' \in Option(Exit) /\ exit' # {} /\ \E e \in exit' : e.why = "verdict"
    <3>1. exit' = {[why |-> "verdict", about |-> "pair", causes |-> {}]}
      BY <1>2, <1>10
    <3>2. {[why |-> "verdict", about |-> "pair", causes |-> {}]} \in Option(Exit)
      BY <2>1, OptionOfOne
    <3> QED
      BY <3>1, <3>2
  <2>3. result' # {}
    BY <1>2, <1>10
  <2>4. TypeOK'
    BY <1>1, <1>3, <2>2, <2>3 DEF IInv, TypeOK, args
  <2>5. ResultHasData'
    BY <1>1, <1>2, <1>10 DEF ResultHasData
  <2> QED
    BY <1>7, <1>8, <2>4, <2>5 DEF IInv
<1> QED
  BY <1>9, <1>10

LEMMA StutterStep ==
    ASSUME IInv, UNCHANGED vars
    PROVE  IInv'
<1>1. /\ UNCHANGED <<legit, suspect, now, stage, expired, doomed, probes, fetched, asking, target, sus, exit, result>>
      /\ Slots' = Slots /\ \A role : RealSlot(role)' = RealSlot(role)
  BY DEF vars, args, Slots, RealSlot
<1>2. TypeOK' /\ Staging' /\ ResultHasData'
  BY <1>1 DEF IInv, TypeOK, Staging, ResultHasData
<1>3. PastGate'
  BY <1>1 DEF IInv, PastGate, LiveAt
<1>4. EvidenceStaysWithItsSide'
  BY <1>1, SidesFrame DEF IInv
<1> QED
  BY <1>2, <1>3, <1>4 DEF IInv

LEMMA StepPreserves == IInv /\ [Next]_vars => IInv'
  BY ExpireStep, ProbedStep, GatedStep, FetchedStep, FetchJoinedStep, AskedDMARCStep,
     AskedSPFStep, ConcludedStep, StutterStep DEF Next, Exited

-----------------------------------------------------------------------------
(* What the invariant gives.                                               *)

\* An answer in a slot means that the gate is behind.
LEMMA GateFollows == IInv => NothingContactedBeforeGate
  BY DEF IInv, PastGate, NothingContactedBeforeGate

LEMMA FailClosedFollows == IInv => FailClosed
<1> SUFFICES ASSUME IInv, result # {}
             PROVE  \A role \in Role : LiveAt(role) /\ DatedAt(role) /\ CertifiedAt(role)
  BY DEF FailClosed
<1>1. \A role \in Role : LiveAt(role)
  BY DEF IInv, PastGate
<1>2. PICK t \in target, s \in sus : VerifyDataQuality(t, s) = "none"
  BY DEF IInv, ResultHasData
<1>3. /\ ~Undated(t) /\ ~Undated(s) /\ ~Uncertified(t) /\ ~Uncertified(s)
      /\ t \in DomainData /\ s \in DomainData
  BY <1>2, OptionIsSingle DEF VerifyDataQuality, IInv, TypeOK
<1>4. \A role \in Role : \E dc \in probes[RealSlot(role)], a \in fetched[RealSlot(role)] : TRUE
  BY <1>1, <1>2, RoleSlots DEF LiveAt, IInv, Staging
<1>5. DatedAt("target") /\ CertifiedAt("target")
  <2>1. PICK dc \in probes[1], a \in fetched[1] : Unasked(t) = Info(legit, dc, a, now)
    BY <1>2, <1>4 DEF Role, RealSlot, IInv, EvidenceStaysWithItsSide
  <2>2. /\ Info(legit, dc, a, now).age = t.age /\ Info(legit, dc, a, now).issuer = t.issuer
        /\ Info(legit, dc, a, now).class = t.class
    BY <1>3, <2>1 DEF DomainData, Unasked
  <2>3. ~Undated(Info(legit, dc, a, now)) /\ ~Uncertified(Info(legit, dc, a, now))
    BY <1>3, <2>2 DEF Undated, Uncertified
  <2> QED
    BY <2>1, <2>3, InfoIsReal DEF DatedAt, CertifiedAt, RealSlot
<1>6. DatedAt("suspect") /\ CertifiedAt("suspect")
  <2>1. PICK dc \in probes[RealSlot("suspect")], a \in fetched[RealSlot("suspect")] :
          Unasked(s) = Info(suspect, dc, a, now)
    BY <1>2, <1>4 DEF Role, IInv, EvidenceStaysWithItsSide
  <2>2. /\ Info(suspect, dc, a, now).age = s.age /\ Info(suspect, dc, a, now).issuer = s.issuer
        /\ Info(suspect, dc, a, now).class = s.class
    BY <1>3, <2>1 DEF DomainData, Unasked
  <2>3. ~Undated(Info(suspect, dc, a, now)) /\ ~Uncertified(Info(suspect, dc, a, now))
    BY <1>3, <2>2 DEF Undated, Uncertified
  <2> QED
    BY <2>1, <2>3, InfoIsReal DEF DatedAt, CertifiedAt
<1> QED
  BY <1>1, <1>5, <1>6 DEF Role

-----------------------------------------------------------------------------
(* The theorems.                                                           *)

LEMMA Invariance == Spec => []IInv
  BY InitEstablishes, StepPreserves, PTL DEF Spec

\* The stages keep their types and leave behind what the next one expects.
THEOREM TypeCorrect == Spec => []TypeOK
<1>1. IInv => TypeOK
  BY DEF IInv
<1> QED
  BY <1>1, Invariance, PTL

\* No verdict is printed on missing data, whatever fails or expires.
THEOREM FailClosedTheorem == Spec => []FailClosed
  BY FailClosedFollows, Invariance, PTL

\* No domain is contacted over RDAP or TLS before both have passed the gate.
THEOREM GateTheorem == Spec => []NothingContactedBeforeGate
  BY GateFollows, Invariance, PTL

\* Each side of a verdict is built from its own domain's probe and fetch.
THEOREM SidesTheorem == Spec => []EvidenceStaysWithItsSide
<1>1. IInv => EvidenceStaysWithItsSide
  BY DEF IInv
<1> QED
  BY <1>1, Invariance, PTL

-----------------------------------------------------------------------------
(***************************************************************************)
(* Pipeline implements Triage: a piece of evidence is got or lost for      *)
(* good, a verdict has every piece, a refusal names one that is lost.      *)
(***************************************************************************)

LEMMA PieceCases ==
    ASSUME NEW p \in Piece
    PROVE  \E role \in Role : p \in {<<"live", role>>, <<"age", role>>, <<"cert", role>>}
  BY DEF Piece

LEMMA PieceOfRole ==
    ASSUME NEW role \in Role
    PROVE  /\ {<<"live", role>>, <<"age", role>>, <<"cert", role>>} \subseteq Piece
           /\ In(<<"live", role>>) <=> LiveAt(role)
           /\ In(<<"age", role>>) <=> DatedAt(role)
           /\ In(<<"cert", role>>) <=> CertifiedAt(role)
           /\ Settled(<<"live", role>>) <=> probes[RealSlot(role)] # {}
           /\ Settled(<<"age", role>>) <=> fetched[RealSlot(role)] # {}
           /\ Settled(<<"cert", role>>) <=> fetched[RealSlot(role)] # {}
  BY DEF Piece, In, Settled, LiveAt, DatedAt, CertifiedAt

\* The same of the state after a step.
LEMMA PieceOfRoleLater ==
    ASSUME NEW role \in Role
    PROVE  /\ In(<<"live", role>>)' <=> LiveAt(role)'
           /\ In(<<"age", role>>)' <=> DatedAt(role)'
           /\ In(<<"cert", role>>)' <=> CertifiedAt(role)'
           /\ Settled(<<"live", role>>)' <=> probes'[RealSlot(role)'] # {}
           /\ Settled(<<"age", role>>)' <=> fetched'[RealSlot(role)'] # {}
           /\ Settled(<<"cert", role>>)' <=> fetched'[RealSlot(role)'] # {}
  BY DEF In, Settled, LiveAt, DatedAt, CertifiedAt

Have == {p \in Piece : In(p)}
Lost == {p \in Piece : Settled(p) /\ ~In(p)}

\* An action that leaves the two result tables alone leaves every piece alone.
LEMMA EvidenceFrame ==
    ASSUME UNCHANGED <<legit, suspect, probes, fetched>>
    PROVE  /\ \A role : /\ LiveAt(role)' <=> LiveAt(role)
                        /\ DatedAt(role)' <=> DatedAt(role)
                        /\ CertifiedAt(role)' <=> CertifiedAt(role)
           /\ Have' = Have /\ Lost' = Lost
<1>1. \A role : RealSlot(role)' = RealSlot(role)
  BY DEF RealSlot
<1>2. \A role : /\ LiveAt(role)' <=> LiveAt(role)
                /\ DatedAt(role)' <=> DatedAt(role)
                /\ CertifiedAt(role)' <=> CertifiedAt(role)
  BY <1>1 DEF LiveAt, DatedAt, CertifiedAt
<1>3. \A p \in Piece : (In(p)' <=> In(p)) /\ (Settled(p)' <=> Settled(p))
  <2> SUFFICES ASSUME NEW p \in Piece
               PROVE  (In(p)' <=> In(p)) /\ (Settled(p)' <=> Settled(p))
    OBVIOUS
  <2>1. PICK role \in Role : p \in {<<"live", role>>, <<"age", role>>, <<"cert", role>>}
    BY PieceCases
  <2> QED
    BY <1>1, <1>2, <2>1 DEF In, Settled
<1> QED
  BY <1>2, <1>3 DEF Have, Lost

-----------------------------------------------------------------------------
(***************************************************************************)
(* The two invariants of Pipeline that the refinement needs besides IInv.  *)
(***************************************************************************)

\* A run that has ended does nothing more.
LEMMA EndedIsFinal ==
    ASSUME IInv, stage = "done", [Next]_vars
    PROVE  UNCHANGED vars
  BY DEF Next, Expire, Probed, Fetched, Gated, FetchJoined, AskedDMARC, AskedSPF, Concluded,
         Exited, IInv, TypeOK

\* Only the gate and the quality gate end a run.
LEMMA EndingSteps ==
    ASSUME IInv, stage # "done", [Next]_vars, exit' # {}
    PROVE  Gated \/ Concluded
<1>1. exit = {}
  BY DEF IInv, TypeOK
<1> QED
  BY <1>1 DEF Next, Expire, Probed, Fetched, FetchJoined, AskedDMARC, AskedSPF, Exited, vars

\* A gate that refuses has seen the domain it names dark, and the target live
\* if it names the suspect.
LEMMA GateRefusal ==
    ASSUME IInv, Gated, NEW e \in exit'
    PROVE  /\ e.why \in {"suppressed", "unresolved"}
           /\ e.about \in Role
           /\ ~LiveAt(e.about)
           /\ e.about = "suspect" => LiveAt("target")
<1>1. \A i \in Slots : probes[i] # {}
  BY DEF Gated
<1>2. /\ probes[RealSlot("target")] = {CheckOf(legit)}
      /\ probes[RealSlot("suspect")] = {CheckOf(suspect)}
  BY <1>1, CheckOfSlot, RoleSlots DEF CheckOf, Role
<1>3. /\ LiveAt("target") <=> CheckOf(legit).systemLive
      /\ LiveAt("suspect") <=> CheckOf(suspect).systemLive
  BY <1>2 DEF LiveAt
<1>4. \A d : /\ Gate(CheckOf(d)) = "pass" <=> CheckOf(d).systemLive
             /\ Gate(CheckOf(d)) \in {"pass", "suppressed", "unresolved"}
  BY DEF Gate
<1>5. exit = {}
  BY DEF Gated, IInv, TypeOK
<1>6. CASE Gate(CheckOf(legit)) # "pass"
  <2>1. e = [why |-> Gate(CheckOf(legit)), about |-> "target", causes |-> {}]
    BY <1>6 DEF Gated
  <2> QED
    BY <1>3, <1>4, <1>6, <2>1 DEF Role
<1>7. CASE Gate(CheckOf(legit)) = "pass" /\ Gate(CheckOf(suspect)) # "pass"
  <2>1. e = [why |-> Gate(CheckOf(suspect)), about |-> "suspect", causes |-> {}]
    BY <1>7 DEF Gated
  <2> QED
    BY <1>3, <1>4, <1>7, <2>1 DEF Role
<1>8. CASE Gate(CheckOf(legit)) = "pass" /\ Gate(CheckOf(suspect)) = "pass"
  BY <1>5, <1>8 DEF Gated
<1> QED
  BY <1>6, <1>7, <1>8

\* A side is exactly as good as what its domain's fetch brought back.
LEMMA SideShowsEvidence ==
    ASSUME IInv, stage = "authority"
    PROVE  /\ \A t \in target : /\ Undated(t) <=> ~DatedAt("target")
                                /\ Uncertified(t) <=> ~CertifiedAt("target")
           /\ \A s \in sus : /\ Undated(s) <=> ~DatedAt("suspect")
                             /\ Uncertified(s) <=> ~CertifiedAt("suspect")
<1>1. \A i \in Slots : probes[i] # {} /\ fetched[i] # {}
  BY DEF IInv, TypeOK, Staging
<1>2. ASSUME NEW role \in Role, NEW side \in DomainData, NEW d,
             \A dc \in probes[RealSlot(role)], a \in fetched[RealSlot(role)] :
                 Unasked(side) = Info(d, dc, a, now)
      PROVE  /\ Undated(side) <=> ~DatedAt(role)
             /\ Uncertified(side) <=> ~CertifiedAt(role)
  <2>1. PICK dc \in probes[RealSlot(role)], a \in fetched[RealSlot(role)] :
           Unasked(side) = Info(d, dc, a, now)
    BY <1>1, <1>2, RoleSlots
  <2>2. fetched[RealSlot(role)] = {a} /\ a \in Answers
    BY <2>1, RoleSlots, OptionIsSingle DEF IInv, TypeOK
  <2>3. /\ Info(d, dc, a, now).age = side.age /\ Info(d, dc, a, now).issuer = side.issuer
        /\ Info(d, dc, a, now).class = side.class
    BY <1>2, <2>1 DEF DomainData, Unasked
  <2>4. /\ Undated(side) <=> Undated(Info(d, dc, a, now))
        /\ Uncertified(side) <=> Uncertified(Info(d, dc, a, now))
    BY <2>3 DEF Undated, Uncertified
  <2>5. DatedAt(role) <=> \E r \in a.rdap : RegistrationDate(r) # {}
    BY <2>2 DEF DatedAt
  <2>6. CertifiedAt(role) <=>
           \E c \in a.cert : IssuerName(c) # {} \/ Classify(c.policies) # "Unknown"
    BY <2>2 DEF CertifiedAt
  <2> QED
    BY <2>2, <2>4, <2>5, <2>6, InfoIsReal, InfoHidesNothing
<1>3. target \subseteq DomainData /\ sus \subseteq DomainData
  BY DEF IInv, TypeOK, Option
<1>4. RealSlot("target") = 1 /\ "target" \in Role /\ "suspect" \in Role
  BY DEF RealSlot, Role
<1>5. EvidenceStaysWithItsSide
  BY DEF IInv
<1> QED
  BY <1>2, <1>3, <1>4, <1>5 DEF EvidenceStaysWithItsSide

-----------------------------------------------------------------------------
(***************************************************************************)
(* Refusals.                                                               *)
(***************************************************************************)

LEMMA QualityRefusal ==
    ASSUME IInv, Concluded, NEW e \in exit'
    PROVE  \/ /\ e.why = "verdict"
              /\ result' # {}
              /\ \A role \in Role : DatedAt(role) /\ CertifiedAt(role)
           \/ /\ e.why = "quality" /\ result' = {}
              /\ \/ e.about = "target date" /\ ~DatedAt("target")
                 \/ e.about = "suspect date" /\ ~DatedAt("suspect")
                 \/ e.about = "target certificate" /\ ~CertifiedAt("target")
                 \/ e.about = "suspect certificate" /\ ~CertifiedAt("suspect")
<1>1. stage = "authority" /\ result = {}
  BY DEF Concluded, IInv, TypeOK
<1>2. PICK t \in target, s \in sus :
         IF VerifyDataQuality(t, s) # "none"
         THEN /\ exit' = {[why |-> "quality", about |-> VerifyDataQuality(t, s), causes |-> Causes]}
              /\ result' = result
         ELSE /\ exit' = {[why |-> "verdict", about |-> "pair", causes |-> {}]}
              /\ result' = {Score(t, s)}
  BY DEF Concluded
<1>3. /\ Undated(t) <=> ~DatedAt("target")
      /\ Undated(s) <=> ~DatedAt("suspect")
      /\ Uncertified(t) <=> ~CertifiedAt("target")
      /\ Uncertified(s) <=> ~CertifiedAt("suspect")
  BY <1>1, SideShowsEvidence
<1>4. CASE VerifyDataQuality(t, s) # "none"
  <2>1. e.why = "quality" /\ e.about = VerifyDataQuality(t, s) /\ result' = {}
    BY <1>1, <1>2, <1>4
  <2> QED
    BY <1>3, <1>4, <2>1 DEF VerifyDataQuality
<1>5. CASE VerifyDataQuality(t, s) = "none"
  <2>1. e.why = "verdict" /\ result' # {}
    BY <1>2, <1>5
  <2> QED
    BY <1>3, <1>5, <2>1 DEF VerifyDataQuality, Role
<1> QED
  BY <1>4, <1>5

LEMMA RefusalStep ==
    ASSUME IInv, RefusalIsJustified, [Next]_vars
    PROVE  RefusalIsJustified'
<1>1. CASE exit' = {}
  BY <1>1 DEF RefusalIsJustified
<1>2. CASE stage = "done"
  <2>1. exit' = exit /\ UNCHANGED <<legit, suspect, probes, fetched>>
    BY <1>2, EndedIsFinal DEF vars, args
  <2> QED
    BY <2>1, EvidenceFrame DEF RefusalIsJustified
<1>3. CASE Gated
  <2>1. UNCHANGED <<legit, suspect, probes, fetched>>
    BY <1>3 DEF Gated, args
  <2> QED
    BY <1>3, <2>1, GateRefusal, EvidenceFrame DEF RefusalIsJustified
<1>4. CASE Concluded
  <2>1. UNCHANGED <<legit, suspect, probes, fetched>>
    BY <1>4 DEF Concluded, args
  <2>2. \A e \in exit' : e.why \notin {"suppressed", "unresolved"}
    BY <1>4, QualityRefusal
  <2>3. \A e \in exit' : e.why = "quality" =>
           \/ e.about = "target date" /\ ~DatedAt("target")
           \/ e.about = "suspect date" /\ ~DatedAt("suspect")
           \/ e.about = "target certificate" /\ ~CertifiedAt("target")
           \/ e.about = "suspect certificate" /\ ~CertifiedAt("suspect")
    BY <1>4, QualityRefusal
  <2> QED
    BY <2>1, <2>2, <2>3, EvidenceFrame DEF RefusalIsJustified
<1> QED
  BY <1>1, <1>2, <1>3, <1>4, EndingSteps

-----------------------------------------------------------------------------
(***************************************************************************)
(* The refinement: what the mapping of module Pipeline makes of each step. *)
(***************************************************************************)

Standing == IF exit = {} THEN "pending" ELSE IF result # {} THEN "verdict" ELSE "refused"

LEMMA InitMaps == Init => Abstract!Init
<1> SUFFICES ASSUME Init PROVE Abstract!Init
  OBVIOUS
<1>1. \A role \in Role : probes[RealSlot(role)] = {} /\ fetched[RealSlot(role)] = {}
  BY RoleSlots DEF Init
<1>2. ASSUME NEW p \in Piece
      PROVE  ~In(p) /\ ~Settled(p)
  <2>1. PICK role \in Role : p \in {<<"live", role>>, <<"age", role>>, <<"cert", role>>}
    BY PieceCases
  <2> QED
    BY <1>1, <2>1, PieceOfRole DEF LiveAt, DatedAt, CertifiedAt
<1> QED
  BY <1>2 DEF Init, Abstract!Init

\* An answer that comes in settles pieces and unsettles none.
LEMMA GatherMaps ==
    ASSUME IInv, NEW i \in {1, 2}, Probed(i) \/ Fetched(i)
    PROVE  Abstract!Gather
<1>1. /\ stage # "done" /\ UNCHANGED <<args, exit, result>>
      /\ i \in Slots /\ Slots' = Slots
      /\ \A role : RealSlot(role)' = RealSlot(role)
  BY DEF Probed, Fetched, args, Slots, RealSlot
<1>2. \A j \in Slots : /\ probes[j] # {} => probes'[j] = probes[j]
                       /\ fetched[j] # {} => fetched'[j] = fetched[j]
  BY DEF Probed, Fetched, IInv, TypeOK
<1>3. ASSUME NEW p \in Piece
      PROVE  /\ In(p) => Settled(p)
             /\ Settled(p) => Settled(p)' /\ (In(p)' <=> In(p))
  <2>1. PICK role \in Role : p \in {<<"live", role>>, <<"age", role>>, <<"cert", role>>}
    BY PieceCases
  <2>2. RealSlot(role) \in Slots
    BY RoleSlots
  <2>3. /\ LiveAt(role) => probes[RealSlot(role)] # {}
        /\ DatedAt(role) \/ CertifiedAt(role) => fetched[RealSlot(role)] # {}
    BY DEF LiveAt, DatedAt, CertifiedAt
  <2>4. /\ probes[RealSlot(role)] # {} =>
              probes'[RealSlot(role)] # {} /\ (LiveAt(role)' <=> LiveAt(role))
        /\ fetched[RealSlot(role)] # {} =>
              /\ fetched'[RealSlot(role)] # {}
              /\ DatedAt(role)' <=> DatedAt(role)
              /\ CertifiedAt(role)' <=> CertifiedAt(role)
    BY <1>1, <1>2, <2>2 DEF LiveAt, DatedAt, CertifiedAt
  <2> QED
    BY <1>1, <2>1, <2>3, <2>4, PieceOfRole, PieceOfRoleLater
<1>4. exit = {} /\ Standing = "pending" /\ Standing' = "pending"
  BY <1>1 DEF Standing, IInv, TypeOK
<1> QED
  BY <1>3, <1>4 DEF Abstract!Gather, Standing

\* A refusal at the gate names a domain that is not live.
LEMMA GatedMaps ==
    ASSUME IInv, Gated
    PROVE  Abstract!Refuse \/ UNCHANGED Abstract!vars
<1>1. UNCHANGED <<legit, suspect, probes, fetched, result>> /\ exit = {} /\ result = {}
  BY DEF Gated, args, IInv, TypeOK
<1>2. Have' = Have /\ Lost' = Lost
  BY <1>1, EvidenceFrame
<1>3. CASE exit' = {}
  BY <1>1, <1>2, <1>3 DEF Abstract!vars, Have, Lost
<1>4. CASE exit' # {}
  <2>1. PICK role \in Role : ~LiveAt(role)
    BY <1>4, GateRefusal
  <2>2. probes[RealSlot(role)] # {}
    BY RoleSlots DEF Gated
  <2>3. <<"live", role>> \in Lost
    BY <2>1, <2>2, PieceOfRole DEF Lost
  <2> QED
    BY <1>1, <1>2, <1>4, <2>3 DEF Abstract!Refuse, Have, Lost
<1> QED
  BY <1>3, <1>4

\* The quality gate delivers with every piece, and refuses over a lost one.
LEMMA ConcludedMaps ==
    ASSUME IInv, Concluded
    PROVE  Abstract!Deliver \/ Abstract!Refuse
<1>1. UNCHANGED <<legit, suspect, probes, fetched>> /\ stage = "authority" /\ exit = {}
  BY DEF Concluded, args, IInv, TypeOK
<1>2. Have' = Have /\ Lost' = Lost
  BY <1>1, EvidenceFrame
<1>3. \A role \in Role : LiveAt(role) /\ fetched[RealSlot(role)] # {}
  BY <1>1, RoleSlots DEF IInv, TypeOK, PastGate
<1>4. PICK e : e \in exit'
  BY DEF Concluded
<1>5. CASE e.why = "verdict"
  <2>1. result' # {} /\ \A role \in Role : DatedAt(role) /\ CertifiedAt(role)
    BY <1>4, <1>5, QualityRefusal
  <2>2. ASSUME NEW p \in Piece
        PROVE  In(p)
    <3>1. PICK role \in Role : p \in {<<"live", role>>, <<"age", role>>, <<"cert", role>>}
      BY PieceCases
    <3> QED
      BY <1>3, <2>1, <3>1, PieceOfRole
  <2> QED
    BY <1>1, <1>2, <1>4, <2>1, <2>2 DEF Abstract!Deliver, Have, Lost
<1>6. CASE e.why # "verdict"
  <2>1. /\ result' = {}
        /\ \E role \in Role : ~DatedAt(role) \/ ~CertifiedAt(role)
    BY <1>4, <1>6, QualityRefusal DEF Role
  <2>2. \E p \in Piece : p \in Lost
    BY <1>3, <2>1, PieceOfRole DEF Lost
  <2> QED
    BY <1>1, <1>2, <1>4, <2>1, <2>2 DEF Abstract!Refuse, Have, Lost
<1> QED
  BY <1>5, <1>6

\* The other steps are none of Triage's business.
LEMMA SilentMaps ==
    ASSUME Expire \/ FetchJoined \/ AskedDMARC \/ AskedSPF \/ Exited \/ UNCHANGED vars
    PROVE  UNCHANGED Abstract!vars
<1>1. UNCHANGED <<legit, suspect, probes, fetched, exit, result>>
  BY DEF Expire, FetchJoined, AskedDMARC, AskedSPF, Exited, vars, args
<1>2. Have' = Have /\ Lost' = Lost
  BY <1>1, EvidenceFrame
<1> QED
  BY <1>1, <1>2 DEF Abstract!vars, Have, Lost

LEMMA StepMaps == IInv /\ [Next]_vars => [Abstract!Next]_Abstract!vars
  BY GatherMaps, GatedMaps, ConcludedMaps, SilentMaps DEF Next, Abstract!Next

-----------------------------------------------------------------------------
(* Refusals, and the refinement.                                           *)

\* A refusal names a side that really is at fault.
THEOREM RefusalTheorem == Spec => []RefusalIsJustified
<1>1. Init => RefusalIsJustified
  BY DEF Init, RefusalIsJustified
<1> QED
  BY <1>1, RefusalStep, Invariance, PTL DEF Spec

\* Every run is a run of Triage.
THEOREM Refinement == Spec => ImplementsTriage
<1>1. Spec => Abstract!Spec
  BY InitMaps, StepMaps, Invariance, PTL DEF Spec, Abstract!Spec
<1> QED
  BY <1>1 DEF ImplementsTriage
=============================================================================
