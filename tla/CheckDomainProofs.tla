-------------------------- MODULE CheckDomainProofs --------------------------
(***************************************************************************)
(* Proofs about CheckDomain, for any number of pinned resolvers and any    *)
(* name servers and addresses.                                             *)
(***************************************************************************)
EXTENDS CheckDomain, TLAPS

USE PinnedAssumption

(***************************************************************************)
(* What the operators of Resolvers return.                                 *)
(***************************************************************************)

\* A classified reply is a live answer only with an address.
LEMMA ClassifyFacts ==
    ASSUME NEW reply \in IPReply
    PROVE  /\ classifyOutcome(reply) \in OutcomeKind
           /\ classifyOutcome(reply) = "live" => reply.addrs # {}
  BY DEF IPReply, classifyOutcome, OutcomeKind

\* The representative address is one address at most.
LEMMA RepresentativeType ==
    ASSUME NEW os \in [Slot -> Outcome]
    PROVE  RepresentativeAddr(os) \in Option(Addrs)
<1> DEFINE answering == {i \in PublicVoters(os, "live") : os[i].addrs # {}}
           first == {i \in answering : \A j \in answering : i <= j}
<1>1. first \subseteq Slot
  BY DEF PublicVoters
<1>2. \A i, j \in first : i = j
  BY <1>1 DEF Slot
<1>3. \A i \in first : os[i].addrs \in Option(Addrs)
  BY <1>1 DEF Outcome
<1>4. RepresentativeAddr(os) = UNION {os[i].addrs : i \in first}
  BY DEF RepresentativeAddr
<1>5. CASE first = {}
  BY <1>4, <1>5 DEF Option
<1>6. CASE first # {}
  <2>1. PICK i \in first : TRUE
    BY <1>6
  <2>2. UNION {os[k].addrs : k \in first} = os[i].addrs
    BY <1>2, <2>1
  <2> QED
    BY <1>3, <1>4, <2>1, <2>2
<1> QED
  BY <1>5, <1>6

\* An aggregate of well-typed outcomes is a DomainCheck.
LEMMA AggregateType ==
    ASSUME NEW os \in [Slot -> Outcome], NEW hosts \in BOOLEAN
    PROVE  Aggregate(os, hosts) \in DomainCheck
<1>1. System \in Slot
  BY DEF System, Slot
<1>2. os[System].addrs \in Option(Addrs)
  BY <1>1 DEF Outcome
<1>3. detectSplit(os) \in SplitKind
  BY DEF detectSplit, SplitKind
<1>4. {} \in Option(Addrs)
  BY DEF Option
<1>5. RepresentativeAddr(os) \in Option(Addrs)
  BY RepresentativeType
<1> QED
  BY <1>2, <1>3, <1>4, <1>5 DEF Aggregate, DomainCheck

\* The direction of a split fixes both votes of the gate.
LEMMA SplitDirection ==
    ASSUME NEW os \in [Slot -> Outcome], NEW hosts
    PROVE  /\ Aggregate(os, hosts).kind = "suppression" =>
                /\ ~Aggregate(os, hosts).systemLive
                /\ Aggregate(os, hosts).publicLive
           /\ Aggregate(os, hosts).kind = "horizon" => Aggregate(os, hosts).systemLive
<1>1. detectSplit(os) = "suppression" => IsSuppression(os)
  BY DEF detectSplit
<1>2. detectSplit(os) = "horizon" => IsHorizon(os)
  BY DEF detectSplit
<1> QED
  BY <1>1, <1>2 DEF Aggregate, IsSuppression, IsHorizon, SystemKind

-----------------------------------------------------------------------------
(***************************************************************************)
(* The inductive invariant: the types; that only a live outcome is waiting *)
(* for its name servers, without which LookupNS could give a dark outcome  *)
(* a delegation; and that a result is the aggregate of the slice, which    *)
(* nobody writes any more.                                                 *)
(***************************************************************************)
ResultIsAggregate ==
    check # {} => \E hosts \in BOOLEAN : check = {Aggregate(outcomes, hosts)}

OnlyLiveGoesOn == \A i \in Slot : pc[i] = "lookupNS" => out[i].kind = "live"

IInv == TypeOK /\ OnlyLiveGoesOn /\ ResultIsAggregate

LEMMA InitEstablishes == Init => IInv
<1> SUFFICES ASSUME Init PROVE IInv
  OBVIOUS
<1>1. ZeroOutcome \in Outcome
  BY DEF ZeroOutcome, Outcome, OutcomeKind, Option
<1>2. {} \in Option(DomainCheck)
  BY DEF Option
<1> QED
  BY <1>1, <1>2 DEF Init, IInv, TypeOK, OnlyLiveGoesOn, ResultIsAggregate, ZeroOutcome

\* No goroutine moves once the result is there.
LEMMA NobodyLeft ==
    ASSUME IInv, NEW i \in Slot, pc[i] # "done"
    PROVE  check = {}
  BY DEF IInv, TypeOK, AllDone

\* A lookup that returns disturbs its own goroutine only: what the other slots
\* hold, and that there is no result yet, carries over.
LEMMA FrameOfSlots ==
    ASSUME IInv, NEW i \in Slot, check = {}, UNCHANGED <<outcomes, check>>,
           pc[i] \in {"lookupIP", "lookupNS"}, pc'[i] \in {"lookupNS", "publish"},
           pc' \in [Slot -> {"lookupIP", "lookupNS", "publish", "done"}],
           out' \in [Slot -> Outcome],
           \A j \in Slot \ {i} : out'[j] = out[j] /\ pc'[j] = pc[j],
           pc'[i] = "lookupNS" => out'[i].kind = "live",
           out'[i].name = NameOf(i),
           out'[i].kind # "live" => out'[i].ns = {} /\ out'[i].addrs = {},
           out'[i].kind = "live" => out'[i].addrs # {}
    PROVE  IInv'
<1>1. \A j \in Slot \ {i} :
        /\ pc'[j] # "lookupIP" => out'[j].name = NameOf(j)
        /\ out'[j].kind # "live" => out'[j].ns = {} /\ out'[j].addrs = {}
        /\ pc'[j] # "lookupIP" /\ out'[j].kind = "live" => out'[j].addrs # {}
        /\ outcomes'[j] = IF pc'[j] = "done" THEN out'[j] ELSE ZeroOutcome
  BY DEF IInv, TypeOK
<1>2. outcomes'[i] = IF pc'[i] = "done" THEN out'[i] ELSE ZeroOutcome
  BY DEF IInv, TypeOK
<1>3. outcomes' \in [Slot -> Outcome] /\ check' \in Option(DomainCheck) /\ check' = {}
  BY DEF IInv, TypeOK
<1>4. TypeOK'
  BY <1>1, <1>2, <1>3 DEF TypeOK
<1>5. OnlyLiveGoesOn'
  BY DEF IInv, OnlyLiveGoesOn
<1> QED
  BY <1>3, <1>4, <1>5 DEF IInv, ResultIsAggregate

LEMMA LookupIPStep ==
    ASSUME IInv, NEW i \in Slot, LookupIP(i)
    PROVE  IInv'
<1>1. PICK reply \in IPReply :
        /\ out' = [out EXCEPT ![i] =
              [name |-> NameOf(i), kind |-> classifyOutcome(reply), ns |-> {},
               addrs |-> IF classifyOutcome(reply) = "live" THEN reply.addrs ELSE {}]]
        /\ pc' = [pc EXCEPT ![i] =
              IF classifyOutcome(reply) = "live" THEN "lookupNS" ELSE "publish"]
  BY DEF LookupIP
<1> DEFINE new == [name |-> NameOf(i), kind |-> classifyOutcome(reply), ns |-> {},
                   addrs |-> IF classifyOutcome(reply) = "live" THEN reply.addrs ELSE {}]
<1>2. new \in Outcome
  BY ClassifyFacts DEF Outcome, NameOf, IPReply, Option
<1>3. /\ new.name = NameOf(i)
      /\ new.kind # "live" => new.ns = {} /\ new.addrs = {}
      /\ new.kind = "live" => new.addrs # {}
  BY ClassifyFacts
<1>4. check = {} /\ pc[i] = "lookupIP" /\ UNCHANGED <<outcomes, check>>
  BY NobodyLeft DEF LookupIP
<1>5. out' = [out EXCEPT ![i] = new]
  BY <1>1
<1>6. /\ pc' \in [Slot -> {"lookupIP", "lookupNS", "publish", "done"}]
      /\ pc'[i] \in {"lookupNS", "publish"}
      /\ pc'[i] = "lookupNS" => new.kind = "live"
      /\ \A j \in Slot \ {i} : pc'[j] = pc[j]
  BY <1>1 DEF IInv, TypeOK
<1> HIDE DEF new
<1>7. out' \in [Slot -> Outcome] /\ out'[i] = new /\ \A j \in Slot \ {i} : out'[j] = out[j]
  BY <1>2, <1>5 DEF IInv, TypeOK
<1> QED
  BY <1>3, <1>4, <1>6, <1>7, FrameOfSlots

LEMMA LookupNSStep ==
    ASSUME IInv, NEW i \in Slot, LookupNS(i)
    PROVE  IInv'
<1>1. PICK ns \in SUBSET NameServers : out' = [out EXCEPT ![i].ns = ns]
  BY DEF LookupNS
<1>2. check = {} /\ pc[i] = "lookupNS" /\ UNCHANGED <<outcomes, check>>
  BY NobodyLeft DEF LookupNS
<1>3. out[i].kind = "live" /\ out[i] \in Outcome
  BY <1>2 DEF IInv, TypeOK, OnlyLiveGoesOn
<1> DEFINE new == [out[i] EXCEPT !.ns = ns]
<1>4. new \in Outcome /\ new.kind = "live"
      /\ new.name = out[i].name /\ new.addrs = out[i].addrs
  BY <1>3 DEF Outcome
<1>5. out' = [out EXCEPT ![i] = new]
  BY <1>1, <1>3 DEF Outcome
<1>6. out[i].name = NameOf(i) /\ out[i].addrs # {}
  BY <1>2, <1>3 DEF IInv, TypeOK
<1> HIDE DEF new
<1>7. out' \in [Slot -> Outcome] /\ out'[i] = new /\ \A j \in Slot \ {i} : out'[j] = out[j]
  BY <1>4, <1>5 DEF IInv, TypeOK
<1>8. /\ pc' \in [Slot -> {"lookupIP", "lookupNS", "publish", "done"}]
      /\ pc'[i] = "publish" /\ \A j \in Slot \ {i} : pc'[j] = pc[j]
  BY DEF LookupNS, IInv, TypeOK
<1> QED
  BY <1>2, <1>4, <1>6, <1>7, <1>8, FrameOfSlots

LEMMA PublishStep ==
    ASSUME IInv, NEW i \in Slot, Publish(i)
    PROVE  IInv'
<1>1. check = {} /\ UNCHANGED <<out, check>>
  BY NobodyLeft DEF Publish
<1> QED
  BY <1>1 DEF Publish, IInv, TypeOK, OnlyLiveGoesOn, ResultIsAggregate

LEMMA JoinStep ==
    ASSUME IInv, Join
    PROVE  IInv'
<1>1. PICK hosts \in BOOLEAN : check' = {Aggregate(outcomes, hosts)}
  BY DEF Join
<1>2. Aggregate(outcomes, hosts) \in DomainCheck
  BY AggregateType DEF IInv, TypeOK
<1>3. check' \in Option(DomainCheck)
  BY <1>1, <1>2 DEF Option
<1>4. AllDone' /\ UNCHANGED <<pc, out, outcomes>>
  BY DEF Join, AllDone
<1>5. Aggregate(outcomes, hosts) = Aggregate(outcomes, hosts)'
  BY <1>4 DEF Aggregate, PublicVoters, RepresentativeAddr, detectSplit,
              IsSuppression, IsHorizon, DelegationsDiffer, SystemKind
<1>6. ResultIsAggregate'
  BY <1>1, <1>4 DEF ResultIsAggregate
<1>7. TypeOK'
  BY <1>3, <1>4 DEF IInv, TypeOK
<1>8. OnlyLiveGoesOn'
  BY <1>4 DEF IInv, OnlyLiveGoesOn
<1> QED
  BY <1>6, <1>7, <1>8 DEF IInv

LEMMA StepPreserves == IInv /\ [Next]_vars => IInv'
<1> SUFFICES ASSUME IInv, [Next]_vars PROVE IInv'
  OBVIOUS
<1>1. CASE \E i \in Slot : LookupIP(i) \/ LookupNS(i) \/ Publish(i)
  BY <1>1, LookupIPStep, LookupNSStep, PublishStep
<1>2. CASE Join
  BY <1>2, JoinStep
<1>3. CASE UNCHANGED vars
  BY <1>3 DEF vars, IInv, TypeOK, OnlyLiveGoesOn, ResultIsAggregate, AllDone
<1> QED
  BY <1>1, <1>2, <1>3 DEF Next, Returned

-----------------------------------------------------------------------------
(***************************************************************************)
(* What the invariant gives.                                               *)
(***************************************************************************)

\* With the slice complete, the shared outcomes are the goroutines' own.
LEMMA SliceIsReal ==
    ASSUME IInv, NEW dc \in check
    PROVE  /\ \E hosts \in BOOLEAN : dc = Aggregate(out, hosts)
           /\ out \in [Slot -> Outcome]
           /\ \A i \in Slot : /\ out[i].name = NameOf(i)
                              /\ out[i].kind = "live" => out[i].addrs # {}
<1>1. PICK hosts \in BOOLEAN : check = {Aggregate(outcomes, hosts)}
  BY DEF IInv, ResultIsAggregate
<1>2. \A i \in Slot : pc[i] = "done"
  BY DEF IInv, TypeOK, AllDone
<1>3. outcomes = out
  BY <1>2 DEF IInv, TypeOK
<1> QED
  BY <1>1, <1>2, <1>3 DEF IInv, TypeOK

LEMMA VotesFollow == IInv => VotesAreReal
<1> SUFFICES ASSUME IInv, NEW dc \in check
             PROVE  /\ dc.systemLive <=> Live(System)
                    /\ dc.publicLive <=> \E i \in Slot \ {System} : Live(i)
                    /\ dc.systemAddrs # {} => dc.systemAddrs = out[System].addrs
                    /\ \A i \in Slot \ {System} :
                          (Live(i) /\ \A j \in 1 .. (i - 1) : ~Live(j)) =>
                              dc.publicAddrs = out[i].addrs
  BY DEF VotesAreReal
<1>1. PICK hosts \in BOOLEAN : dc = Aggregate(out, hosts)
  BY SliceIsReal
<1>2. /\ out \in [Slot -> Outcome]
      /\ \A i \in Slot : /\ out[i].name = NameOf(i)
                         /\ out[i].kind = "live" => out[i].addrs # {}
  BY SliceIsReal
<1>3. System \in Slot /\ \A i \in Slot : i # System <=> out[i].name # "system"
  BY <1>2 DEF NameOf, System, Slot
<1>4. PublicVoters(out, "live") = {i \in Slot \ {System} : Live(i)}
  BY <1>2, <1>3 DEF PublicVoters, Live, NameOf
<1>5. dc.systemLive <=> Live(System)
  BY <1>1, <1>2, <1>3 DEF Aggregate, Live, NameOf
<1>6. dc.publicLive <=> \E i \in Slot \ {System} : Live(i)
  BY <1>1, <1>4 DEF Aggregate
<1>7. dc.systemAddrs # {} => dc.systemAddrs = out[System].addrs
  BY <1>1 DEF Aggregate
<1>8. ASSUME NEW i \in Slot \ {System}, Live(i), \A j \in 1 .. (i - 1) : ~Live(j)
      PROVE  dc.publicAddrs = out[i].addrs
  <2> DEFINE answering == {k \in PublicVoters(out, "live") : out[k].addrs # {}}
             first == {k \in answering : \A j \in answering : k <= j}
  <2>1. answering = {k \in Slot \ {System} : Live(k)}
    BY <1>2, <1>4 DEF Live
  <2>2. \A k \in answering : i <= k
    BY <1>8, <2>1 DEF Slot, System
  <2>3. first = {i}
    BY <1>8, <2>1, <2>2 DEF Slot, System
  <2>4. dc.publicAddrs = UNION {out[k].addrs : k \in first}
    BY <1>1 DEF Aggregate, RepresentativeAddr
  <2> HIDE DEF first
  <2> QED
    BY <2>3, <2>4
<1> QED
  BY <1>5, <1>6, <1>7, <1>8

LEMMA TamperingFollows == IInv => TamperingNeedsTwoVotes
<1> SUFFICES ASSUME IInv, NEW dc \in check, Tampered(dc)
             PROVE  \E i, j \in Slot :
                       \/ Live(i) /\ Dark(j)
                       \/ /\ Live(i) /\ Live(j)
                          /\ out[i].ns # {} /\ out[j].ns # {} /\ out[i].ns # out[j].ns
  BY DEF TamperingNeedsTwoVotes
<1>1. PICK hosts \in BOOLEAN : dc = Aggregate(out, hosts)
  BY SliceIsReal
<1>2. \A i \in Slot : out[i].name = NameOf(i)
  BY SliceIsReal
<1>3. System \in Slot /\ \A i \in Slot : NameOf(i) # ""
  BY DEF NameOf, System, Slot
<1>4. IsSuppression(out) \/ DelegationsDiffer(out)
  BY <1>1 DEF Tampered, Aggregate, detectSplit
<1>5. CASE IsSuppression(out)
  <2>1. PICK i \in Slot : out[i].kind = "live"
    BY <1>5 DEF IsSuppression, PublicVoters
  <2>2. PICK j \in Slot : out[j].kind = "nxdomain"
    BY <1>3, <1>5 DEF IsSuppression, PublicVoters, SystemKind
  <2> QED
    BY <1>2, <1>3, <2>1, <2>2 DEF Live, Dark
<1>6. CASE DelegationsDiffer(out)
  BY <1>2, <1>3, <1>6 DEF DelegationsDiffer, Live
<1> QED
  BY <1>4, <1>5, <1>6

LEMMA SplitFollows == IInv => SplitAgreesWithGate
<1> SUFFICES ASSUME IInv, NEW dc \in check
             PROVE  /\ dc.kind = "suppression" => Gate(dc) = "suppressed"
                    /\ dc.kind = "horizon" => Gate(dc) = "pass"
                    /\ Tampered(dc) /\ Gate(dc) = "pass" => dc.kind = "ns"
  BY DEF SplitAgreesWithGate
<1>1. PICK hosts \in BOOLEAN : dc = Aggregate(out, hosts)
  BY SliceIsReal
<1>2. /\ dc.kind = "suppression" => ~dc.systemLive /\ dc.publicLive
      /\ dc.kind = "horizon" => dc.systemLive
  BY <1>1, SliceIsReal, SplitDirection
<1> QED
  BY <1>2 DEF Gate, Tampered

-----------------------------------------------------------------------------
(* The theorems.                                                           *)

LEMMA Invariance == Spec => []IInv
  BY InitEstablishes, StepPreserves, PTL DEF Spec

\* The fan-out over the resolvers keeps its types, whatever is answered in
\* whatever order, and the slice holds only finished answers.
THEOREM TypeCorrect == Spec => []TypeOK
<1>1. IInv => TypeOK
  BY DEF IInv
<1> QED
  BY <1>1, Invariance, PTL

\* The gate's votes and the per-path endpoints are what the resolvers really
\* answered, independently of the order they answered in.
THEOREM VotesTheorem == Spec => []VotesAreReal
  BY VotesFollow, Invariance, PTL

\* No single resolver, and no abstention, can make a domain tampered.
THEOREM TwoVotesTheorem == Spec => []TamperingNeedsTwoVotes
  BY TamperingFollows, Invariance, PTL

\* A suppression always ends at the gate, and whatever passes the gate as
\* tampered is a delegation split.
THEOREM SplitTheorem == Spec => []SplitAgreesWithGate
  BY SplitFollows, Invariance, PTL
=============================================================================
