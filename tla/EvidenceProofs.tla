---------------------------- MODULE EvidenceProofs ---------------------------
(***************************************************************************)
(* Lemmas about the operators of Evidence and Documents that the proofs    *)
(* about a fetch and about a run share: what they return, and what a       *)
(* DomainData owes to the answers it is built from.                        *)
(***************************************************************************)
EXTENDS Evidence, TLAPS

USE PinnedAssumption, SimilarAssumption, EvidenceAssumption

(***************************************************************************)
(* Known values: an option with a member is that member's singleton.       *)
(***************************************************************************)

LEMMA OptionIsSingle ==
    ASSUME NEW S, NEW o \in Option(S), NEW x \in o
    PROVE  o = {x} /\ x \in S
  BY DEF Option

LEMMA OptionOfOne ==
    ASSUME NEW S, NEW x \in S
    PROVE  {x} \in Option(S) /\ {} \in Option(S)
  BY DEF Option

-----------------------------------------------------------------------------
(***************************************************************************)
(* What a fetch makes of its answers.                                      *)
(***************************************************************************)

\* The first position of a list is one position at most.
LEMMA FirstIsOne ==
    ASSUME NEW positions \in SUBSET Int
    PROVE  /\ FirstOf(positions) \subseteq positions
           /\ \A i, j \in FirstOf(positions) : i = j
  BY DEF FirstOf

\* What is read at a first position is there or not, like what it is read of.
LEMMA ReadOfFirst ==
    ASSUME NEW S, NEW positions \in SUBSET Int, NEW field,
           \A i \in positions : field[i] \in Option(S)
    PROVE  UNION {field[i] : i \in FirstOf(positions)} \in Option(S)
<1>1. CASE FirstOf(positions) = {}
  BY <1>1 DEF Option
<1>2. CASE FirstOf(positions) # {}
  <2>1. PICK i \in FirstOf(positions) : FirstOf(positions) = {i}
    BY <1>2, FirstIsOne
  <2>2. UNION {field[j] : j \in FirstOf(positions)} = field[i]
    BY <2>1
  <2>3. i \in positions
    BY <2>1, FirstIsOne
  <2>4. field[i] \in Option(S)
    BY <2>3
  <2> QED
    BY <2>2, <2>4
<1> QED
  BY <1>1, <1>2

LEMMA ResponseFields ==
    ASSUME NEW r \in Response
    PROVE  /\ RegistrationDate(r) \in Option(Int)
           /\ RegistrarName(r) \in Option(Registrar)
<1>1. /\ DOMAIN r.events \subseteq Int /\ DOMAIN r.entities \subseteq Int
      /\ \A i \in DOMAIN r.events : r.events[i].readable \in Option(Int)
      /\ \A i \in DOMAIN r.entities : r.entities[i].fn \in Option(Registrar)
  <2>1. r.events \in Seq(Event) /\ r.entities \in Seq(Entity)
    BY DEF Response
  <2>2. \A i \in DOMAIN r.events : r.events[i] \in Event
    BY <2>1
  <2>3. \A i \in DOMAIN r.entities : r.entities[i] \in Entity
    BY <2>1
  <2>4. DOMAIN r.events \subseteq Int /\ DOMAIN r.entities \subseteq Int
    BY <2>1
  <2> QED
    BY <2>2, <2>3, <2>4 DEF Event, Entity
<1>2. RegistrationDate(r) \in Option(Int)
  <2> DEFINE dated == {i \in DOMAIN r.events : r.events[i].registration /\ r.events[i].given}
             field == [i \in DOMAIN r.events |-> r.events[i].readable]
  <2>1. UNION {field[i] : i \in FirstOf(dated)} \in Option(Int)
    <3>1. dated \in SUBSET Int /\ \A i \in dated : field[i] \in Option(Int)
      BY <1>1
    <3> HIDE DEF dated, field
    <3> QED
      BY <3>1, ReadOfFirst
  <2>2. FirstOf(dated) \subseteq DOMAIN r.events
    BY DEF FirstOf
  <2>3. {field[i] : i \in FirstOf(dated)} = {r.events[i].readable : i \in FirstOf(dated)}
    BY <2>2
  <2> QED
    BY <2>1, <2>3 DEF RegistrationDate
<1>3. RegistrarName(r) \in Option(Registrar)
  <2> DEFINE named == {i \in DOMAIN r.entities : r.entities[i].fn # {}}
             roles == {i \in named : r.entities[i].registrar}
             field == [i \in DOMAIN r.entities |-> r.entities[i].fn]
             chosen == IF FirstOf(roles) # {} THEN FirstOf(roles) ELSE FirstOf(named)
  <2>1. UNION {field[i] : i \in chosen} \in Option(Registrar)
    <3>1. roles \in SUBSET Int /\ \A i \in roles : field[i] \in Option(Registrar)
      BY <1>1
    <3>2. named \in SUBSET Int /\ \A i \in named : field[i] \in Option(Registrar)
      BY <1>1
    <3> HIDE DEF named, roles, field
    <3>3. UNION {field[i] : i \in FirstOf(roles)} \in Option(Registrar)
      BY <3>1, ReadOfFirst
    <3>4. UNION {field[i] : i \in FirstOf(named)} \in Option(Registrar)
      BY <3>2, ReadOfFirst
    <3> QED
      BY <3>3, <3>4
  <2>2. chosen \subseteq DOMAIN r.entities
    BY DEF FirstOf
  <2>3. {field[i] : i \in chosen} = {r.entities[i].fn : i \in chosen}
    BY <2>2
  <2> QED
    BY <2>1, <2>3 DEF RegistrarName
<1> QED
  BY <1>2, <1>3

LEMMA DetailsType ==
    ASSUME NEW leaf \in Leaf
    PROVE  /\ FromLeaf(leaf).issuer \in Option(Issuer)
           /\ FromLeaf(leaf).class \in Class
           /\ Covered(FromLeaf(leaf).sans) \subseteq Domain
  BY DEF Leaf, FromLeaf, IssuerName, Classify, Class, Covered

LEMMA AgeType ==
    ASSUME NEW day \in Int, NEW now_ \in Clock
    PROVE  AgeDays(day, now_) \in Int
  BY DEF AgeDays, Clock

LEMMA InfoType ==
    ASSUME NEW d \in Domain, NEW dc \in DomainCheck, NEW a \in Answers, NEW t \in Clock
    PROVE  /\ Info(d, dc, a, t) \in DomainData
           /\ Info(d, dc, a, t).domain = d
<1>1. /\ a.rdap \in Option(RdapAnswers) /\ a.cert \in Option(Leaves)
      /\ dc.kind \in SplitKind /\ dc.hostsHit \in BOOLEAN
      /\ dc.systemAddrs \in Option(Addrs) /\ dc.publicAddrs \in Option(Addrs)
  BY DEF Answers, DomainCheck
<1> DEFINE dates == UNION {RegistrationDate(r) : r \in a.rdap}
           details == {FromLeaf(c) : c \in a.cert}
<1>2. {AgeDays(day, t) : day \in dates} \in Option(Int)
  <2>1. dates \in Option(Int)
    BY <1>1, ResponseFields DEF Option
  <2> HIDE DEF dates
  <2>2. CASE dates = {}
    BY <2>2 DEF Option
  <2>3. CASE dates # {}
    <3>1. PICK day \in Int : dates = {day}
      BY <2>1, <2>3 DEF Option
    <3>2. {AgeDays(x, t) : x \in dates} = {AgeDays(day, t)}
      BY <3>1
    <3> QED
      BY <3>2, AgeType DEF Option
  <2> QED
    BY <2>2, <2>3
<1>3. UNION {RegistrarName(r) : r \in a.rdap} \in Option(Registrar)
  BY <1>1, ResponseFields DEF Option
<1>4. details = {} \/ \E c \in Leaf : details = {FromLeaf(c)}
  BY <1>1 DEF Option
<1>5. /\ UNION {c.issuer : c \in details} \in Option(Issuer)
      /\ UNION {Covered(c.sans) : c \in details} \subseteq Domain
      /\ (IF details = {} THEN "Unknown" ELSE (CHOOSE c \in details : TRUE).class) \in Class
  <2> HIDE DEF details
  <2>1. CASE details = {}
    BY <2>1 DEF Option, Class
  <2>2. CASE details # {}
    <3>1. PICK leaf \in Leaf : details = {FromLeaf(leaf)}
      BY <1>4, <2>2
    <3>2. /\ UNION {c.issuer : c \in details} = FromLeaf(leaf).issuer
          /\ UNION {Covered(c.sans) : c \in details} = Covered(FromLeaf(leaf).sans)
          /\ (CHOOSE c \in details : TRUE) = FromLeaf(leaf)
      BY <3>1
    <3> QED
      BY <2>2, <3>2, DetailsType
  <2> QED
    BY <2>1, <2>2
<1>6. {} \in Option(Policy)
  BY DEF Option
<1> QED
  BY <1>1, <1>2, <1>3, <1>5, <1>6 DEF Info, DomainData, TwoPaths, ComparePaths, ASNChecked, ASNMatch

\* A date and a certificate identity of a DomainData really came back.
LEMMA InfoIsReal ==
    ASSUME NEW d, NEW dc, NEW a, NEW t
    PROVE  /\ ~Undated(Info(d, dc, a, t)) => \E r \in a.rdap : RegistrationDate(r) # {}
           /\ ~Uncertified(Info(d, dc, a, t)) =>
                 \E c \in a.cert : IssuerName(c) # {} \/ Classify(c.policies) # "Unknown"
<1>1. ~Undated(Info(d, dc, a, t)) => \E r \in a.rdap : RegistrationDate(r) # {}
  BY DEF Info, Undated
<1>2. ASSUME ~Uncertified(Info(d, dc, a, t))
      PROVE  \E c \in a.cert : IssuerName(c) # {} \/ Classify(c.policies) # "Unknown"
  <2> DEFINE details == {FromLeaf(c) : c \in a.cert}
  <2>1. \/ UNION {c.issuer : c \in details} # {}
        \/ details # {} /\ (CHOOSE c \in details : TRUE).class # "Unknown"
    BY <1>2 DEF Info, Uncertified
  <2>2. \E c \in details : c.issuer # {} \/ c.class # "Unknown"
    BY <2>1
  <2> QED
    BY <2>2 DEF FromLeaf
<1> QED
  BY <1>1, <1>2

\* A DomainData without a date or a certificate identity had none to show.
LEMMA InfoHidesNothing ==
    ASSUME NEW d, NEW dc, NEW a \in Answers, NEW t
    PROVE  /\ Undated(Info(d, dc, a, t)) => \A r \in a.rdap : RegistrationDate(r) = {}
           /\ Uncertified(Info(d, dc, a, t)) =>
                 \A c \in a.cert : IssuerName(c) = {} /\ Classify(c.policies) = "Unknown"
<1>1. Undated(Info(d, dc, a, t)) => \A r \in a.rdap : RegistrationDate(r) = {}
  <2> DEFINE dates == UNION {RegistrationDate(r) : r \in a.rdap}
  <2>1. Info(d, dc, a, t).age = {AgeDays(day, t) : day \in dates}
    BY DEF Info
  <2> QED
    BY <2>1 DEF Undated
<1>2. ASSUME Uncertified(Info(d, dc, a, t)), NEW c \in a.cert
      PROVE  IssuerName(c) = {} /\ Classify(c.policies) = "Unknown"
  <2> DEFINE details == {FromLeaf(x) : x \in a.cert}
  <2>1. a.cert = {c}
    BY OptionIsSingle DEF Answers
  <2>2. details = {FromLeaf(c)}
    BY <2>1
  <2>3. /\ UNION {x.issuer : x \in details} = {}
        /\ (IF details = {} THEN "Unknown" ELSE (CHOOSE x \in details : TRUE).class) = "Unknown"
    BY <1>2 DEF Info, Uncertified
  <2> HIDE DEF details
  <2>4. FromLeaf(c).issuer = {} /\ FromLeaf(c).class = "Unknown"
    BY <2>2, <2>3
  <2> QED
    BY <2>4 DEF FromLeaf
<1> QED
  BY <1>1, <1>2
=============================================================================
