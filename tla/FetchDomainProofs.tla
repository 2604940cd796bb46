--------------------------- MODULE FetchDomainProofs --------------------------
(***************************************************************************)
(* Proofs about FetchDomain, for any addresses, certificates, RDAP         *)
(* documents and clocks: a fetch is atomic to its caller, and what it      *)
(* reads out of the answers is in them.                                    *)
(***************************************************************************)
EXTENDS FetchDomain, EvidenceProofs

USE PinnedAssumption, SimilarAssumption, EvidenceAssumption, FetchAssumption

(***************************************************************************)
(* One probe's answer.                                                     *)
(***************************************************************************)

LEMMA LookupASNType ==
    ASSUME NEW endpoint \in Option(Addrs)
    PROVE  /\ LookupASN(endpoint) \subseteq Option(ASN)
           /\ {} \in LookupASN(endpoint)
  BY DEF LookupASN, Option

LEMMA CheckFields ==
    ASSUME NEW c \in DomainCheck
    PROVE  c.systemAddrs \in Option(Addrs) /\ c.publicAddrs \in Option(Addrs)
  BY DEF DomainCheck

\* The field a probe writes is its own, and holds one of its answers.
LEMMA AnswerWritten ==
    ASSUME NEW a \in Answers, NEW c \in DomainCheck, NEW probe \in Probe,
           NEW b \in AnswersAfter(a, probe, c)
    PROVE  /\ b \in Answers
           /\ probe # "rdap" => b.rdap = a.rdap
           /\ probe # "tls" => b.cert = a.cert
           /\ probe \notin {"sysPath", "bothPaths"} => b.sysCert = a.sysCert
           /\ probe \notin {"pubPath", "bothPaths"} => b.pubCert = a.pubCert
           /\ probe = "bothPaths" => b.sysCert = b.pubCert
           /\ probe # "sysASN" => b.sysASN = a.sysASN
           /\ probe # "pubASN" => b.pubASN = a.pubASN
           /\ probe = "sysASN" => b.sysASN \in LookupASN(c.systemAddrs)
           /\ probe = "pubASN" => b.pubASN \in LookupASN(c.publicAddrs)
<1> USE CheckFields, LookupASNType DEF Answers
<1>1. CASE probe = "rdap"
  <2>1. PICK r \in Option(RdapAnswers) : b = [a EXCEPT !.rdap = r]
    BY <1>1 DEF AnswersAfter
  <2> QED
    BY <1>1, <2>1
<1>2. CASE probe = "tls"
  <2>1. PICK x \in Option(Leaves) : b = [a EXCEPT !.cert = x]
    BY <1>2 DEF AnswersAfter
  <2> QED
    BY <1>2, <2>1
<1>3. CASE probe = "sysPath"
  <2>1. PICK x \in Option(Leaves) : b = [a EXCEPT !.sysCert = x]
    BY <1>3 DEF AnswersAfter
  <2> QED
    BY <1>3, <2>1
<1>4. CASE probe = "pubPath"
  <2>1. PICK x \in Option(Leaves) : b = [a EXCEPT !.pubCert = x]
    BY <1>4 DEF AnswersAfter
  <2> QED
    BY <1>4, <2>1
<1>5. CASE probe = "bothPaths"
  <2>1. PICK x \in Option(Leaves) : b = [a EXCEPT !.sysCert = x, !.pubCert = x]
    BY <1>5 DEF AnswersAfter
  <2> QED
    BY <1>5, <2>1
<1>6. CASE probe = "sysASN"
  <2>1. PICK n \in LookupASN(c.systemAddrs) : b = [a EXCEPT !.sysASN = n]
    BY <1>6 DEF AnswersAfter
  <2>2. n \in Option(ASN)
    OBVIOUS
  <2> QED
    BY <1>6, <2>1, <2>2
<1>7. CASE probe = "pubASN"
  <2>1. PICK n \in LookupASN(c.publicAddrs) : b = [a EXCEPT !.pubASN = n]
    BY <1>7 DEF AnswersAfter
  <2>2. n \in Option(ASN)
    OBVIOUS
  <2> QED
    BY <1>7, <2>1, <2>2
<1> QED
  BY <1>1, <1>2, <1>3, <1>4, <1>5, <1>6, <1>7 DEF Probe

-----------------------------------------------------------------------------
(***************************************************************************)
(* The inductive invariant.  FetchIsAtomic speaks of the end only; that    *)
(* the answers could be those of an atomic fetch holds all along, with     *)
(* every probe that has not returned taken for one that failed.            *)
(***************************************************************************)
IInv == TypeOK /\ ans \in AnswersTo(dc) /\ FetchIsAtomic

LEMMA InitEstablishes == Init => IInv
<1> SUFFICES ASSUME Init PROVE IInv
  OBVIOUS
<1>1. dc \in DomainCheck /\ now \in Clock /\ domain \in Domain
  BY DEF Init
<1>2. NoAnswers \in AnswersTo(dc)
  BY <1>1, CheckFields, LookupASNType DEF NoAnswers, AnswersTo, Answers, Option
<1>3. ans = NoAnswers /\ info = {} /\ running = ProbesFor(dc) /\ now \in Clocks
  BY DEF Init
<1>4. TypeOK
  BY <1>1, <1>2, <1>3 DEF TypeOK, AnswersTo, NoAnswers, Option
<1> QED
  BY <1>2, <1>3, <1>4 DEF IInv, FetchIsAtomic

LEMMA FinishStep ==
    ASSUME IInv, NEW probe \in Probe, Finish(probe)
    PROVE  IInv'
<1>1. /\ probe \in running /\ running' = running \ {probe}
      /\ domain' = domain /\ dc' = dc /\ now' = now /\ info' = info
      /\ ans' \in AnswersAfter(ans, probe, dc)
  BY DEF Finish, args
<1>2. ans \in Answers /\ dc \in DomainCheck /\ running \subseteq ProbesFor(dc)
  BY DEF IInv, TypeOK
<1>3. info = {}
  BY <1>1 DEF IInv, TypeOK
<1> DEFINE a == ans'
<1>4. TypeOK'
  <2>1. "bothPaths" \in running => running \intersect {"sysPath", "pubPath"} = {}
    BY <1>2 DEF ProbesFor
  <2>2. a \in Answers
    BY <1>1, <1>2, AnswerWritten
  <2>3. /\ "rdap" \in running' => a.rdap = {}
        /\ "tls" \in running' => a.cert = {}
        /\ "sysPath" \in running' => a.sysCert = {}
        /\ "pubPath" \in running' => a.pubCert = {}
        /\ "bothPaths" \in running' => a.sysCert = {} /\ a.pubCert = {}
        /\ "sysASN" \in running' => a.sysASN = {}
        /\ "pubASN" \in running' => a.pubASN = {}
    BY <1>1, <1>2, <2>1, AnswerWritten DEF IInv, TypeOK
  <2> QED
    BY <1>1, <1>2, <1>3, <2>2, <2>3 DEF IInv, TypeOK
<1>5. ans' \in AnswersTo(dc)
  <2>1. probe \in ProbesFor(dc)
    BY <1>1, <1>2
  <2>2. ~TwoPaths(dc) => probe \in {"rdap", "tls"}
    BY <2>1 DEF ProbesFor
  <2>3. "bothPaths" \in ProbesFor(dc) => probe \notin {"sysPath", "pubPath"}
    BY <2>1 DEF ProbesFor
  <2> QED
    BY <1>1, <1>2, <2>2, <2>3, AnswerWritten DEF IInv, AnswersTo
<1> QED
  BY <1>1, <1>3, <1>4, <1>5 DEF IInv, FetchIsAtomic

LEMMA JoinStep ==
    ASSUME IInv, Join
    PROVE  IInv'
<1>1. /\ running = {} /\ info' = {Info(domain, dc, ans, now)}
      /\ domain' = domain /\ dc' = dc /\ now' = now /\ running' = running /\ ans' = ans
  BY DEF Join, args
<1>2. info' \in Option(DomainData)
  BY <1>1, InfoType, OptionOfOne DEF IInv, TypeOK
<1>3. TypeOK'
  BY <1>1, <1>2 DEF IInv, TypeOK
<1> QED
  BY <1>1, <1>3 DEF IInv, FetchIsAtomic

LEMMA StutterStep ==
    ASSUME IInv, UNCHANGED vars
    PROVE  IInv'
  BY DEF IInv, TypeOK, FetchIsAtomic, vars, args

LEMMA Invariance == Spec => []IInv
<1>1. IInv /\ [Next]_vars => IInv'
  BY FinishStep, JoinStep, StutterStep DEF Next, Returned
<1> QED
  BY <1>1, InitEstablishes, PTL DEF Spec

-----------------------------------------------------------------------------
(***************************************************************************)
(* What is read out of the answers.                                        *)
(***************************************************************************)

\* The hours a local midnight is off UTC cost at most one day of the age.
LEMMA HoursWithinADay ==
    ASSUME NEW days \in Int, NEW zone \in -12 .. 14, NEW age \in Int,
           LET hours == 24 * days - zone
           IN  age = IF hours >= 0 THEN hours \div 24 ELSE -((-hours) \div 24)
    PROVE  IF days >= 0 THEN age >= 0 /\ age \in {days - 1, days}
                        ELSE age \in {days, days + 1}
<1>1. CASE days >= 0
  BY <1>1
<1>2. CASE days < 0
  BY <1>2
<1> QED
  BY <1>1, <1>2

LEMMA AgeWithinADay ==
    ASSUME NEW day \in Int, NEW t \in Clock
    PROVE  LET days == t.today - day
               age == AgeDays(day, t)
           IN  IF days >= 0 THEN age >= 0 /\ age \in {days - 1, days}
                            ELSE age \in {days, days + 1}
<1> DEFINE days == t.today - day
           zone == t.zone
           age == AgeDays(day, t)
<1>1. days \in Int /\ zone \in -12 .. 14 /\ age \in Int
  BY AgeType DEF Clock
<1>2. age = IF 24 * days - zone >= 0 THEN (24 * days - zone) \div 24
            ELSE -((-(24 * days - zone)) \div 24)
  BY DEF AgeDays
<1>3. days = t.today - day /\ age = AgeDays(day, t)
  OBVIOUS
<1> HIDE DEF days, zone, age
<1>4. IF days >= 0 THEN age >= 0 /\ age \in {days - 1, days}
                   ELSE age \in {days, days + 1}
  BY <1>1, <1>2, HoursWithinADay
<1> QED
  BY <1>3, <1>4

\* The age comes from the day of a registration event of the answer.
LEMMA AgeIsOfAnEvent ==
    ASSUME NEW d, NEW c, NEW a \in Answers, NEW t, NEW age \in Info(d, c, a, t).age
    PROVE  \E r \in a.rdap : \E k \in DOMAIN r.events :
              /\ r.events[k].registration
              /\ \E day \in r.events[k].readable : day \in Int /\ age = AgeDays(day, t)
<1>1. Info(d, c, a, t).age = {AgeDays(x, t) : x \in UNION {RegistrationDate(r) : r \in a.rdap}}
  BY DEF Info
<1>2. PICK r \in a.rdap : \E x \in RegistrationDate(r) : age = AgeDays(x, t)
  BY <1>1
<1>3. PICK day \in RegistrationDate(r) : age = AgeDays(day, t)
  BY <1>2
<1> DEFINE dated == {k \in DOMAIN r.events : r.events[k].registration /\ r.events[k].given}
<1>4. PICK k \in FirstOf(dated) : day \in r.events[k].readable
  BY <1>3 DEF RegistrationDate
<1>5. k \in DOMAIN r.events /\ r.events[k].registration
  BY <1>4 DEF FirstOf
<1>6. r \in Response
  BY DEF Answers, Option
<1>7. RegistrationDate(r) \in Option(Int)
  BY <1>6, ResponseFields
<1>8. day \in Int
  BY <1>3, <1>7 DEF Option
<1> QED
  BY <1>3, <1>4, <1>5, <1>8

-----------------------------------------------------------------------------
(* The theorems.                                                           *)

\* No field of the shared result is written by two goroutines, and nothing is
\* read before all of them have returned.
THEOREM TypeCorrect == Spec => []TypeOK
<1>1. IInv => TypeOK
  BY DEF IInv
<1> QED
  BY <1>1, Invariance, PTL

\* In whatever order the probes return, the caller sees one atomic fetch.
THEOREM AtomicTheorem == Spec => []FetchIsAtomic
<1>1. IInv => FetchIsAtomic
  BY DEF IInv
<1> QED
  BY <1>1, Invariance, PTL

\* A path signal stands for two addresses with different identities, an AS
\* signal for two lookups that answered with different origins.
THEOREM DivergenceTheorem == Spec => []DivergenceIsReal
<1>1. IInv => DivergenceIsReal
  <2> SUFFICES ASSUME IInv, NEW i \in info
               PROVE  /\ divergent(i) =>
                           /\ dc.systemAddrs # {} /\ dc.publicAddrs # {}
                           /\ dc.systemAddrs # dc.publicAddrs
                           /\ \E s \in ans.sysCert, p \in ans.pubCert : FromLeaf(s) # FromLeaf(p)
                      /\ asnSplit(i) =>
                           \E s \in ans.sysASN, p \in ans.pubASN :
                               /\ s # p
                               /\ s \in OriginsOf(dc.systemAddrs) /\ p \in OriginsOf(dc.publicAddrs)
    BY DEF DivergenceIsReal
  <2>1. ans \in AnswersTo(dc) /\ ans \in Answers /\ i = Info(domain, dc, ans, now)
    BY DEF IInv, FetchIsAtomic, TypeOK
  <2>2. ASSUME divergent(i)
        PROVE  /\ dc.systemAddrs # {} /\ dc.publicAddrs # {}
               /\ dc.systemAddrs # dc.publicAddrs
               /\ \E s \in ans.sysCert, p \in ans.pubCert : FromLeaf(s) # FromLeaf(p)
    <3> DEFINE sys == {FromLeaf(c) : c \in ans.sysCert}
               pub == {FromLeaf(c) : c \in ans.pubCert}
    <3>1. TwoPaths(dc) /\ ans.sysCert # {} /\ ans.pubCert # {} /\ sys # pub
      BY <2>1, <2>2 DEF Info, divergent, ComparePaths
    <3>2. ans.sysCert # ans.pubCert
      BY <3>1
    <3>3. "bothPaths" \notin ProbesFor(dc)
      BY <2>1, <3>2 DEF AnswersTo
    <3>4. dc.systemAddrs # dc.publicAddrs
      BY <3>1, <3>3 DEF ProbesFor
    <3>5. PICK s \in ans.sysCert, p \in ans.pubCert : TRUE
      BY <3>1
    <3>6. ans.sysCert = {s} /\ ans.pubCert = {p}
      BY <2>1, <3>5, OptionIsSingle DEF Answers
    <3>7. FromLeaf(s) # FromLeaf(p)
      BY <3>1, <3>6
    <3> QED
      BY <3>1, <3>4, <3>5, <3>7 DEF TwoPaths
  <2>3. ASSUME asnSplit(i)
        PROVE  \E s \in ans.sysASN, p \in ans.pubASN :
                  /\ s # p
                  /\ s \in OriginsOf(dc.systemAddrs) /\ p \in OriginsOf(dc.publicAddrs)
    <3>1. ans.sysASN # {} /\ ans.pubASN # {} /\ ans.sysASN # ans.pubASN
      BY <2>1, <2>3 DEF Info, asnSplit, ASNChecked, ASNMatch
    <3>2. ans.sysASN \in LookupASN(dc.systemAddrs) /\ ans.pubASN \in LookupASN(dc.publicAddrs)
      BY <2>1 DEF AnswersTo
    <3>3. PICK s \in OriginsOf(dc.systemAddrs) : ans.sysASN = {s}
      BY <3>1, <3>2 DEF LookupASN, OriginsOf
    <3>4. PICK p \in OriginsOf(dc.publicAddrs) : ans.pubASN = {p}
      BY <3>1, <3>2 DEF LookupASN, OriginsOf
    <3> QED
      BY <3>1, <3>3, <3>4
  <2> QED
    BY <2>2, <2>3
<1> QED
  BY <1>1, Invariance, PTL

\* No order of events and no time zone makes a domain look older than it is.
THEOREM AgeTheorem == Spec => []AgeNeverOverstated
<1>1. IInv => AgeNeverOverstated
  <2> SUFFICES ASSUME IInv, NEW i \in info, NEW age \in i.age
               PROVE  \E r \in ans.rdap : \E k \in DOMAIN r.events :
                         /\ r.events[k].registration
                         /\ \E day \in r.events[k].readable :
                               LET days == now.today - day
                               IN  IF days >= 0 THEN age >= 0 /\ age \in {days - 1, days}
                                                ELSE age \in {days, days + 1}
    BY DEF AgeNeverOverstated
  <2>1. ans \in Answers /\ now \in Clock /\ i = Info(domain, dc, ans, now)
    BY DEF IInv, FetchIsAtomic, TypeOK
  <2>2. PICK r \in ans.rdap : \E k \in DOMAIN r.events :
           /\ r.events[k].registration
           /\ \E day \in r.events[k].readable : day \in Int /\ age = AgeDays(day, now)
    BY <2>1, AgeIsOfAnEvent
  <2>3. PICK k \in DOMAIN r.events, day \in Int :
           /\ r.events[k].registration
           /\ day \in r.events[k].readable
           /\ age = AgeDays(day, now)
    BY <2>2
  <2> QED
    BY <2>1, <2>2, <2>3, AgeWithinADay
<1> QED
  BY <1>1, Invariance, PTL

\* The verbose report and the findings accuse and clear a domain alike, as a
\* target and as a suspect.
THEOREM VerboseTheorem == Spec => []VerboseShowsWhatCounts
<1>1. ASSUME NEW i \in DomainData,
             i.pathComplete => i.pathChecked, i.asnChecked => i.pathChecked
      PROVE  LET shown   == writeDNS(i) \union writePaths(i)
                 noted   == noteDNS(i) \union notePathIntel(i)
                 charged == evidenceFindings(i, i) \union contextFindings(i, i)
             IN  /\ \A w \in Wordings : /\ w.line \in shown <=> w.note \in noted
                                        /\ w.line \in shown <=> w.charge \in charged
                 /\ "inconclusive" \in shown <=> "NOTE inconclusive" \in charged
  <2> DEFINE shown   == writeDNS(i) \union writePaths(i)
             noted   == noteDNS(i) \union notePathIntel(i)
             charged == evidenceFindings(i, i) \union contextFindings(i, i)
             half    == i.pathChecked /\ ~i.pathComplete
  <2>1. i.kind \in {"none", "suppression", "horizon", "ns"}
    BY DEF DomainData, SplitKind
  <2>2. /\ "TAMPERED" \in writeDNS(i) <=> tampered(i)
        /\ "detail" \in writeDNS(i) <=> i.kind = "horizon"
        /\ writeDNS(i) \subseteq {"consistent", "TAMPERED", "detail"}
    BY <2>1 DEF writeDNS, tampered
  <2>3. /\ "DIVERGENT" \in writePaths(i) <=> divergent(i)
        /\ "SPLIT" \in writePaths(i) <=> asnSplit(i)
        /\ "STATIC MAPPING" \in writePaths(i) <=> i.hostsHit
        /\ "inconclusive" \in writePaths(i) <=> half
        /\ writePaths(i) \intersect {"TAMPERED", "detail"} = {}
    BY <1>1 DEF writePaths, pathTLS, Say, divergent, asnSplit
  <2>4. /\ "NOTE tampering" \in noteDNS(i) <=> tampered(i)
        /\ "NOTE horizon" \in noteDNS(i) <=> i.kind = "horizon"
        /\ noteDNS(i) \subseteq {"NOTE tampering", "NOTE horizon"}
    BY DEF noteDNS, Say
  <2>5. /\ "NOTE redirection" \in notePathIntel(i) <=> divergent(i)
        /\ "NOTE asn" \in notePathIntel(i) <=> asnSplit(i)
        /\ "NOTE hosts" \in notePathIntel(i) <=> i.hostsHit
        /\ notePathIntel(i) \subseteq {"NOTE redirection", "NOTE asn", "NOTE hosts"}
    BY DEF notePathIntel, Say
  <2>6. /\ "TAMPERING" \in evidenceFindings(i, i) <=> tampered(i)
        /\ "REDIRECTION" \in evidenceFindings(i, i) <=> divergent(i)
        /\ "MISMATCH asn" \in evidenceFindings(i, i) <=> asnSplit(i)
        /\ "HIJACK" \in evidenceFindings(i, i) <=> i.hostsHit
        /\ evidenceFindings(i, i) \intersect {"NOTE suspect horizon", "NOTE inconclusive"} = {}
    BY DEF evidenceFindings, Say
  <2>7. /\ "NOTE suspect horizon" \in contextFindings(i, i) <=> i.kind = "horizon"
        /\ "NOTE inconclusive" \in contextFindings(i, i) <=> half
        /\ contextFindings(i, i)
              \intersect {"TAMPERING", "REDIRECTION", "MISMATCH asn", "HIJACK"} = {}
    BY <2>4, <2>5 DEF contextFindings, Say
  <2> HIDE DEF half
  <2>8. /\ "TAMPERED" \in shown <=> tampered(i)
        /\ "detail" \in shown <=> i.kind = "horizon"
        /\ "DIVERGENT" \in shown <=> divergent(i)
        /\ "SPLIT" \in shown <=> asnSplit(i)
        /\ "STATIC MAPPING" \in shown <=> i.hostsHit
        /\ "inconclusive" \in shown <=> half
    BY <2>2, <2>3
  <2>9. /\ "NOTE tampering" \in noted <=> tampered(i)
        /\ "NOTE horizon" \in noted <=> i.kind = "horizon"
        /\ "NOTE redirection" \in noted <=> divergent(i)
        /\ "NOTE asn" \in noted <=> asnSplit(i)
        /\ "NOTE hosts" \in noted <=> i.hostsHit
    BY <2>4, <2>5
  <2>10. /\ "TAMPERING" \in charged <=> tampered(i)
         /\ "NOTE suspect horizon" \in charged <=> i.kind = "horizon"
         /\ "REDIRECTION" \in charged <=> divergent(i)
         /\ "MISMATCH asn" \in charged <=> asnSplit(i)
         /\ "HIJACK" \in charged <=> i.hostsHit
         /\ "NOTE inconclusive" \in charged <=> half
    BY <2>6, <2>7
  <2> HIDE DEF shown, noted, charged
  <2>11. \A w \in Wordings : /\ w.line \in shown <=> w.note \in noted
                             /\ w.line \in shown <=> w.charge \in charged
    <3> SUFFICES ASSUME NEW w \in Wordings
                 PROVE  /\ w.line \in shown <=> w.note \in noted
                        /\ w.line \in shown <=> w.charge \in charged
      OBVIOUS
    <3>1. CASE w = [line |-> "TAMPERED", note |-> "NOTE tampering", charge |-> "TAMPERING"]
      <4>1. w.line = "TAMPERED" /\ w.note = "NOTE tampering" /\ w.charge = "TAMPERING"
        BY <3>1
      <4> QED
        BY <2>8, <2>9, <2>10, <4>1, Zenon
    <3>2. CASE w = [line |-> "detail", note |-> "NOTE horizon", charge |-> "NOTE suspect horizon"]
      <4>1. w.line = "detail" /\ w.note = "NOTE horizon" /\ w.charge = "NOTE suspect horizon"
        BY <3>2
      <4> QED
        BY <2>8, <2>9, <2>10, <4>1, Zenon
    <3>3. CASE w = [line |-> "DIVERGENT", note |-> "NOTE redirection", charge |-> "REDIRECTION"]
      <4>1. w.line = "DIVERGENT" /\ w.note = "NOTE redirection" /\ w.charge = "REDIRECTION"
        BY <3>3
      <4> QED
        BY <2>8, <2>9, <2>10, <4>1, Zenon
    <3>4. CASE w = [line |-> "SPLIT", note |-> "NOTE asn", charge |-> "MISMATCH asn"]
      <4>1. w.line = "SPLIT" /\ w.note = "NOTE asn" /\ w.charge = "MISMATCH asn"
        BY <3>4
      <4> QED
        BY <2>8, <2>9, <2>10, <4>1, Zenon
    <3>5. CASE w = [line |-> "STATIC MAPPING", note |-> "NOTE hosts", charge |-> "HIJACK"]
      <4>1. w.line = "STATIC MAPPING" /\ w.note = "NOTE hosts" /\ w.charge = "HIJACK"
        BY <3>5
      <4> QED
        BY <2>8, <2>9, <2>10, <4>1, Zenon
    <3> QED
      BY <3>1, <3>2, <3>3, <3>4, <3>5 DEF Wordings
  <2>12. "inconclusive" \in shown <=> "NOTE inconclusive" \in charged
    BY <2>8, <2>10
  <2> QED
    BY <2>11, <2>12 DEF shown, noted, charged
<1>2. IInv => VerboseShowsWhatCounts
  <2> SUFFICES ASSUME IInv PROVE VerboseShowsWhatCounts
    OBVIOUS
  <2>1. ASSUME NEW i \in info
        PROVE  /\ i \in DomainData
               /\ i.pathComplete => i.pathChecked
               /\ i.asnChecked => i.pathChecked
    <3>1. info \subseteq DomainData /\ i = Info(domain, dc, ans, now)
      BY DEF IInv, FetchIsAtomic, TypeOK, Option
    <3>2. /\ i.pathChecked = TwoPaths(dc)
          /\ i.pathComplete => TwoPaths(dc)
          /\ i.asnChecked => TwoPaths(dc)
      BY <3>1 DEF Info
    <3> QED
      BY <3>1, <3>2
  <2> QED
    BY <1>1, <2>1 DEF VerboseShowsWhatCounts
<1> QED
  BY <1>2, Invariance, PTL
=============================================================================
