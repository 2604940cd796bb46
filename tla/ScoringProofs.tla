---------------------------- MODULE ScoringProofs ----------------------------
(***************************************************************************)
(* Proofs about Scoring: what Score promises for every target and suspect, *)
(* whatever the domains, issuers and registrars are.                       *)
(***************************************************************************)
EXTENDS Scoring, TLAPS

USE ArgumentsAssumption

(***************************************************************************)
(* The inductive invariant: a result is Score of the arguments.            *)
(***************************************************************************)
IInv ==
    /\ target \in Targets
    /\ suspect \in Suspects
    /\ result \subseteq {Score(target, suspect)}

LEMMA Invariance == Spec => []IInv
<1>1. Init => IInv
  BY DEF Init, IInv
<1>2. IInv /\ [Next]_vars => IInv'
  <2> SUFFICES ASSUME IInv, [Next]_vars PROVE IInv'
    OBVIOUS
  <2>1. target' = target /\ suspect' = suspect
    BY DEF Next, Evaluate, Returned, vars
  <2>2. result' = result \/ result' = {Score(target, suspect)}
    BY DEF Next, Evaluate, Returned, vars
  <2> HIDE DEF Score
  <2>3. Score(target, suspect) = Score(target, suspect)'
    BY <2>1
  <2> QED
    BY <2>1, <2>2, <2>3 DEF IInv
<1> QED
  BY <1>1, <1>2, PTL DEF Spec

-----------------------------------------------------------------------------
(***************************************************************************)
(* The parts of a score.                                                   *)
(***************************************************************************)

\* What is left of the age tier, by what was taken off.
LEMMA AgePointsRange ==
    ASSUME NEW t, NEW s
    PROVE  agePointsOf(t, s) \in {0, 10, 20, 40, 80}
<1>1. ageTier(s) \in {0, 40, 80}
  BY DEF ageTier
<1> HIDE DEF ageTier
<1> QED
  BY <1>1 DEF agePointsOf, agePoints

\* A conditional weight is the weight or nothing.
LEMMA WhenRange ==
    ASSUME NEW c, NEW p \in Nat
    PROVE  When(c, p) \in 0 .. p
  BY DEF When

LEMMA PointsRange ==
    ASSUME NEW t, NEW s
    PROVE  Points(t, s) \in 0 .. 330
<1> DEFINE age == agePointsOf(t, s)
           downgrade == When(isDowngrade(t, s), 40)
           registrar == When(registrarMismatch(t, s), 30)
           tampering == When(tampered(s), 50)
           hosts == When(s.hostsHit, 50)
           path == When(divergent(s), 50)
           asn == When(asnSplit(s), 30)
<1>1. age \in 0 .. 80
  BY AgePointsRange
<1>2. /\ downgrade \in 0 .. 40 /\ registrar \in 0 .. 30 /\ tampering \in 0 .. 50
      /\ hosts \in 0 .. 50 /\ path \in 0 .. 50 /\ asn \in 0 .. 30
  BY WhenRange
<1>3. Points(t, s) =
        IF identical(t, s) THEN 0
        ELSE age + downgrade + registrar + tampering + (hosts + path + asn)
  BY DEF Points, redirectionPoints
<1> HIDE DEF age, downgrade, registrar, tampering, hosts, path, asn
<1>4. age + downgrade + registrar + tampering + (hosts + path + asn) \in 0 .. 330
  BY <1>1, <1>2
<1> QED
  BY <1>3, <1>4

\* An unrelated pair never keeps the clean verdict.
LEMMA CleanIsRelated ==
    ASSUME NEW t, NEW s, finalVerdict(t, s) = "LEGITIMATE"
    PROVE  classifyRelationship(t, s) # "unrelated"
  BY DEF finalVerdict

\* The answer rests on the signals alone: who shows them is all it reads.
LEMMA SameSignals ==
    ASSUME NEW t, NEW s, NEW t2, NEW s2,
           t2.domain = t.domain, s2.domain = s.domain,
           ageTier(s2) = ageTier(s),
           isDowngrade(t2, s2) <=> isDowngrade(t, s),
           registrarMismatch(t2, s2) <=> registrarMismatch(t, s),
           sansOverlap(t2, s2) <=> sansOverlap(t, s),
           spfEndorsed(s2) <=> spfEndorsed(s),
           tampered(s2) <=> tampered(s),
           s2.hostsHit <=> s.hostsHit,
           divergent(s2) <=> divergent(s),
           asnSplit(s2) <=> asnSplit(s)
    PROVE  /\ Score(t2, s2).score = Score(t, s).score
           /\ Score(t2, s2).verdict = Score(t, s).verdict
           /\ Score(t2, s2).relationship = Score(t, s).relationship
<1>1. identical(t2, s2) <=> identical(t, s)
  BY DEF identical
<1>2. agePointsOf(t2, s2) = agePointsOf(t, s)
  BY DEF agePointsOf, agePoints, stacked, endorsed
<1>3. redirectionPoints(t2, s2) = redirectionPoints(t, s)
  BY DEF redirectionPoints, When
<1>4. Points(t2, s2) = Points(t, s)
  BY <1>1, <1>2, <1>3 DEF Points, When
<1>5. classifyRelationship(t2, s2) = classifyRelationship(t, s)
  BY <1>1 DEF classifyRelationship
<1>6. finalVerdict(t2, s2) = finalVerdict(t, s)
  BY <1>4, <1>5 DEF finalVerdict
<1> QED
  BY <1>4, <1>5, <1>6 DEF Score

\* A suspect with a younger domain, more signals and fewer friends.
LEMMA MoreSignals ==
    ASSUME NEW t, NEW s, NEW w, w.domain = s.domain,
           ageTier(w) >= ageTier(s),
           isDowngrade(t, s) => isDowngrade(t, w),
           registrarMismatch(t, s) => registrarMismatch(t, w),
           endorsed(t, w) => endorsed(t, s),
           tampered(s) => tampered(w),
           s.hostsHit => w.hostsHit,
           divergent(s) => divergent(w),
           asnSplit(s) => asnSplit(w)
    PROVE  Points(t, w) >= Points(t, s)
<1>1. ASSUME NEW p, NEW q, NEW n \in Nat, p => q
      PROVE  When(q, n) >= When(p, n) /\ When(p, n) \in Nat /\ When(q, n) \in Nat
  BY <1>1 DEF When
<1>2. agePointsOf(t, w) >= agePointsOf(t, s)
  <2>1. ageTier(s) \in {0, 40, 80} /\ ageTier(w) \in {0, 40, 80}
    BY DEF ageTier
  <2>2. stacked(t, s) => stacked(t, w)
    BY DEF stacked
  <2> QED
    BY <2>1, <2>2 DEF agePointsOf, agePoints
<1>3. agePointsOf(t, w) \in Nat /\ agePointsOf(t, s) \in Nat
  BY AgePointsRange
<1>4. identical(t, w) <=> identical(t, s)
  BY DEF identical
<1> DEFINE rest(x) ==
             When(isDowngrade(t, x), 40) + When(registrarMismatch(t, x), 30)
             + When(tampered(x), 50)
             + (When(x.hostsHit, 50) + When(divergent(x), 50) + When(asnSplit(x), 30))
<1>5. rest(w) >= rest(s) /\ rest(w) \in Nat /\ rest(s) \in Nat
  <2>1. /\ When(isDowngrade(t, w), 40) >= When(isDowngrade(t, s), 40)
        /\ When(registrarMismatch(t, w), 30) >= When(registrarMismatch(t, s), 30)
        /\ When(tampered(w), 50) >= When(tampered(s), 50)
        /\ When(w.hostsHit, 50) >= When(s.hostsHit, 50)
        /\ When(divergent(w), 50) >= When(divergent(s), 50)
        /\ When(asnSplit(w), 30) >= When(asnSplit(s), 30)
    BY <1>1
  <2>2. \A x \in {s, w} :
          /\ When(isDowngrade(t, x), 40) \in Nat /\ When(registrarMismatch(t, x), 30) \in Nat
          /\ When(tampered(x), 50) \in Nat /\ When(x.hostsHit, 50) \in Nat
          /\ When(divergent(x), 50) \in Nat /\ When(asnSplit(x), 30) \in Nat
    BY DEF When
  <2> QED
    BY <2>1, <2>2
<1>6. \A x \in {s, w} : Points(t, x) = IF identical(t, x) THEN 0 ELSE agePointsOf(t, x) + rest(x)
  <2> SUFFICES ASSUME NEW x \in {s, w}
               PROVE  Points(t, x) = IF identical(t, x) THEN 0 ELSE agePointsOf(t, x) + rest(x)
    OBVIOUS
  <2>1. /\ When(isDowngrade(t, x), 40) \in Nat /\ When(registrarMismatch(t, x), 30) \in Nat
        /\ When(tampered(x), 50) \in Nat /\ When(x.hostsHit, 50) \in Nat
        /\ When(divergent(x), 50) \in Nat /\ When(asnSplit(x), 30) \in Nat
    BY DEF When
  <2>2. agePointsOf(t, x) \in Nat
    BY <1>3
  <2> QED
    BY <2>1, <2>2 DEF Points, redirectionPoints
<1> HIDE DEF rest
<1> QED
  BY <1>2, <1>3, <1>4, <1>5, <1>6

-----------------------------------------------------------------------------
(* The theorems.                                                           *)

\* No pair of domains can score outside the published scale.
THEOREM ScaleTheorem == Spec => []WithinScale
<1>1. IInv => WithinScale
  <2> SUFFICES ASSUME IInv, NEW r \in result PROVE r.score \in 0 .. 330
    BY DEF WithinScale, MaxTotal
  <2>1. r.score = Points(target, suspect)
    BY DEF IInv, Score
  <2> QED
    BY <2>1, PointsRange
<1> QED
  BY <1>1, Invariance, PTL

\* LIKELY LEGITIMATE needs a tie between the two domains.
THEOREM TieTheorem == Spec => []LegitimateNeedsATie
<1>1. IInv => LegitimateNeedsATie
  <2> SUFFICES ASSUME IInv, NEW r \in result, r.verdict = "LEGITIMATE"
               PROVE  \/ target.domain = suspect.domain
                      \/ target.domain \in suspect.sans \/ suspect.domain \in target.sans
                      \/ suspect.spfAuthorized
                      \/ <<target.domain, suspect.domain>> \in Similar
    BY DEF LegitimateNeedsATie
  <2>1. finalVerdict(target, suspect) = "LEGITIMATE"
    BY DEF IInv, Score
  <2>2. classifyRelationship(target, suspect) # "unrelated"
    BY <2>1, CleanIsRelated
  <2> QED
    BY <2>2 DEF classifyRelationship, identical, sansOverlap, spfEndorsed
<1> QED
  BY <1>1, Invariance, PTL

\* Nothing the observer's network shows of the target moves score, verdict or
\* relationship.
THEOREM TargetTroubleTheorem == Spec => []TargetTroubleNeverScores
<1>1. IInv => TargetTroubleNeverScores
  <2> SUFFICES ASSUME IInv, NEW r \in result
               PROVE  /\ Score(Untroubled(target), suspect).score = r.score
                      /\ Score(Untroubled(target), suspect).verdict = r.verdict
                      /\ Score(Untroubled(target), suspect).relationship = r.relationship
    BY DEF TargetTroubleNeverScores
  <2>1. PICK calm : calm = Untroubled(target)
    OBVIOUS
  <2>2. /\ calm.domain = target.domain /\ calm.registrar = target.registrar
        /\ calm.class = target.class /\ calm.sans = target.sans
    BY <2>1 DEF IInv, Untroubled, DomainData
  <2>3. /\ isDowngrade(calm, suspect) <=> isDowngrade(target, suspect)
        /\ registrarMismatch(calm, suspect) <=> registrarMismatch(target, suspect)
        /\ sansOverlap(calm, suspect) <=> sansOverlap(target, suspect)
    BY <2>2 DEF isDowngrade, registrarMismatch, sansOverlap
  <2>4. r = Score(target, suspect)
    BY DEF IInv
  <2> QED
    BY <2>1, <2>2, <2>3, <2>4, SameSignals
<1> QED
  BY <1>1, Invariance, PTL

\* A probe that failed, abstained or denied moves nothing.
THEOREM NeutralTheorem == Spec => []InconclusiveIsNeutral
<1>1. IInv => InconclusiveIsNeutral
  <2> SUFFICES ASSUME IInv, NEW r \in result
               PROVE  /\ Score(target, Decided(suspect)).score = r.score
                      /\ Score(target, Decided(suspect)).verdict = r.verdict
                      /\ Score(target, Decided(suspect)).relationship = r.relationship
    BY DEF InconclusiveIsNeutral
  <2>1. PICK d : d = Decided(suspect)
    OBVIOUS
  <2>2. /\ d.domain = suspect.domain /\ d.age = suspect.age
        /\ d.registrar = suspect.registrar /\ d.class = suspect.class
        /\ d.sans = suspect.sans /\ d.hostsHit = suspect.hostsHit
        /\ d.pathComplete = suspect.pathComplete /\ d.pathMatch = suspect.pathMatch
        /\ d.asnChecked = suspect.asnChecked
        /\ d.spfAuthorized = suspect.spfAuthorized
        /\ d.kind = IF suspect.kind = "horizon" THEN "none" ELSE suspect.kind
        /\ d.asnMatch <=> suspect.asnMatch /\ suspect.asnChecked
        /\ d.spfChecked <=> suspect.spfChecked /\ suspect.spfAuthorized
    BY <2>1 DEF IInv, Decided, DomainData
  <2>3. /\ isDowngrade(target, d) <=> isDowngrade(target, suspect)
        /\ registrarMismatch(target, d) <=> registrarMismatch(target, suspect)
        /\ sansOverlap(target, d) <=> sansOverlap(target, suspect)
        /\ spfEndorsed(d) <=> spfEndorsed(suspect)
        /\ tampered(d) <=> tampered(suspect)
        /\ divergent(d) <=> divergent(suspect)
        /\ asnSplit(d) <=> asnSplit(suspect)
        /\ ageTier(d) = ageTier(suspect)
    BY <2>2 DEF isDowngrade, registrarMismatch, sansOverlap, spfEndorsed, tampered, divergent,
       asnSplit, ageTier, youngerThan
  <2>4. r = Score(target, suspect)
    BY DEF IInv
  <2> QED
    BY <2>1, <2>2, <2>3, <2>4, SameSignals
<1> QED
  BY <1>1, Invariance, PTL

\* One more thing against the suspect never lowers its score.
THEOREM WorseTheorem == Spec => []WorseEvidenceNeverHelps
<1>1. IInv => WorseEvidenceNeverHelps
  <2> SUFFICES ASSUME IInv, NEW w \in Worse(suspect)
               PROVE  Points(target, w) >= Points(target, suspect)
    BY DEF WorseEvidenceNeverHelps, IInv, Score
  <2>1. suspect \in DomainData /\ target \in DomainData
    BY DEF IInv
  <2>2. ASSUME w \in {[suspect EXCEPT !.kind = "ns"], [suspect EXCEPT !.hostsHit = TRUE],
                      [suspect EXCEPT !.pathChecked = TRUE, !.pathComplete = TRUE, !.pathMatch = FALSE],
                      [suspect EXCEPT !.asnChecked = TRUE, !.asnMatch = FALSE]}
        PROVE  Points(target, w) >= Points(target, suspect)
    <3>1. /\ w.domain = suspect.domain /\ w.age = suspect.age
          /\ w.registrar = suspect.registrar /\ w.class = suspect.class
          /\ w.sans = suspect.sans
          /\ w.spfChecked = suspect.spfChecked /\ w.spfAuthorized = suspect.spfAuthorized
          /\ w.kind \in {suspect.kind, "ns"} /\ (suspect.hostsHit => w.hostsHit)
      BY <2>1, <2>2 DEF DomainData
    <3>2. divergent(suspect) => divergent(w)
      BY <2>1, <2>2 DEF DomainData, divergent
    <3>3. asnSplit(suspect) => asnSplit(w)
      BY <2>1, <2>2 DEF DomainData, asnSplit
    <3>4. ageTier(w) = ageTier(suspect) /\ ageTier(w) \in Int
      BY <3>1 DEF ageTier, youngerThan
    <3>5. /\ isDowngrade(target, suspect) => isDowngrade(target, w)
          /\ registrarMismatch(target, suspect) => registrarMismatch(target, w)
          /\ tampered(suspect) => tampered(w)
          /\ endorsed(target, w) => endorsed(target, suspect)
      BY <3>1 DEF isDowngrade, registrarMismatch, tampered, endorsed, sansOverlap, spfEndorsed
    <3> QED
      BY <3>1, <3>2, <3>3, <3>4, <3>5, MoreSignals
  <2> USE DEF isDowngrade, registrarMismatch, sansOverlap, spfEndorsed, endorsed, tampered,
              divergent, asnSplit, ageTier, youngerThan
  <2>3. CASE w = [suspect EXCEPT !.class = IF target.class \in {"EV", "OV"} THEN "DV" ELSE @]
    BY <2>1, <2>3, MoreSignals DEF DomainData
  <2>4. ASSUME NEW a \in suspect.age, w = [suspect EXCEPT !.age = {a - 60}]
        PROVE  Points(target, w) >= Points(target, suspect)
    <3>1. suspect.age = {a} /\ a \in Int
      BY <2>1 DEF DomainData, Option
    <3>2. w.age = {a - 60}
      BY <2>1, <2>4 DEF DomainData
    <3>3. ageTier(w) >= ageTier(suspect)
      BY <3>1, <3>2
    <3> QED
      BY <2>1, <2>4, <3>3, MoreSignals DEF DomainData
  <2>5. ASSUME NEW g \in Registrar \ target.registrar,
               w = [suspect EXCEPT !.registrar = IF target.registrar = {} THEN @ ELSE {g}]
        PROVE  Points(target, w) >= Points(target, suspect)
    <3>1. w.registrar = IF target.registrar = {} THEN suspect.registrar ELSE {g}
      BY <2>1, <2>5 DEF DomainData
    <3>2. registrarMismatch(target, suspect) => registrarMismatch(target, w)
      BY <3>1
    <3> QED
      BY <2>1, <2>5, <3>2, MoreSignals DEF DomainData
  <2> QED
    BY <2>2, <2>3, <2>4, <2>5 DEF Worse
<1> QED
  BY <1>1, Invariance, PTL

\* Being vouched for never raises the score.
THEOREM EndorsementTheorem == Spec => []EndorsementNeverHurts
<1>1. IInv => EndorsementNeverHurts
  <2> SUFFICES ASSUME IInv, NEW r \in result
               PROVE  /\ Points(target, [suspect EXCEPT !.spfChecked = TRUE,
                                                        !.spfAuthorized = TRUE]) <= r.score
                      /\ Points(target, [suspect EXCEPT !.sans = @ \union {target.domain}])
                            <= r.score
    BY DEF EndorsementNeverHurts
  <2>1. suspect \in DomainData
    BY DEF IInv
  <2>2. ASSUME NEW v, v \in {[suspect EXCEPT !.spfChecked = TRUE, !.spfAuthorized = TRUE],
                             [suspect EXCEPT !.sans = @ \union {target.domain}]}
        PROVE  Points(target, suspect) >= Points(target, v)
    <3>1. /\ v.domain = suspect.domain /\ v.age = suspect.age
          /\ v.registrar = suspect.registrar /\ v.class = suspect.class
          /\ v.kind = suspect.kind /\ v.hostsHit = suspect.hostsHit
          /\ v.pathComplete = suspect.pathComplete /\ v.pathMatch = suspect.pathMatch
          /\ v.asnChecked = suspect.asnChecked /\ v.asnMatch = suspect.asnMatch
      BY <2>1, <2>2 DEF DomainData
    <3>2. endorsed(target, v)
      BY <2>1, <2>2 DEF DomainData, endorsed, sansOverlap, spfEndorsed
    <3>3. ageTier(v) = ageTier(suspect) /\ ageTier(v) \in Int
      BY <3>1 DEF ageTier, youngerThan
    <3>4. /\ isDowngrade(target, v) => isDowngrade(target, suspect)
          /\ registrarMismatch(target, v) => registrarMismatch(target, suspect)
          /\ tampered(v) => tampered(suspect)
          /\ divergent(v) => divergent(suspect)
          /\ asnSplit(v) => asnSplit(suspect)
      BY <3>1 DEF isDowngrade, registrarMismatch, tampered, divergent, asnSplit
    <3> QED
      BY <3>1, <3>2, <3>3, <3>4, MoreSignals
  <2>3. r = Score(target, suspect)
    BY DEF IInv
  <2>4. r.score = Points(target, suspect)
    BY <2>3 DEF Score
  <2>5. \A x : Points(target, x) \in Int
    BY PointsRange
  <2> QED
    BY <2>2, <2>4, <2>5
<1> QED
  BY <1>1, Invariance, PTL

-----------------------------------------------------------------------------
(***************************************************************************)
(* The score and the findings are computed apart; that they tell the same  *)
(* is one fact per scored tag, and one for the age.                        *)
(***************************************************************************)

\* Two independent texts: a tag of the scale never comes from a note.
LEMMA NotesScoreNothing ==
    ASSUME NEW d,
           NEW tag \in {"TAMPERING", "HIJACK", "REDIRECTION", "DOWNGRADE", "MISMATCH registrar",
                        "MISMATCH asn", "AGE HIGH", "AGE ELEVATED", "AGE LOW"}
    PROVE  tag \notin noteDNS(d) /\ tag \notin notePathIntel(d)
  BY DEF noteDNS, notePathIntel, Say

LEMMA ScoredTags ==
    ASSUME NEW t, NEW s, ~identical(t, s)
    PROVE  LET findings == Findings(t, s)
           IN  /\ "TAMPERING" \in findings <=> tampered(s)
               /\ "HIJACK" \in findings <=> s.hostsHit
               /\ "REDIRECTION" \in findings <=> divergent(s)
               /\ "DOWNGRADE" \in findings <=> isDowngrade(t, s)
               /\ "MISMATCH registrar" \in findings <=> registrarMismatch(t, s)
               /\ "MISMATCH asn" \in findings <=> asnSplit(s)
<1> DEFINE scored == {"TAMPERING", "HIJACK", "REDIRECTION", "DOWNGRADE", "MISMATCH registrar",
                      "MISMATCH asn"}
           age == Say(ageTier(s) > 0, ageLevel(agePointsOf(t, s)))
<1>1. \A tag \in scored : tag \notin age
  BY DEF Say, ageLevel
<1>2. \A tag \in scored : tag \notin contextFindings(t, s)
  BY NotesScoreNothing DEF contextFindings, Say
<1>3. \A tag \in scored :
         /\ tag \notin Say(finalVerdict(t, s) = "UNRELATED", "NO AUTHORITY")
         /\ tag \notin Say(finalVerdict(t, s) = "MALICIOUS", "EXPLANATION")
  BY DEF Say
<1>4. \A tag \in scored : tag \in Findings(t, s) <=> tag \in evidenceFindings(t, s)
  <2> HIDE DEF scored, age
  <2> QED
    BY <1>1, <1>2, <1>3 DEF Findings, age
<1>5. /\ "TAMPERING" \in evidenceFindings(t, s) <=> tampered(s)
      /\ "HIJACK" \in evidenceFindings(t, s) <=> s.hostsHit
      /\ "REDIRECTION" \in evidenceFindings(t, s) <=> divergent(s)
      /\ "DOWNGRADE" \in evidenceFindings(t, s) <=> isDowngrade(t, s)
      /\ "MISMATCH registrar" \in evidenceFindings(t, s) <=> registrarMismatch(t, s)
      /\ "MISMATCH asn" \in evidenceFindings(t, s) <=> asnSplit(s)
  BY DEF evidenceFindings, Say
<1> QED
  BY <1>4, <1>5

\* The wording of the age finding goes by what is left of the tier.
LEMMA AgeTag ==
    ASSUME NEW t, NEW s, ~identical(t, s)
    PROVE  agePointsOf(t, s) \in AgeBand(Findings(t, s))
<1> DEFINE words == {"AGE HIGH", "AGE ELEVATED", "AGE LOW"}
           points == agePointsOf(t, s)
           age == Say(ageTier(s) > 0, ageLevel(points))
<1>1. \A tag \in words : tag \notin evidenceFindings(t, s)
  BY DEF evidenceFindings, Say
<1>2. \A tag \in words : tag \notin contextFindings(t, s)
  BY NotesScoreNothing DEF contextFindings, Say
<1>3. \A tag \in words :
         /\ tag \notin Say(finalVerdict(t, s) = "UNRELATED", "NO AUTHORITY")
         /\ tag \notin Say(finalVerdict(t, s) = "MALICIOUS", "EXPLANATION")
  BY DEF Say
<1>4. \A tag \in words : tag \in Findings(t, s) <=> tag \in age
  <2> HIDE DEF words, age
  <2> QED
    BY <1>1, <1>2, <1>3 DEF Findings, age, points
<1>5. points \in {0, 10, 20, 40, 80} /\ (ageTier(s) > 0 <=> points > 0)
  <2>1. ageTier(s) \in {0, 40, 80}
    BY DEF ageTier
  <2> HIDE DEF ageTier
  <2> QED
    BY <2>1 DEF agePointsOf, agePoints
<1> HIDE DEF points
<1>6. CASE points = 0
  <2>1. age = {}
    BY <1>5, <1>6 DEF Say
  <2> QED
    BY <1>4, <1>6, <2>1 DEF AgeBand, points
<1>7. CASE points > 0
  <2>1. age = {ageLevel(points)}
    BY <1>5, <1>7 DEF Say
  <2>2. /\ points = 80 => ageLevel(points) = "AGE HIGH"
        /\ points = 40 => ageLevel(points) = "AGE ELEVATED"
        /\ points \in {10, 20} => ageLevel(points) = "AGE LOW"
    BY DEF ageLevel
  <2>3. /\ "AGE HIGH" \in Findings(t, s) <=> ageLevel(points) = "AGE HIGH"
        /\ "AGE ELEVATED" \in Findings(t, s) <=> ageLevel(points) = "AGE ELEVATED"
        /\ "AGE LOW" \in Findings(t, s) <=> ageLevel(points) = "AGE LOW"
    BY <1>4, <2>1
  <2>4. points \in AgeBand(Findings(t, s))
    <3>1. CASE points = 80
      BY <2>2, <2>3, <3>1 DEF AgeBand
    <3>2. CASE points = 40
      BY <2>2, <2>3, <3>2 DEF AgeBand
    <3>3. CASE points \in {10, 20}
      <4>1. ageLevel(points) = "AGE LOW"
        BY <2>2, <3>3
      <4>2. AgeBand(Findings(t, s)) = {10, 20}
        BY <2>3, <4>1 DEF AgeBand
      <4> QED
        BY <3>3, <4>2
    <3> QED
      BY <1>5, <1>7, <3>1, <3>2, <3>3
  <2> QED
    BY <2>4 DEF points
<1> QED
  BY <1>5, <1>6, <1>7

\* No point is silent, no scored finding is free, and the verdict is the
\* published one.
THEOREM ExplainedTheorem == Spec => []ScoreIsExplained
<1>1. ASSUME NEW t, NEW s
      PROVE  Points(t, s) - PublishedPoints(Findings(t, s)) \in AgeBand(Findings(t, s))
  <2>1. CASE identical(t, s)
    <3> DEFINE scored == {"TAMPERING", "HIJACK", "REDIRECTION", "DOWNGRADE", "MISMATCH registrar",
                          "MISMATCH asn", "AGE HIGH", "AGE ELEVATED", "AGE LOW"}
    <3>1. ASSUME NEW tag \in scored PROVE tag \notin Findings(t, s)
      <4>1. /\ tag \notin noteDNS(t) /\ tag \notin notePathIntel(t) /\ tag \notin noteDNS(s)
            /\ tag # "INFO identical"
        BY NotesScoreNothing
      <4> HIDE DEF scored
      <4> QED
        BY <2>1, <4>1 DEF Findings
    <3>2. PublishedPoints(Findings(t, s)) = 0
      <4> DEFINE findings == Findings(t, s)
      <4>1. \A tag \in scored : tag \notin findings
        BY <3>1
      <4> HIDE DEF findings
      <4>2. /\ When("TAMPERING" \in findings, 50) = 0 /\ When("HIJACK" \in findings, 50) = 0
            /\ When("REDIRECTION" \in findings, 50) = 0 /\ When("DOWNGRADE" \in findings, 40) = 0
            /\ When("MISMATCH registrar" \in findings, 30) = 0
            /\ When("MISMATCH asn" \in findings, 30) = 0
        BY <4>1 DEF When
      <4>3. PublishedPoints(Findings(t, s)) = 0 + 0 + 0 + 0 + 0 + 0
        BY <4>2 DEF PublishedPoints, findings
      <4> QED
        BY <4>3
    <3>3. AgeBand(Findings(t, s)) = {0}
      BY <3>1 DEF AgeBand
    <3> QED
      BY <2>1, <3>2, <3>3 DEF Points
  <2>2. CASE ~identical(t, s)
    <3> DEFINE age == agePointsOf(t, s)
               published == PublishedPoints(Findings(t, s))
    <3>1. published =
             When(tampered(s), 50) + When(s.hostsHit, 50) + When(divergent(s), 50)
             + When(isDowngrade(t, s), 40) + When(registrarMismatch(t, s), 30)
             + When(asnSplit(s), 30)
      <4> DEFINE findings == Findings(t, s)
      <4>1. /\ "TAMPERING" \in findings <=> tampered(s)
            /\ "HIJACK" \in findings <=> s.hostsHit
            /\ "REDIRECTION" \in findings <=> divergent(s)
            /\ "DOWNGRADE" \in findings <=> isDowngrade(t, s)
            /\ "MISMATCH registrar" \in findings <=> registrarMismatch(t, s)
            /\ "MISMATCH asn" \in findings <=> asnSplit(s)
        BY <2>2, ScoredTags
      <4> HIDE DEF findings
      <4>2. /\ When("TAMPERING" \in findings, 50) = When(tampered(s), 50)
            /\ When("HIJACK" \in findings, 50) = When(s.hostsHit, 50)
            /\ When("REDIRECTION" \in findings, 50) = When(divergent(s), 50)
            /\ When("DOWNGRADE" \in findings, 40) = When(isDowngrade(t, s), 40)
            /\ When("MISMATCH registrar" \in findings, 30) = When(registrarMismatch(t, s), 30)
            /\ When("MISMATCH asn" \in findings, 30) = When(asnSplit(s), 30)
        BY <4>1 DEF When
      <4> QED
        BY <4>2 DEF PublishedPoints, findings
    <3>2. /\ When(tampered(s), 50) \in Nat /\ When(s.hostsHit, 50) \in Nat
          /\ When(divergent(s), 50) \in Nat /\ When(isDowngrade(t, s), 40) \in Nat
          /\ When(registrarMismatch(t, s), 30) \in Nat /\ When(asnSplit(s), 30) \in Nat
          /\ age \in Nat
      BY WhenRange, AgePointsRange
    <3>3. Points(t, s) =
             age + When(isDowngrade(t, s), 40) + When(registrarMismatch(t, s), 30)
             + When(tampered(s), 50)
             + (When(s.hostsHit, 50) + When(divergent(s), 50) + When(asnSplit(s), 30))
      BY <2>2 DEF Points, redirectionPoints
    <3> HIDE DEF age, published
    <3>4. Points(t, s) - published = age
      BY <3>1, <3>2, <3>3
    <3> QED
      BY <2>2, <3>4, AgeTag DEF age, published
  <2> QED
    BY <2>1, <2>2
<1>2. ASSUME NEW t, NEW s
      PROVE  finalVerdict(t, s)
               = PublishedVerdict(Points(t, s), classifyRelationship(t, s) = "unrelated")
  <2>1. Points(t, s) \in 0 .. 330
    BY PointsRange
  <2> QED
    BY <2>1 DEF finalVerdict, Verdict, PublishedVerdict, MaxTotal
<1>3. IInv => ScoreIsExplained
  <2> SUFFICES ASSUME IInv, NEW r \in result
               PROVE  /\ r.score - PublishedPoints(r.findings) \in AgeBand(r.findings)
                      /\ r.verdict = PublishedVerdict(r.score, r.relationship = "unrelated")
    BY DEF ScoreIsExplained
  <2>1. r = Score(target, suspect)
    BY DEF IInv
  <2>2. /\ r.score = Points(target, suspect) /\ r.findings = Findings(target, suspect)
        /\ r.verdict = finalVerdict(target, suspect)
        /\ r.relationship = classifyRelationship(target, suspect)
    BY <2>1 DEF Score
  <2> QED
    BY <1>1, <1>2, <2>2
<1> QED
  BY <1>3, Invariance, PTL
=============================================================================
