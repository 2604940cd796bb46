-------------------------------- MODULE Score --------------------------------
(***************************************************************************)
(* internal/score as functions: what is known of one domain (DomainData),  *)
(* the fail-closed quality check, and Score itself: the points, the        *)
(* findings, the relationship and the verdict of a target/suspect pair.    *)
(* Points and findings are kept apart, as the code keeps r.Score and       *)
(* r.Findings apart.  An unknown value is {}, a known one a singleton.     *)
(***************************************************************************)
EXTENDS Resolvers, Integers

CONSTANTS
    Domain,     \* domain names, already normalised
    Issuer,     \* certificate issuers
    Registrar,  \* registrars, equal up to case
    Policy,     \* DMARC policies
    Similar     \* the pairs of domains whose root labels look alike

ASSUME SimilarAssumption == Similar \subseteq Domain \X Domain

Class == {"EV", "OV", "IV", "DV", "Unknown"}

\* A registration date counts by the age it gives, and only when AgeDays can
\* read it; sans is the set of domains the certificate covers, wildcards
\* expanded; kind stands for DNSSplit, DNSTampered and DNSDetail together.
DomainData ==
    [domain : Domain, age : Option(Int), registrar : Option(Registrar),
     issuer : Option(Issuer), class : Class, sans : SUBSET Domain,
     kind : SplitKind, hostsHit : BOOLEAN,
     sysIP : Option(Addrs), pubIP : Option(Addrs),
     pathChecked : BOOLEAN, pathComplete : BOOLEAN, pathMatch : BOOLEAN,
     asnChecked : BOOLEAN, asnMatch : BOOLEAN,
     spfChecked : BOOLEAN, spfAuthorized : BOOLEAN, dmarc : Option(Policy)]

Undated(d) == d.age = {}

\* Variant: an issuer without a validation class is no certificate either.
UncertifiedUnlessBoth(d) == d.issuer = {} \/ d.class = "Unknown"

Uncertified(d) == d.issuer = {} /\ d.class = "Unknown"

\* Variant: the suspect's checks are copies of the target's.
VerifyDataQualityOfTarget(target, suspect) ==
    IF Undated(target) THEN "target date"
    ELSE IF Uncertified(target) THEN "target certificate"
    ELSE "none"

\* The first complaint, in the order the code looks for one.
VerifyDataQuality(target, suspect) ==
    IF Undated(target) THEN "target date"
    ELSE IF Undated(suspect) THEN "suspect date"
    ELSE IF Uncertified(target) THEN "target certificate"
    ELSE IF Uncertified(suspect) THEN "suspect certificate"
    ELSE "none"

-----------------------------------------------------------------------------
(* The signals.                                                            *)

identical(target, suspect) == target.domain = suspect.domain

isDowngrade(target, suspect) ==
    target.class \in {"EV", "OV"} /\ suspect.class = "DV"

registrarMismatch(target, suspect) ==
    /\ target.registrar # {} /\ suspect.registrar # {}
    /\ target.registrar # suspect.registrar

stacked(target, suspect) ==
    registrarMismatch(target, suspect) \/ isDowngrade(target, suspect)

sansOverlap(target, suspect) ==
    target.domain \in suspect.sans \/ suspect.domain \in target.sans

spfEndorsed(suspect) == suspect.spfChecked /\ suspect.spfAuthorized

endorsed(target, suspect) ==
    sansOverlap(target, suspect) \/ spfEndorsed(suspect)

tampered(d) == d.kind \in {"suppression", "ns"}

\* Variant: a comparison that was started but not completed is a divergence.
divergentUnlessMatched(d) == d.pathChecked /\ ~d.pathMatch

divergent(d) == d.pathComplete /\ ~d.pathMatch
asnSplit(d) == d.asnChecked /\ ~d.asnMatch

youngerThan(d, days) == \E a \in d.age : a < days

ageTier(suspect) ==
    IF youngerThan(suspect, 30) THEN 80
    ELSE IF youngerThan(suspect, 90) THEN 40
    ELSE 0

\* Variant: the discount is taken from the corroborated tier.
agePointsSwapped(tier, isStacked, isEndorsed) ==
    LET points == IF isStacked THEN tier \div 2 ELSE tier
    IN  IF isEndorsed THEN points \div 2 ELSE points

\* Variant: company adds half a tier to the full one.
agePointsBoosted(tier, isStacked, isEndorsed) ==
    LET points == IF isStacked THEN tier + tier \div 2 ELSE tier
    IN  IF isEndorsed THEN points \div 2 ELSE points

\* Variant: endorsement counts as company that keeps the full tier.
agePointsUnhalved(tier, isStacked, isEndorsed) ==
    IF isStacked \/ isEndorsed THEN tier ELSE tier \div 2

agePoints(tier, isStacked, isEndorsed) ==
    LET points == IF isStacked THEN tier ELSE tier \div 2
    IN  IF isEndorsed THEN points \div 2 ELSE points

agePointsOf(target, suspect) ==
    agePoints(ageTier(suspect), stacked(target, suspect), endorsed(target, suspect))

chronologyInversion(target, suspect) ==
    youngerThan(target, 90) /\ \E a \in suspect.age : a >= 365

isIssuerNote(target, suspect) ==
    /\ target.issuer # {} /\ suspect.issuer # {}
    /\ target.issuer # suspect.issuer

sharedRegistrar(target, suspect) ==
    target.registrar # {} /\ target.registrar = suspect.registrar

-----------------------------------------------------------------------------
(* Points, relationship and verdict.                                       *)

When(condition, points) == IF condition THEN points ELSE 0

\* Variant: every sign of redirection is charged, whichever side shows it.
redirectionPointsEitherSide(target, suspect) ==
    When(suspect.hostsHit \/ target.hostsHit, 50)
    + When(divergent(suspect), 50) + When(asnSplit(suspect), 30)

redirectionPoints(target, suspect) ==
    When(suspect.hostsHit, 50)
    + When(divergent(suspect), 50) + When(asnSplit(suspect), 30)

Points(target, suspect) ==
    IF identical(target, suspect) THEN 0
    ELSE agePointsOf(target, suspect)
         + When(isDowngrade(target, suspect), 40)
         + When(registrarMismatch(target, suspect), 30)
         + When(tampered(suspect), 50)
         + redirectionPoints(target, suspect)

Verdict(score) ==
    IF score >= 51 THEN "PHISHING"
    ELSE IF score >= 40 THEN "SUSPICIOUS"
    ELSE IF score >= 15 THEN "MALICIOUS"
    ELSE "LEGITIMATE"

classifyRelationship(target, suspect) ==
    IF identical(target, suspect) THEN "identical"
    ELSE IF sansOverlap(target, suspect) THEN "san_endorsed"
    ELSE IF spfEndorsed(suspect) THEN "spf_endorsed"
    ELSE IF <<target.domain, suspect.domain>> \in Similar THEN "lookalike"
    ELSE "unrelated"

\* Variant: the override forgets the clean band.
finalVerdictOneBand(target, suspect) ==
    LET verdict == Verdict(Points(target, suspect))
    IN  IF /\ classifyRelationship(target, suspect) = "unrelated"
           /\ verdict = "MALICIOUS"
        THEN "UNRELATED"
        ELSE verdict

\* An unrelated pair in either of the two lower bands reads UNRELATED.
finalVerdict(target, suspect) ==
    LET verdict == Verdict(Points(target, suspect))
    IN  IF /\ classifyRelationship(target, suspect) = "unrelated"
           /\ verdict \in {"LEGITIMATE", "MALICIOUS"}
        THEN "UNRELATED"
        ELSE verdict

-----------------------------------------------------------------------------
(* The findings, as a set of tags: the wording is left out.                *)

Say(condition, tag) == IF condition THEN {tag} ELSE {}

\* ageFinding words the tier by the points that are left of it.
ageLevel(points) ==
    IF points >= 80 THEN "AGE HIGH"
    ELSE IF points >= 40 THEN "AGE ELEVATED"
    ELSE "AGE LOW"

noteDNS(d) ==
    Say(tampered(d), "NOTE tampering")
    \union Say(d.kind = "horizon", "NOTE horizon")

notePathIntel(d) ==
    Say(d.hostsHit, "NOTE hosts")
    \union Say(divergent(d), "NOTE redirection")
    \union Say(asnSplit(d), "NOTE asn")

\* Variant: the downgrade is worded as an issuer note when issuers differ.
evidenceFindingsNoted(target, suspect) ==
    Say(isDowngrade(target, suspect) /\ ~isIssuerNote(target, suspect), "DOWNGRADE")
    \union Say(isIssuerNote(target, suspect), "NOTE issuer")
    \union Say(registrarMismatch(target, suspect), "MISMATCH registrar")
    \union Say(tampered(suspect), "TAMPERING")
    \union Say(suspect.hostsHit, "HIJACK")
    \union Say(divergent(suspect), "REDIRECTION")
    \union Say(asnSplit(suspect), "MISMATCH asn")

evidenceFindings(target, suspect) ==
    Say(isDowngrade(target, suspect), "DOWNGRADE")
    \union Say(~isDowngrade(target, suspect) /\ isIssuerNote(target, suspect), "NOTE issuer")
    \union Say(registrarMismatch(target, suspect), "MISMATCH registrar")
    \union Say(tampered(suspect), "TAMPERING")
    \union Say(suspect.hostsHit, "HIJACK")
    \union Say(divergent(suspect), "REDIRECTION")
    \union Say(asnSplit(suspect), "MISMATCH asn")

contextFindings(target, suspect) ==
    Say(chronologyInversion(target, suspect), "CHRONOLOGY")
    \union Say(sharedRegistrar(target, suspect), "NOTE registrar")
    \union Say(target.dmarc # {}, "NOTE DMARC")
    \union Say(suspect.kind = "horizon", "NOTE suspect horizon")
    \union Say(suspect.pathChecked /\ ~suspect.pathComplete, "NOTE inconclusive")
    \union noteDNS(target) \union notePathIntel(target)

Findings(target, suspect) ==
    IF identical(target, suspect)
    THEN {"INFO identical"}
         \union noteDNS(target) \union notePathIntel(target)
         \union (IF suspect.kind # target.kind THEN noteDNS(suspect) ELSE {})
    ELSE Say(ageTier(suspect) > 0, ageLevel(agePointsOf(target, suspect)))
         \union evidenceFindings(target, suspect)
         \union contextFindings(target, suspect)
         \union Say(finalVerdict(target, suspect) = "UNRELATED", "NO AUTHORITY")
         \union Say(finalVerdict(target, suspect) = "MALICIOUS", "EXPLANATION")

Score(target, suspect) ==
    [score        |-> Points(target, suspect),
     findings     |-> Findings(target, suspect),
     verdict      |-> finalVerdict(target, suspect),
     relationship |-> classifyRelationship(target, suspect)]
=============================================================================
