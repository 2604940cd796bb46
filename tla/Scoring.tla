------------------------------- MODULE Scoring -------------------------------
(***************************************************************************)
(* score.Score called on every pair of a set of targets and a set of       *)
(* suspects, and what its answer promises: about the pair itself, and      *)
(* about the answers for pairs that differ from it in one piece of         *)
(* evidence.                                                               *)
(***************************************************************************)
EXTENDS Report

CONSTANTS Targets, Suspects  \* the DomainData each argument ranges over

ASSUME ArgumentsAssumption ==
    Targets \subseteq DomainData /\ Suspects \subseteq DomainData

VARIABLES
    target, suspect,  \* the arguments
    result            \* what Score returned, absent until then

vars == <<target, suspect, result>>

Init ==
    /\ target \in Targets
    /\ suspect \in Suspects
    /\ result = {}

Evaluate ==
    /\ result = {}
    /\ result' = {Score(target, suspect)}
    /\ UNCHANGED <<target, suspect>>

Returned == result # {} /\ UNCHANGED vars

Next == Evaluate \/ Returned

Spec == Init /\ [][Next]_vars

-----------------------------------------------------------------------------
(* What the reader of a report relies on.                                  *)

\* The score is exactly what its own findings add up to by the published
\* scale, so no point is silent and no scored finding is free, and the verdict
\* is the published one for it.  (score.go:134-220, report.go:40-84)
ScoreIsExplained ==
    \A r \in result :
        /\ r.score - PublishedPoints(r.findings) \in AgeBand(r.findings)
        /\ r.verdict = PublishedVerdict(r.score, r.relationship = "unrelated")

\* A copy of d that shows no resolution trouble of its own.
Untroubled(d) ==
    [d EXCEPT !.kind = "none", !.hostsHit = FALSE,
              !.pathChecked = FALSE, !.pathComplete = FALSE, !.pathMatch = FALSE,
              !.asnChecked = FALSE, !.asnMatch = FALSE, !.dmarc = {}]

\* Resolution trouble on the target's side is the observer's, never held
\* against the suspect: score, verdict and relationship are those of an
\* untroubled target.  (score.go:176-179, 189-194)
TargetTroubleNeverScores ==
    \A r \in result :
        LET calm == Score(Untroubled(target), suspect)
        IN  /\ calm.score = r.score
            /\ calm.verdict = r.verdict
            /\ calm.relationship = r.relationship

\* The suspect with what is merely inconclusive about it taken out.
Decided(d) ==
    [d EXCEPT !.kind = IF @ = "horizon" THEN "none" ELSE @,
              !.pathChecked = @ /\ d.pathComplete,
              !.asnMatch = @ /\ d.asnChecked,
              !.spfChecked = @ /\ d.spfAuthorized]

\* A probe that failed, abstained or denied leaves score, verdict and
\* relationship where they would be without it.  (score.go:176-206)
InconclusiveIsNeutral ==
    \A r \in result :
        LET decided == Score(target, Decided(suspect))
        IN  /\ decided.score = r.score
            /\ decided.verdict = r.verdict
            /\ decided.relationship = r.relationship

\* The suspect with one more thing against it.
Worse(d) ==
    {[d EXCEPT !.kind = "ns"], [d EXCEPT !.hostsHit = TRUE],
     [d EXCEPT !.pathChecked = TRUE, !.pathComplete = TRUE, !.pathMatch = FALSE],
     [d EXCEPT !.asnChecked = TRUE, !.asnMatch = FALSE],
     [d EXCEPT !.class = IF target.class \in {"EV", "OV"} THEN "DV" ELSE @]}
    \union {[d EXCEPT !.age = {a - 60}] : a \in d.age}
    \union {[d EXCEPT !.registrar = IF target.registrar = {} THEN @ ELSE {r}] :
              r \in Registrar \ target.registrar}

\* One more thing against the suspect never lowers its score, however the
\* age tier's stacking and halving fall.  (score.go:126-145, 422-431)
WorseEvidenceNeverHelps ==
    \A r \in result : \A worse \in Worse(suspect) :
        Points(target, worse) >= r.score

\* Being vouched for, by the target's SPF or by a shared certificate, never
\* raises the score.  (score.go:130-145)
EndorsementNeverHurts ==
    \A r \in result :
        /\ Points(target, [suspect EXCEPT !.spfChecked = TRUE,
                                          !.spfAuthorized = TRUE]) <= r.score
        /\ Points(target, [suspect EXCEPT !.sans = @ \union {target.domain}])
               <= r.score

\* LIKELY LEGITIMATE needs a tie between the two domains: the same domain, a
\* certificate that names the other one, an SPF authorization, or look-alike
\* labels.  (score.go:214-220, README "requires a relationship")
LegitimateNeedsATie ==
    \A r \in result : r.verdict = "LEGITIMATE" =>
        \/ target.domain = suspect.domain
        \/ target.domain \in suspect.sans \/ suspect.domain \in target.sans
        \/ suspect.spfAuthorized
        \/ <<target.domain, suspect.domain>> \in Similar

\* "max total: 330": the scale's own bound holds for every pair.
\* (report.go:41)
WithinScale == \A r \in result : r.score \in 0 .. MaxTotal
=============================================================================
