-------------------------------- MODULE Report -------------------------------
(***************************************************************************)
(* internal/report as far as it says something of its own: the published   *)
(* scoring scale, and the DNS and path sections of the verbose report,     *)
(* which word a DomainData independently of the findings.  A line is a     *)
(* tag; wording and layout are left out.                                   *)
(***************************************************************************)
EXTENDS Score

-----------------------------------------------------------------------------
(* Scale: what --scale promises of points and verdicts.                    *)

MaxTotal == 330

\* The points of the scored findings, except age; the others have none.
PublishedPoints(findings) ==
    When("TAMPERING" \in findings, 50)
    + When("HIJACK" \in findings, 50)
    + When("REDIRECTION" \in findings, 50)
    + When("DOWNGRADE" \in findings, 40)
    + When("MISMATCH registrar" \in findings, 30)
    + When("MISMATCH asn" \in findings, 30)

\* The points an age finding can stand for, halves for a shared certificate
\* included, by the level it words.
AgeBand(findings) ==
    IF "AGE HIGH" \in findings THEN {80}
    ELSE IF "AGE ELEVATED" \in findings THEN {40}
    ELSE IF "AGE LOW" \in findings THEN {10, 20}
    ELSE {0}

PublishedVerdict(score, unrelated) ==
    CASE unrelated /\ score \in 0 .. 39      -> "UNRELATED"
      [] ~unrelated /\ score \in 0 .. 14     -> "LEGITIMATE"
      [] ~unrelated /\ score \in 15 .. 39    -> "MALICIOUS"
      [] score \in 40 .. 50                  -> "SUSPICIOUS"
      [] score \in 51 .. MaxTotal            -> "PHISHING"

-----------------------------------------------------------------------------
(* Verbose.                                                                *)

writeDNS(d) ==
    IF d.kind = "none" THEN {"consistent"}
    ELSE IF tampered(d) THEN {"TAMPERED"}
    ELSE {"detail"}

pathTLS(d) ==
    IF d.pathComplete THEN IF d.pathMatch THEN {"agree"} ELSE {"DIVERGENT"}
    ELSE Say(d.pathChecked, "inconclusive")

\* Variant: without two paths there is nothing to tell.
writePathsProbed(d) ==
    IF ~d.pathChecked THEN {"no divergence probed"}
    ELSE pathTLS(d)
         \union (IF d.asnChecked THEN Say(~d.asnMatch, "SPLIT") ELSE {"unattributed"})
         \union Say(d.hostsHit, "STATIC MAPPING")

writePaths(d) ==
    IF ~d.pathChecked /\ ~d.hostsHit THEN {"no divergence probed"}
    ELSE pathTLS(d)
         \union (IF d.asnChecked THEN Say(~d.asnMatch, "SPLIT") ELSE {"unattributed"})
         \union Say(d.hostsHit, "STATIC MAPPING")
=============================================================================
