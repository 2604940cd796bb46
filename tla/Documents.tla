------------------------------ MODULE Documents ------------------------------
(***************************************************************************)
(* What the program reads out of the documents it fetches: the fields of   *)
(* an RDAP response (internal/rdap), of a leaf certificate (internal/cert) *)
(* and the age a registration date gives (internal/score/date.go).  An     *)
(* empty field is {}, a given one a singleton.                             *)
(***************************************************************************)
EXTENDS Score, Sequences

CONSTANTS
    Fingerprint,  \* leaf-certificate fingerprints
    Under         \* the pairs of a domain and a domain it is a subdomain of

\* date: what eventDate holds, absent when empty; readable is its first ten
\* characters as a calendar day, counted from any fixed one.
Event == [registration : BOOLEAN, given : BOOLEAN, readable : Option(Int)]

\* fn: the first name in the vCard that is not blank.
Entity == [registrar : BOOLEAN, fn : Option(Registrar)]

Response == [events : Seq(Event), entities : Seq(Entity)]

\* A DNS name of a certificate, wildcard or not.
San == [wild : BOOLEAN, name : Domain]

\* org, cn and dn name the issuer: its organization, its common name and the
\* whole distinguished name.
Leaf == [policies : SUBSET Class, org : Option(Issuer), cn : Option(Issuer), dn : Option(Issuer),
         dnsNames : SUBSET San, subjectCN : Option(San), print : Fingerprint]

\* now: the local calendar day, and how many hours local midnight comes before
\* the same midnight in UTC.
Clock == [today : Int, zone : -12 .. 14]

\* The first of a list's positions, as a set.
FirstOf(positions) == {i \in positions : \A j \in positions : i <= j}

-----------------------------------------------------------------------------
(* The RDAP response.                                                      *)

\* The day of the first registration event with a date, if it reads as one.
RegistrationDate(r) ==
    LET dated == {i \in DOMAIN r.events : r.events[i].registration /\ r.events[i].given}
    IN  UNION {r.events[i].readable : i \in FirstOf(dated)}

\* An entity with the registrar role comes before all others with a name.
RegistrarName(r) ==
    LET named == {i \in DOMAIN r.entities : r.entities[i].fn # {}}
        first == FirstOf({i \in named : r.entities[i].registrar})
    IN  UNION {r.entities[i].fn : i \in IF first # {} THEN first ELSE FirstOf(named)}

-----------------------------------------------------------------------------
(* The age.                                                                *)

\* Variant: the hours are rounded to the nearest day.
AgeDaysRounded(day, now) ==
    LET hours == 24 * (now.today - day) - now.zone
    IN  IF hours >= 0 THEN (hours + 12) \div 24 ELSE -((12 - hours) \div 24)

\* The date is midnight UTC, today is midnight local time, and int() drops
\* what is left of a day on either side of zero.
AgeDays(day, now) ==
    LET hours == 24 * (now.today - day) - now.zone
    IN  IF hours >= 0 THEN hours \div 24 ELSE -((-hours) \div 24)

-----------------------------------------------------------------------------
(* The leaf certificate.                                                   *)

\* The strongest policy class among the policy OIDs.
Classify(policies) ==
    IF "EV" \in policies THEN "EV"
    ELSE IF "OV" \in policies THEN "OV"
    ELSE IF "IV" \in policies THEN "IV"
    ELSE IF "DV" \in policies THEN "DV"
    ELSE "Unknown"

IssuerName(leaf) ==
    IF leaf.org # {} THEN leaf.org ELSE IF leaf.cn # {} THEN leaf.cn ELSE leaf.dn

sansFromLeaf(leaf) == IF leaf.dnsNames # {} THEN leaf.dnsNames ELSE leaf.subjectCN

\* The Details of a certificate.
FromLeaf(leaf) ==
    [issuer |-> IssuerName(leaf), class |-> Classify(leaf.policies),
     sans |-> sansFromLeaf(leaf), print |-> leaf.print]

\* sanCovers: a name covers itself, a wildcard also every domain under it.
Covered(sans) ==
    {d \in Domain : \E s \in sans : d = s.name \/ (s.wild /\ <<d, s.name>> \in Under)}
=============================================================================
