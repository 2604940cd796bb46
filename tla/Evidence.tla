------------------------------- MODULE Evidence ------------------------------
(***************************************************************************)
(* What fetchDomain in main.go gathers about one domain and how it turns   *)
(* the answers into a DomainData: which probes it starts for a DomainCheck,*)
(* what each of them can bring back, cert.ComparePaths and dns.ASNMatch.   *)
(***************************************************************************)
EXTENDS Documents

CONSTANTS
    ASN,          \* origin autonomous systems
    Origins,      \* per address, those its origin texts name, one text each
    Leaves,       \* the certificates an endpoint can serve
    RdapAnswers   \* the RDAP documents the registry can return

ASSUME EvidenceAssumption ==
    /\ Origins \in [Addrs -> SUBSET ASN]
    /\ Leaves \subseteq Leaf
    /\ RdapAnswers \subseteq Response

\* sysPath and pubPath dial each endpoint; bothPaths dials a shared one once.
Probe == {"rdap", "tls", "sysPath", "pubPath", "bothPaths", "sysASN", "pubASN"}

TwoPaths(dc) == dc.systemAddrs # {} /\ dc.publicAddrs # {}

\* Variant: each path is dialled for itself even when they lead to one address.
ProbesAlwaysSplit(dc) ==
    {"rdap", "tls"} \union
    IF TwoPaths(dc) THEN {"sysASN", "pubASN", "sysPath", "pubPath"} ELSE {}

ProbesFor(dc) ==
    {"rdap", "tls"} \union
    IF ~TwoPaths(dc) THEN {}
    ELSE {"sysASN", "pubASN"} \union
         IF dc.systemAddrs = dc.publicAddrs THEN {"bothPaths"} ELSE {"sysPath", "pubPath"}

\* The fields of domainResult that the probes write; {} is a failed probe.
Answers ==
    [rdap : Option(RdapAnswers), cert : Option(Leaves),
     sysCert : Option(Leaves), pubCert : Option(Leaves),
     sysASN : Option(ASN), pubASN : Option(ASN)]

NoAnswers ==
    [rdap |-> {}, cert |-> {}, sysCert |-> {}, pubCert |-> {}, sysASN |-> {}, pubASN |-> {}]

\* LookupASN for an endpoint: nothing, or the origin of the first text, which
\* DNS lists in any order.
LookupASN(endpoint) == {{}} \union {{n} : n \in UNION {Origins[addr] : addr \in endpoint}}

\* Variant: both path dials store their certificate in the same field.
AnswersAfterOneField(a, probe, dc) ==
    CASE probe = "rdap"      -> {[a EXCEPT !.rdap = r] : r \in Option(RdapAnswers)}
      [] probe = "tls"       -> {[a EXCEPT !.cert = c] : c \in Option(Leaves)}
      [] probe = "bothPaths" -> {[a EXCEPT !.sysCert = c, !.pubCert = c] : c \in Option(Leaves)}
      [] probe = "sysASN"    -> {[a EXCEPT !.sysASN = n] : n \in LookupASN(dc.systemAddrs)}
      [] probe = "pubASN"    -> {[a EXCEPT !.pubASN = n] : n \in LookupASN(dc.publicAddrs)}
      [] OTHER               -> {[a EXCEPT !.pubCert = c] : c \in Option(Leaves)}

\* The answers once one more probe has returned, whatever it returns.
AnswersAfter(a, probe, dc) ==
    CASE probe = "rdap"      -> {[a EXCEPT !.rdap = r] : r \in Option(RdapAnswers)}
      [] probe = "tls"       -> {[a EXCEPT !.cert = c] : c \in Option(Leaves)}
      [] probe = "sysPath"   -> {[a EXCEPT !.sysCert = c] : c \in Option(Leaves)}
      [] probe = "pubPath"   -> {[a EXCEPT !.pubCert = c] : c \in Option(Leaves)}
      [] probe = "bothPaths" -> {[a EXCEPT !.sysCert = c, !.pubCert = c] : c \in Option(Leaves)}
      [] probe = "sysASN"    -> {[a EXCEPT !.sysASN = n] : n \in LookupASN(dc.systemAddrs)}
      [] probe = "pubASN"    -> {[a EXCEPT !.pubASN = n] : n \in LookupASN(dc.publicAddrs)}

\* Every complete set of answers to the probes of dc.
AnswersTo(dc) ==
    {a \in Answers :
        /\ ~TwoPaths(dc) => /\ a.sysCert = {} /\ a.pubCert = {}
                            /\ a.sysASN = {} /\ a.pubASN = {}
        /\ "bothPaths" \in ProbesFor(dc) => a.sysCert = a.pubCert
        /\ a.sysASN \in LookupASN(dc.systemAddrs) /\ a.pubASN \in LookupASN(dc.publicAddrs)}

-----------------------------------------------------------------------------
(* From answers to DomainData.                                             *)

\* Issuer, class, SANs and fingerprint must all agree.
ComparePaths(sys, pub) ==
    LET complete == sys # {} /\ pub # {}
    IN  [complete |-> complete,
         match    |-> complete /\ {FromLeaf(c) : c \in sys} = {FromLeaf(c) : c \in pub}]

ASNChecked(a) == a.sysASN # {} /\ a.pubASN # {}
ASNMatch(a) == ASNChecked(a) /\ a.sysASN = a.pubASN

\* Without a document or a certificate its fields stay unknown.
Info(d, dc, a, now) ==
    LET paths == ComparePaths(a.sysCert, a.pubCert)
        details == {FromLeaf(c) : c \in a.cert}
    IN  [domain        |-> d,
         age           |-> {AgeDays(day, now) : day \in UNION {RegistrationDate(r) : r \in a.rdap}},
         registrar     |-> UNION {RegistrarName(r) : r \in a.rdap},
         issuer        |-> UNION {c.issuer : c \in details},
         class         |-> IF details = {} THEN "Unknown"
                           ELSE (CHOOSE c \in details : TRUE).class,
         sans          |-> UNION {Covered(c.sans) : c \in details},
         kind          |-> dc.kind,
         hostsHit      |-> dc.hostsHit,
         sysIP         |-> dc.systemAddrs,
         pubIP         |-> dc.publicAddrs,
         pathChecked   |-> TwoPaths(dc),
         pathComplete  |-> TwoPaths(dc) /\ paths.complete,
         pathMatch     |-> TwoPaths(dc) /\ paths.match,
         asnChecked    |-> TwoPaths(dc) /\ ASNChecked(a),
         asnMatch      |-> TwoPaths(dc) /\ ASNMatch(a),
         spfChecked    |-> FALSE,
         spfAuthorized |-> FALSE,
         dmarc         |-> {}]
=============================================================================
