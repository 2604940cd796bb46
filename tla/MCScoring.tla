------------------------------ MODULE MCScoring ------------------------------
(* Scoring over every combination of the evidence the signals tell apart.  *)
EXTENDS Scoring

CONSTANTS brand, clone, other, i1, i2, r1, r2, quarantine

MCDomain == {brand, clone, other}
MCIssuer == {i1, i2}
MCRegistrar == {r1, r2}
MCPolicy == {quarantine}
MCSimilar == {<<brand, clone>>, <<clone, brand>>}

Bare(d) ==
    [domain |-> d, age |-> {}, registrar |-> {}, issuer |-> {}, class |-> "Unknown",
     sans |-> {}, kind |-> "none", hostsHit |-> FALSE, sysIP |-> {}, pubIP |-> {},
     pathChecked |-> FALSE, pathComplete |-> FALSE, pathMatch |-> FALSE,
     asnChecked |-> FALSE, asnMatch |-> FALSE,
     spfChecked |-> FALSE, spfAuthorized |-> FALSE, dmarc |-> {}]

\* No probe, a failed comparison, agreement, divergence.
Paths == {<<FALSE, FALSE, FALSE>>, <<TRUE, FALSE, FALSE>>, <<TRUE, TRUE, TRUE>>,
          <<TRUE, TRUE, FALSE>>}

\* An established or a days-old brand, calm or with every trouble at once.
MCTargets ==
    {[Bare(brand) EXCEPT
        !.age = {age}, !.registrar = registrar, !.issuer = {i1}, !.class = class,
        !.sans = sans, !.kind = IF troubled THEN "ns" ELSE "none",
        !.hostsHit = troubled, !.pathChecked = troubled, !.pathComplete = troubled,
        !.asnChecked = troubled, !.dmarc = IF troubled THEN {quarantine} ELSE {}] :
     age \in {5, 4000}, registrar \in {{}, {r1}}, class \in {"EV", "DV"},
     sans \in {{brand}, {brand, clone}}, troubled \in BOOLEAN}

MCSuspects ==
    {[Bare(d) EXCEPT
        !.age = age, !.registrar = registrar, !.issuer = {i2}, !.class = class,
        !.kind = kind, !.hostsHit = hosts,
        !.pathChecked = path[1], !.pathComplete = path[2], !.pathMatch = path[3],
        !.asnChecked = asn, !.spfChecked = spf[1], !.spfAuthorized = spf[2]] :
     d \in MCDomain, age \in {{}, {29}, {30}, {89}, {365}}, registrar \in {{}, {r1}, {r2}},
     class \in {"DV", "OV"}, kind \in {"none", "horizon", "ns"}, hosts \in BOOLEAN,
     path \in Paths, asn \in BOOLEAN,
     spf \in {<<FALSE, FALSE>>, <<TRUE, FALSE>>, <<TRUE, TRUE>>}}
=============================================================================
