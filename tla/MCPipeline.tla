----------------------------- MODULE MCPipeline ------------------------------
(* A brand against a clone and a brand against itself, over DomainChecks of *)
(* every gate outcome and every split that reaches it.                      *)
EXTENDS Pipeline

CONSTANTS brand, clone, a1, a2, as1, i1, r1, p1, p2, quarantine

MCDomain == {brand, clone}
MCPairs == {<<brand, clone>>, <<brand, brand>>}
MCAddrs == {a1, a2}
MCIssuer == {i1}
MCRegistrar == {r1}
MCPolicy == {quarantine}
MCASN == {as1}
MCOrigins == [addr \in MCAddrs |-> MCASN]
MCFingerprint == {p1, p2}
MCSimilar == {<<brand, clone>>, <<clone, brand>>}

\* A vetted certificate, and one with an issuer but no policy class.
MCLeaves ==
    {[policies |-> {"EV"}, org |-> {i1}, cn |-> {}, dn |-> {i1},
      dnsNames |-> {[wild |-> FALSE, name |-> brand]}, subjectCN |-> {}, print |-> p1],
     [policies |-> {}, org |-> {}, cn |-> {}, dn |-> {i1},
      dnsNames |-> {}, subjectCN |-> {}, print |-> p2]}

\* A young and dated domain, and a document without a registration event.
MCRdapAnswers ==
    {[events |-> <<[registration |-> TRUE, given |-> TRUE, readable |-> {80}]>>,
      entities |-> <<[registrar |-> TRUE, fn |-> {r1}]>>],
     [events |-> <<[registration |-> FALSE, given |-> TRUE, readable |-> {80}]>>,
      entities |-> <<[registrar |-> TRUE, fn |-> {r1}]>>]}

MCClocks == {[today |-> 100, zone |-> 9]}

Seen(sys, pub, split, hosts) ==
    [systemLive |-> sys # {}, publicLive |-> pub # {}, systemAddrs |-> sys,
     publicAddrs |-> pub, kind |-> split, hostsHit |-> hosts]

\* Live with no public answer, live on both paths with a delegation split,
\* live with a hosts entry and a horizon, suppressed, dark, and suppressed
\* while the system merely abstained.
MCChecks ==
    {Seen({a1}, {}, "none", FALSE), Seen({a1}, {a1}, "ns", FALSE),
     Seen({a1}, {}, "horizon", TRUE), Seen({}, {a2}, "suppression", FALSE),
     Seen({}, {}, "none", FALSE), Seen({}, {a2}, "none", FALSE)}
=============================================================================
