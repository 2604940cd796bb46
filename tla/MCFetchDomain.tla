---------------------------- MODULE MCFetchDomain ----------------------------
(* One domain, every shape of DomainCheck the gate lets through, and for    *)
(* each probe different answers or none.                                    *)
EXTENDS FetchDomain

CONSTANTS brand, a1, a2, as1, as2, i1, r1, r2, p1, p2, quarantine

MCDomain == {brand}
MCAddrs == {a1, a2}
MCIssuer == {i1}
MCRegistrar == {r1, r2}
MCPolicy == {quarantine}
MCASN == {as1, as2}
\* A prefix two networks announce, and one a single network does.
MCOrigins == [addr \in MCAddrs |-> IF addr = a1 THEN {as1, as2} ELSE {as2}]
MCFingerprint == {p1, p2}

\* Two renewals of one certificate: only the fingerprint tells them apart.
MCLeaves ==
    {[policies |-> {"DV", "Unknown"}, org |-> {}, cn |-> {i1}, dn |-> {i1}, dnsNames |-> {},
      subjectCN |-> {[wild |-> TRUE, name |-> brand]}, print |-> p] : p \in MCFingerprint}

On(action, day) == [registration |-> action, given |-> TRUE, readable |-> day]
Contact(isRegistrar, name) == [registrar |-> isRegistrar, fn |-> name]

\* An expiration listed before the registration and a contact before the
\* registrar; a date still to come; a registration that does not read as a
\* date; no event and no name at all.
MCRdapAnswers ==
    {[events |-> <<On(FALSE, {470}), On(TRUE, {70})>>,
      entities |-> <<Contact(FALSE, {r2}), Contact(TRUE, {}), Contact(TRUE, {r1})>>],
     [events |-> <<On(TRUE, {101})>>, entities |-> <<Contact(FALSE, {r2})>>],
     [events |-> <<On(TRUE, {}), On(TRUE, {70})>>, entities |-> <<>>],
     [events |-> <<>>, entities |-> <<>>]}

\* The zones farthest from UTC, and UTC.
MCClocks == {[today |-> 100, zone |-> zone] : zone \in {-12, 0, 14}}

\* No public path, calm or with a horizon and a hosts entry; one shared
\* endpoint; two endpoints and two delegations.
MCChecks ==
    {[systemLive |-> TRUE, publicLive |-> pub # {}, systemAddrs |-> {a1},
      publicAddrs |-> pub, kind |-> kind, hostsHit |-> kind = "horizon"] :
     <<pub, kind>> \in {<<{}, "none">>, <<{}, "horizon">>, <<{a1}, "none">>, <<{a2}, "ns">>}}
=============================================================================
