---------------------------- MODULE MCCheckDomain ----------------------------
(* CheckDomain with the code's two pinned resolvers.                       *)
EXTENDS CheckDomain, TLC
CONSTANTS ns1, ns2, a1, a2

MCNameServers == {ns1, ns2}
MCAddrs == {a1, a2}
=============================================================================
