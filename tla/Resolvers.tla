------------------------------ MODULE Resolvers ------------------------------
(***************************************************************************)
(* The resolver cross-check of internal/dns/resolvers.go as functions:     *)
(* how one lookup becomes a vote, how the votes of the system resolver and *)
(* of the pinned public resolvers become a DomainCheck, and how run() in   *)
(* main.go gates on it.  Slot 0 of the outcomes slice is the system        *)
(* resolver; slots 1..Pinned are the pinned ones in pinnedServers order.   *)
(***************************************************************************)
EXTENDS Naturals

CONSTANTS
    Pinned,       \* how many public resolvers are pinned (2 in the code)
    NameServers,  \* the name-server hosts a delegation can list
    Addrs         \* the IPv4 addresses a lookup can return

ASSUME PinnedAssumption == Pinned \in Nat

\* An absent value is the empty set, a present one a singleton.
Option(S) == {o \in SUBSET S : \A x, y \in o : x = y}

System == 0
Slot == 0 .. Pinned

OutcomeKind == {"live", "nxdomain", "inconclusive"}
SplitKind == {"none", "suppression", "horizon", "ns"}

\* addrs keeps the first address only: the code never uses another one.
Outcome == [name : {"system", "pinned", ""}, kind : OutcomeKind,
            ns : SUBSET NameServers, addrs : Option(Addrs)]

\* What make([]resolverOutcome, n) leaves in a slot nobody has written yet:
\* outcomeKind's zero value is outcomeLive, and the name is empty.
ZeroOutcome == [name |-> "", kind |-> "live", ns |-> {}, addrs |-> {}]

NameOf(i) == IF i = System THEN "system" ELSE "pinned"

\* What LookupIP returns: an error or a (possibly empty) list of addresses.
IPReply == [err : {"none", "notFound", "other"}, addrs : Option(Addrs)]

classifyOutcome(reply) ==
    CASE reply.err = "notFound" -> "nxdomain"
      [] reply.err = "other"    -> "inconclusive"
      [] OTHER -> IF reply.addrs = {} THEN "inconclusive" ELSE "live"

(***************************************************************************)
(* detectSplit.  The tests are by name, so a slot nobody wrote counts as a *)
(* live public resolver and the system stays inconclusive.                 *)
(***************************************************************************)
SystemKind(os) ==
    IF os[System].name = "system" THEN os[System].kind ELSE "inconclusive"

PublicVoters(os, kind) ==
    {i \in Slot : os[i].name # "system" /\ os[i].kind = kind}

\* Variant: an inconclusive system resolver counts as dark.
IsSuppressionUnlessLive(os) ==
    PublicVoters(os, "live") # {} /\ SystemKind(os) # "live"

\* Variant: public resolvers that disagree are a suppression by themselves.
IsSuppressionByPublicSplit(os) ==
    /\ PublicVoters(os, "live") # {}
    /\ SystemKind(os) = "nxdomain" \/ PublicVoters(os, "nxdomain") # {}

IsSuppression(os) ==
    /\ PublicVoters(os, "live") # {}
    /\ \/ SystemKind(os) = "nxdomain"
       \/ SystemKind(os) = "inconclusive" /\ PublicVoters(os, "nxdomain") # {}

IsHorizon(os) ==
    SystemKind(os) = "live" /\ PublicVoters(os, "nxdomain") # {}

\* A delegation split between any two live resolvers that named servers.
DelegationsDiffer(os) ==
    \E i, j \in {k \in Slot : os[k].kind = "live" /\ os[k].ns # {}} :
        os[i].ns # os[j].ns

detectSplit(os) ==
    IF IsSuppression(os) THEN "suppression"
    ELSE IF IsHorizon(os) THEN "horizon"
    ELSE IF DelegationsDiffer(os) THEN "ns"
    ELSE "none"

(***************************************************************************)
(* The aggregate built after wg.Wait(), with the hosts-file answer.        *)
(***************************************************************************)
DomainCheck ==
    [systemLive : BOOLEAN, publicLive : BOOLEAN, systemAddrs : Option(Addrs),
     publicAddrs : Option(Addrs), kind : SplitKind, hostsHit : BOOLEAN]

\* The first public resolver, in slot order, that is live with an address.
RepresentativeAddr(os) ==
    LET answering == {i \in PublicVoters(os, "live") : os[i].addrs # {}}
        first == {i \in answering : \A j \in answering : i <= j}
    IN  UNION {os[i].addrs : i \in first}

Aggregate(os, hosts) ==
    LET sysLive == os[System].name = "system" /\ os[System].kind = "live"
    IN  [systemLive  |-> sysLive,
         publicLive  |-> PublicVoters(os, "live") # {},
         systemAddrs |-> IF sysLive THEN os[System].addrs ELSE {},
         publicAddrs |-> RepresentativeAddr(os),
         kind        |-> detectSplit(os),
         hostsHit    |-> hosts]

Tampered(dc) == dc.kind \in {"suppression", "ns"}

\* Variant: any resolver that finds the domain opens the gate.
GateOnAnyLive(dc) ==
    IF dc.systemLive \/ dc.publicLive THEN "pass" ELSE "unresolved"

\* The pre-flight gate of run(): what it says of one domain's check.
Gate(dc) ==
    IF dc.systemLive THEN "pass"
    ELSE IF dc.publicLive THEN "suppressed"
    ELSE "unresolved"
=============================================================================
