------------------------------- MODULE SpfTerms ------------------------------
(***************************************************************************)
(* The pure part of internal/dns/spf.go: what a v=spf1 record parses to,   *)
(* what the addresses and networks in its terms stand for, and which       *)
(* addresses a term covers.  A record is a sequence of fields.             *)
(***************************************************************************)
EXTENDS Integers, Sequences, FiniteSets

CONSTANTS
    Name,     \* domain names
    Addr,     \* IP addresses
    V6,       \* those of the IPv6 family
    Network,  \* per address, the addresses within a given prefix length of it
    Length,   \* that prefix length as a text, a number
    Blank     \* the empty text

ASSUME TermsAssumption ==
    /\ V6 \subseteq Addr
    /\ Network \in [Addr -> SUBSET Addr]
    /\ \A a \in Addr : a \in Network[a] /\ \A b \in Network[a] : a \in V6 <=> b \in V6
    /\ Name \intersect Addr = {}
    /\ Length \notin Name \union Addr /\ Blank \notin Name \union Addr /\ Length # Blank

\* What can stand between two slashes.
Piece == Name \union Addr \union {Length, Blank}

\* text: what follows the name of the mechanism, a colon left out, cut at its
\* slashes: a is <<Blank>>, a/24 is <<Blank, Length>>, a:host//2001:db8::/32 is
\* <<host, Blank, 2001:db8::, Length>>.  skip: exists, ptr, typos, and the other
\* modifiers, which the parser leaves out instead.  unreadable: a field with
\* %{, a qualifier, include: or redirect= alone, or a version such as v=spf10.
\* plus: the qualifier is '+'.  An include of what is no domain name fails like
\* that of a name without a record.
Field ==
    {f \in [kind : {"all", "ip", "a", "mx", "include", "redirect", "skip", "unreadable"},
             plus : BOOLEAN, text : Seq(Piece)] :
        /\ f.text # <<>>
        /\ f.kind \in {"include", "redirect"} => \E n \in Name : f.text = <<n>>}

\* The terms of a record; one field that cannot be read spoils all of them.
parseSPFRecord(fields) ==
    IF \E i \in DOMAIN fields : fields[i].kind = "unreadable" THEN {} ELSE {fields}

\* The value of an a or mx term: a slash in front is stripped like a colon.
valueOf(term) ==
    IF term.text[1] = Blank /\ Len(term.text) > 1 THEN Tail(term.text) ELSE term.text

\* The addresses an address or an address with a prefix length stands for; a
\* length alone, a name and an empty text cannot be read.
parseCIDROrHost(text) ==
    CASE Len(text) = 1 /\ text[1] \in Addr -> {{text[1]}}
      [] Len(text) = 2 /\ text[1] \in Addr /\ text[2] = Length -> {Network[text[1]]}
      [] OTHER -> {}

\* SplitN(value, "/", 3): the third part keeps its slashes, so a network given
\* in it is read as one, and in the second its length is cut off.
splitDualCIDR(value) ==
    [host  |-> value[1],
     cidr4 |-> IF Len(value) > 1 THEN parseCIDROrHost(<<value[2]>>) ELSE {},
     cidr6 |-> IF Len(value) > 2 THEN parseCIDROrHost(SubSeq(value, 3, Len(value))) ELSE {}]

HostOf(term, domain) ==
    LET host == splitDualCIDR(valueOf(term)).host IN IF host = Blank THEN domain ELSE host

\* Variant: a given network need not hold the host's own address.
addrCoveredByNetwork(addrs, ip, cidr) ==
    \E a \in addrs :
        /\ a \in V6 <=> ip \in V6
        /\ IF cidr = {} THEN a = ip ELSE \E net \in cidr : ip \in net

\* Some address of the suspect's family is the suspect's, or shares the given
\* network with it.
addrCovered(addrs, ip, cidr) ==
    \E a \in addrs :
        /\ a \in V6 <=> ip \in V6
        /\ IF cidr = {} THEN a = ip ELSE \E net \in cidr : {a, ip} \subseteq net

CidrFor(term, ip) ==
    LET split == splitDualCIDR(valueOf(term)) IN IF ip \in V6 THEN split.cidr6 ELSE split.cidr4

\* An ip4 or ip6 term whose value cannot be read covers nothing.
ipCovered(term, ip) == \E net \in parseCIDROrHost(term.text) : ip \in net
=============================================================================
