----------------------------- MODULE CheckDomain -----------------------------
(***************************************************************************)
(* dns.CheckDomain: one goroutine per resolver looks the domain up, then   *)
(* its name servers, and writes one slot of the shared outcomes slice; the *)
(* caller waits for all of them and aggregates the slice once.             *)
(***************************************************************************)
EXTENDS Resolvers

VARIABLES
    pc,        \* where each resolver's goroutine is
    out,       \* each goroutine's local resolverOutcome
    outcomes,  \* the shared slice, one slot per goroutine
    check      \* the DomainCheck returned, absent until then

vars == <<pc, out, outcomes, check>>

Init ==
    /\ pc = [i \in Slot |-> "lookupIP"]
    /\ out = [i \in Slot |-> ZeroOutcome]
    /\ outcomes = [i \in Slot |-> ZeroOutcome]
    /\ check = {}

\* LookupIP returns; only a live answer keeps its address and goes on to the
\* name servers.
LookupIP(i) ==
    /\ pc[i] = "lookupIP"
    /\ \E reply \in IPReply :
         LET kind == classifyOutcome(reply)
         IN  /\ out' = [out EXCEPT ![i] =
                   [name |-> NameOf(i), kind |-> kind, ns |-> {},
                    addrs |-> IF kind = "live" THEN reply.addrs ELSE {}]]
             /\ pc' = [pc EXCEPT ![i] =
                   IF kind = "live" THEN "lookupNS" ELSE "publish"]
    /\ UNCHANGED <<outcomes, check>>

\* LookupNS returns; an error leaves the delegation empty, an abstention.
LookupNS(i) ==
    /\ pc[i] = "lookupNS"
    /\ \E ns \in SUBSET NameServers : out' = [out EXCEPT ![i].ns = ns]
    /\ pc' = [pc EXCEPT ![i] = "publish"]
    /\ UNCHANGED <<outcomes, check>>

\* Variant: wg.Done() is reached without the slot being written.
PublishNothing(i) ==
    /\ pc[i] = "publish"
    /\ pc' = [pc EXCEPT ![i] = "done"]
    /\ UNCHANGED <<out, outcomes, check>>

\* Variant: an inconclusive goroutine returns without its wg.Done().
PublishConclusive(i) ==
    /\ pc[i] = "publish"
    /\ out[i].kind # "inconclusive"
    /\ outcomes' = [outcomes EXCEPT ![i] = out[i]]
    /\ pc' = [pc EXCEPT ![i] = "done"]
    /\ UNCHANGED <<out, check>>

\* outcomes[i] = out, then the deferred wg.Done().
Publish(i) ==
    /\ pc[i] = "publish"
    /\ outcomes' = [outcomes EXCEPT ![i] = out[i]]
    /\ pc' = [pc EXCEPT ![i] = "done"]
    /\ UNCHANGED <<out, check>>

\* Variant: the caller waits for the first pinned answers only.
PublicDone == \A i \in Slot : pc[i] = "done" \/ i = System

AllDone == \A i \in Slot : pc[i] = "done"

\* wg.Wait() returns; the slice is aggregated and the hosts file is read.
Join ==
    /\ AllDone
    /\ check = {}
    /\ \E hosts \in BOOLEAN : check' = {Aggregate(outcomes, hosts)}
    /\ UNCHANGED <<pc, out, outcomes>>

\* CheckDomain has returned.
Returned == check # {} /\ UNCHANGED vars

Next ==
    \/ \E i \in Slot : LookupIP(i) \/ LookupNS(i) \/ Publish(i)
    \/ Join
    \/ Returned

\* Every lookup carries a deadline (callCtx), so each goroutine gets on.
Fairness ==
    /\ \A i \in Slot : WF_vars(LookupIP(i) \/ LookupNS(i) \/ Publish(i))
    /\ WF_vars(Join)

Spec == Init /\ [][Next]_vars /\ Fairness

-----------------------------------------------------------------------------
(* Properties.  out[i] is what resolver i really answered.                 *)

\* Types, and what the slice holds: a goroutine past its lookup has a named
\* outcome that carries evidence only when live, and its slot is that outcome
\* once it is done and still the zero value before.  (resolvers.go:112-131)
TypeOK ==
    /\ pc \in [Slot -> {"lookupIP", "lookupNS", "publish", "done"}]
    /\ out \in [Slot -> Outcome]
    /\ outcomes \in [Slot -> Outcome]
    /\ check \in Option(DomainCheck)
    /\ check # {} => AllDone
    /\ \A i \in Slot :
          /\ pc[i] # "lookupIP" => out[i].name = NameOf(i)
          /\ out[i].kind # "live" => out[i].ns = {} /\ out[i].addrs = {}
          /\ pc[i] # "lookupIP" /\ out[i].kind = "live" => out[i].addrs # {}
          /\ outcomes[i] = IF pc[i] = "done" THEN out[i] ELSE ZeroOutcome

\* A goroutine's answer, once it has one.
Live(i) == out[i].kind = "live" /\ out[i].name # ""
Dark(i) == out[i].kind = "nxdomain"

\* Tampering needs two conclusive votes that contradict each other: one
\* resolver live and another NXDOMAIN, or two live ones with different
\* delegations.  Timeouts and errors abstain.  (resolvers.go:12-13)
TamperingNeedsTwoVotes ==
    \A dc \in check : Tampered(dc) =>
        \E i, j \in Slot :
            \/ Live(i) /\ Dark(j)
            \/ /\ Live(i) /\ Live(j)
               /\ out[i].ns # {} /\ out[j].ns # {} /\ out[i].ns # out[j].ns

\* The gate's two votes, and the endpoints the per-path probes interrogate,
\* are exactly what the resolvers answered: the public endpoint is the one of
\* the first live pinned resolver in slot order, whoever answered first.
\* (resolvers.go:135-149)
VotesAreReal ==
    \A dc \in check :
        /\ dc.systemLive <=> Live(System)
        /\ dc.publicLive <=> \E i \in Slot \ {System} : Live(i)
        /\ dc.systemAddrs # {} => dc.systemAddrs = out[System].addrs
        /\ \A i \in Slot \ {System} :
              (Live(i) /\ \A j \in 1 .. (i - 1) : ~Live(j)) =>
                  dc.publicAddrs = out[i].addrs

\* The direction of a split agrees with the liveness the gate reads:
\* suppression only while the system is dark and a public resolver live,
\* horizon only while the system is live; so tampering on a domain that
\* passes the gate is always a delegation split.  (resolvers.go:231-246)
SplitAgreesWithGate ==
    \A dc \in check :
        /\ dc.kind = "suppression" => Gate(dc) = "suppressed"
        /\ dc.kind = "horizon" => Gate(dc) = "pass"
        /\ Tampered(dc) /\ Gate(dc) = "pass" => dc.kind = "ns"

\* CheckDomain returns whatever the resolvers do.  (resolvers.go:133)
Termination == <>(check # {})
=============================================================================
