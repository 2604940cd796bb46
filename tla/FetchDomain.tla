----------------------------- MODULE FetchDomain -----------------------------
(***************************************************************************)
(* fetchDomain of main.go: for a domain that passed the gate, one goroutine*)
(* per probe writes its own fields of a shared result, the errgroup waits  *)
(* for all of them, and the DomainData is built.  A probe is the whole     *)
(* retry loop of module Retry; its failure is an absent answer.            *)
(***************************************************************************)
EXTENDS Evidence, Report

CONSTANTS
    Checks,  \* the DomainChecks a domain can come in with
    Clocks   \* the times and zones a run can start in

ASSUME FetchAssumption == Checks \subseteq DomainCheck /\ Clocks \subseteq Clock

VARIABLES
    domain, dc, now,  \* the arguments
    running,     \* the probes whose goroutine has not returned
    ans,         \* the shared domainResult
    info         \* the DomainData built from it, absent until then

args == <<domain, dc, now>>
vars == <<args, running, ans, info>>

Init ==
    /\ domain \in Domain
    /\ dc \in {c \in Checks : Gate(c) = "pass"}
    /\ now \in Clocks
    /\ running = ProbesFor(dc)
    /\ ans = NoAnswers
    /\ info = {}

\* The goroutine of one probe writes what it got and returns.
Finish(probe) ==
    /\ probe \in running
    /\ ans' \in AnswersAfter(ans, probe, dc)
    /\ running' = running \ {probe}
    /\ UNCHANGED <<args, info>>

\* Variant: the group is an errgroup.WithContext whose first failure ends it.
JoinOnFirstFailure ==
    /\ \/ running = {}
       \/ "rdap" \notin running /\ ans.rdap = {}
    /\ info = {}
    /\ info' = {Info(domain, dc, ans, now)}
    /\ UNCHANGED <<args, running, ans>>

\* Variant: a fetch without a registration is waited for again.
JoinWhenRegistered ==
    /\ running = {} /\ ans.rdap # {}
    /\ info = {}
    /\ info' = {Info(domain, dc, ans, now)}
    /\ UNCHANGED <<args, running, ans>>

\* g.Wait() returns and the result is built, once.
Join ==
    /\ running = {}
    /\ info = {}
    /\ info' = {Info(domain, dc, ans, now)}
    /\ UNCHANGED <<args, running, ans>>

Returned == info # {} /\ UNCHANGED vars

Next ==
    \/ \E probe \in Probe : Finish(probe)
    \/ Join
    \/ Returned

\* Every probe returns: its attempts carry deadlines (module Retry).
Fairness ==
    /\ \A probe \in Probe : WF_vars(Finish(probe))
    /\ WF_vars(Join)

Spec == Init /\ [][Next]_vars /\ Fairness

-----------------------------------------------------------------------------

\* Types; a probe that has not returned has written nothing, and nothing is
\* built before all of them have.  (main.go:81-141)
TypeOK ==
    /\ domain \in Domain
    /\ dc \in DomainCheck /\ now \in Clocks
    /\ running \subseteq ProbesFor(dc)
    /\ ans \in Answers
    /\ info \in Option(DomainData)
    /\ info # {} => running = {}
    /\ "rdap" \in running => ans.rdap = {}
    /\ "tls" \in running => ans.cert = {}
    /\ "sysPath" \in running => ans.sysCert = {}
    /\ "pubPath" \in running => ans.pubCert = {}
    /\ "bothPaths" \in running => ans.sysCert = {} /\ ans.pubCert = {}
    /\ "sysASN" \in running => ans.sysASN = {}
    /\ "pubASN" \in running => ans.pubASN = {}

\* The per-probe concurrency is invisible: what is built is what one atomic
\* fetch gives that answers every probe of the domain, and no answer comes in
\* after it.  This is the step the Pipeline module takes.  (main.go:141-202)
FetchIsAtomic ==
    \A i \in info : ans \in AnswersTo(dc) /\ i = Info(domain, dc, ans, now)

OriginsOf(endpoint) == UNION {Origins[addr] : addr \in endpoint}

\* A path signal stands for two addresses that answered with two identities:
\* neither a refused dial nor two dials of one address make one.  An AS signal
\* stands for two lookups that both answered, with two origins of the addresses
\* asked about: never an unattributed one, and never one address with a single
\* origin.  (main.go:103-136, cert.go:207-229, asn.go:46-83)
DivergenceIsReal ==
    \A i \in info :
        /\ divergent(i) =>
              /\ dc.systemAddrs # {} /\ dc.publicAddrs # {} /\ dc.systemAddrs # dc.publicAddrs
              /\ \E s \in ans.sysCert, p \in ans.pubCert : FromLeaf(s) # FromLeaf(p)
        /\ asnSplit(i) =>
              \E s \in ans.sysASN, p \in ans.pubASN :
                  /\ s # p
                  /\ s \in OriginsOf(dc.systemAddrs) /\ p \in OriginsOf(dc.publicAddrs)

\* Whatever the order of the events and wherever the run happens, the age is
\* counted from a registration event and is never more than the days that
\* have passed since, nor short by more than one.  (rdap.go:94-107,
\* date.go:27-43)
AgeNeverOverstated ==
    \A i \in info : \A age \in i.age : \E r \in ans.rdap : \E k \in DOMAIN r.events :
        /\ r.events[k].registration
        /\ \E day \in r.events[k].readable :
              LET days == now.today - day
              IN  IF days >= 0 THEN age >= 0 /\ age \in {days - 1, days}
                               ELSE age \in {days, days + 1}

\* A line of the verbose report, and the findings that tell the same of a
\* target and of a suspect; the suspect's are scored, but for two notes.
Wordings ==
    {[line |-> "TAMPERED",       note |-> "NOTE tampering",   charge |-> "TAMPERING"],
     [line |-> "detail",         note |-> "NOTE horizon",     charge |-> "NOTE suspect horizon"],
     [line |-> "DIVERGENT",      note |-> "NOTE redirection", charge |-> "REDIRECTION"],
     [line |-> "SPLIT",          note |-> "NOTE asn",         charge |-> "MISMATCH asn"],
     [line |-> "STATIC MAPPING", note |-> "NOTE hosts",       charge |-> "HIJACK"]}

\* What the findings say of a domain and what the verbose report shows of it,
\* worded by separate code, are the same, be it noted of a target or charged to
\* a suspect: no charge is hidden, and no line stands there for nothing.  What
\* is charged to a suspect does not depend on the target.
\* (report.go:270-320, score.go:187-255)
VerboseShowsWhatCounts ==
    \A i \in info :
        LET shown   == writeDNS(i) \union writePaths(i)
            noted   == noteDNS(i) \union notePathIntel(i)
            charged == evidenceFindings(i, i) \union contextFindings(i, i)
        IN  /\ \A w \in Wordings : /\ w.line \in shown <=> w.note \in noted
                                   /\ w.line \in shown <=> w.charge \in charged
            /\ "inconclusive" \in shown <=> "NOTE inconclusive" \in charged

\* The fetch always returns.  (main.go:141)
Termination == <>(info # {})

-----------------------------------------------------------------------------
(* What a comment says and the code does not do.                           *)

\* "ASNMatch: both paths share an origin AS" (score.go:44): two attributed
\* endpoints with an origin in common match.
SharedOriginMatches ==
    \A i \in info :
        i.asnChecked /\ OriginsOf(dc.systemAddrs) \intersect OriginsOf(dc.publicAddrs) # {}
            => i.asnMatch

=============================================================================
