------------------------------- MODULE Pipeline ------------------------------
(***************************************************************************)
(* run() of main.go after the arguments are parsed: every unique domain is *)
(* probed, the gate looks at the probes, every unique domain is fetched,   *)
(* the sender-authority stage asks whether the target vouches for the      *)
(* suspect, and the quality gate lets Score speak or not.  Each stage runs *)
(* its goroutines concurrently and waits for all of them; one 15s context  *)
(* covers the stages together.  A probe is module CheckDomain, a fetch is  *)
(* module FetchDomain, each taken as one step here.                        *)
(***************************************************************************)
EXTENDS Evidence

CONSTANTS
    Pairs,  \* the <<legit, suspect>> arguments
    Checks, \* the DomainChecks a probe can return
    Clocks  \* the times and zones a run can happen in

ASSUME PipelineAssumption ==
    Pairs \subseteq Domain \X Domain /\ Checks \subseteq DomainCheck /\ Clocks \subseteq Clock

VARIABLES
    legit, suspect,  \* the arguments, normalised
    now,             \* time.Now() between the gate and the fetch
    stage,           \* preflight, fetch, authority or done
    expired,         \* the global context's deadline has passed
    doomed,          \* it had passed when the current stage began
    probes,          \* per slot of uniq, the DomainCheck once it is in
    fetched,         \* per slot of uniq, the probe answers once they are in
    asking,          \* the sender-authority goroutines still running
    target, sus,     \* the two DomainData, absent before the fetch is joined
    exit,            \* how the run ended, absent while it runs
    result           \* what Score returned, absent without a verdict

args == <<legit, suspect, now>>
vars == <<args, stage, expired, doomed, probes, fetched, asking,
          target, sus, exit, result>>

\* uniq: one slot when the two arguments are one domain.
Slots == IF suspect = legit THEN {1} ELSE {1, 2}

\* Variant: the suspect's results are read from the first slot as well.
SlotOfFirst(d) == 1

SlotOf(d) == IF d = legit THEN 1 ELSE 2

Exit == [why : {"suppressed", "unresolved", "quality", "verdict"},
         about : {"target", "suspect", "target date", "suspect date",
                  "target certificate", "suspect certificate", "pair"},
         causes : SUBSET {"target RDAP", "target TLS", "suspect RDAP", "suspect TLS"}]

Init ==
    /\ \E pair \in Pairs : legit = pair[1] /\ suspect = pair[2]
    /\ now \in Clocks
    /\ stage = "preflight"
    /\ expired = FALSE
    /\ doomed = FALSE
    /\ probes = [i \in Slots |-> {}]
    /\ fetched = [i \in Slots |-> {}]
    /\ asking = {}
    /\ target = {} /\ sus = {}
    /\ exit = {}
    /\ result = {}

\* The global context ends.  What is under way may still win the race; what
\* is started later cannot.
Expire ==
    /\ ~expired
    /\ stage # "done"
    /\ expired' = TRUE
    /\ UNCHANGED <<args, stage, doomed, probes, fetched, asking, target, sus, exit, result>>

-----------------------------------------------------------------------------
(* Pre-flight.                                                             *)

\* One slot's dns.CheckDomain returns.
Probed(i) ==
    /\ stage = "preflight"
    /\ i \in Slots /\ probes[i] = {}
    /\ \E dc \in Checks : probes' = [probes EXCEPT ![i] = {dc}]
    /\ UNCHANGED <<args, stage, expired, doomed, fetched, asking, target, sus, exit, result>>

CheckOf(d) == CHOOSE dc \in Checks : dc \in probes[SlotOf(d)]

\* Variant: the suspect is let through on the target's liveness.
GatedOnTarget ==
    /\ stage = "preflight"
    /\ \A i \in Slots : probes[i] # {}
    /\ IF Gate(CheckOf(legit)) = "pass"
       THEN stage' = "fetch" /\ doomed' = expired /\ UNCHANGED exit
       ELSE /\ exit' = {[why |-> Gate(CheckOf(legit)), about |-> "target", causes |-> {}]}
            /\ stage' = "done"
            /\ UNCHANGED doomed
    /\ UNCHANGED <<args, expired, probes, fetched, asking, target, sus, result>>

\* pg.Wait() returns; the first role whose domain the system does not resolve
\* ends the run, target first.
Gated ==
    /\ stage = "preflight"
    /\ \A i \in Slots : probes[i] # {}
    /\ LET refuse(role, d) ==
             /\ exit' = {[why |-> Gate(CheckOf(d)), about |-> role, causes |-> {}]}
             /\ stage' = "done"
             /\ UNCHANGED doomed
       IN  IF Gate(CheckOf(legit)) # "pass" THEN refuse("target", legit)
           ELSE IF Gate(CheckOf(suspect)) # "pass" THEN refuse("suspect", suspect)
           ELSE stage' = "fetch" /\ doomed' = expired /\ UNCHANGED exit
    /\ UNCHANGED <<args, expired, probes, fetched, asking, target, sus, result>>

-----------------------------------------------------------------------------
(* Fetch.                                                                  *)

\* Variant: a fetch that starts too late waits for its context for ever.
FetchedInTime(i) ==
    /\ stage = "fetch" /\ ~doomed
    /\ i \in Slots /\ fetched[i] = {}
    /\ \E a \in UNION {AnswersTo(dc) : dc \in probes[i]} :
          fetched' = [fetched EXCEPT ![i] = {a}]
    /\ UNCHANGED <<args, stage, expired, doomed, probes, asking, target, sus, exit, result>>

\* One slot's fetchDomain returns.
Fetched(i) ==
    /\ stage = "fetch"
    /\ i \in Slots /\ fetched[i] = {}
    /\ \E a \in IF doomed THEN {NoAnswers} ELSE UNION {AnswersTo(dc) : dc \in probes[i]} :
          fetched' = [fetched EXCEPT ![i] = {a}]
    /\ UNCHANGED <<args, stage, expired, doomed, probes, asking, target, sus, exit, result>>

InfoOf(d) == {Info(d, CheckOf(d), a, now) : a \in fetched[SlotOf(d)]}

\* Variant: the caller goes on with the first domain that is in.
FetchJoinedEarly ==
    /\ stage = "fetch"
    /\ \E i \in Slots : fetched[i] # {}
    /\ target' = InfoOf(legit)
    /\ sus' = InfoOf(suspect)
    /\ stage' = "authority"
    /\ doomed' = expired
    /\ asking' = {"dmarc", "spf"}
    /\ UNCHANGED <<args, expired, probes, fetched, exit, result>>

\* fg.Wait() returns; target and sus are copied out of the results map.
FetchJoined ==
    /\ stage = "fetch"
    /\ \A i \in Slots : fetched[i] # {}
    /\ target' = InfoOf(legit)
    /\ sus' = InfoOf(suspect)
    /\ stage' = "authority"
    /\ doomed' = expired
    /\ asking' = {"dmarc", "spf"}
    /\ UNCHANGED <<args, expired, probes, fetched, exit, result>>

-----------------------------------------------------------------------------
(* Sender authority.                                                       *)

\* CheckDMARC returns; without an answer the policy stays unset.
AskedDMARC ==
    /\ stage = "authority" /\ "dmarc" \in asking
    /\ \E policy \in IF doomed THEN {{}} ELSE Option(Policy) :
          target' = {[t EXCEPT !.dmarc = policy] : t \in target}
    /\ asking' = asking \ {"dmarc"}
    /\ UNCHANGED <<args, stage, expired, doomed, probes, fetched, sus, exit, result>>

\* CheckSPFAuthority returns for the suspect's public address, or else its
\* system one; without an address or an answer the fields stay unset.
AskedSPF ==
    /\ stage = "authority" /\ "spf" \in asking
    /\ \E checked, authorized \in BOOLEAN :
          /\ authorized => checked
          /\ checked => ~doomed /\ \A s \in sus : s.pubIP # {} \/ s.sysIP # {}
          /\ sus' = {[s EXCEPT !.spfChecked = checked, !.spfAuthorized = authorized] : s \in sus}
    /\ asking' = asking \ {"spf"}
    /\ UNCHANGED <<args, stage, expired, doomed, probes, fetched, target, exit, result>>

-----------------------------------------------------------------------------
(* Verdict.                                                                *)

\* The error causes kept for the fail-closed message.
Causes ==
    LET failed(d, field) == \E a \in fetched[SlotOf(d)] : a[field] = {}
    IN  {c \in {"target RDAP"} : failed(legit, "rdap")}
        \union {c \in {"target TLS"} : failed(legit, "cert")}
        \union {c \in {"suspect RDAP"} : failed(suspect, "rdap")}
        \union {c \in {"suspect TLS"} : failed(suspect, "cert")}

\* sg.Wait() returns; the quality gate, then Score.
Concluded ==
    /\ stage = "authority"
    /\ asking = {}
    /\ \E t \in target, s \in sus :
         LET complaint == VerifyDataQuality(t, s)
         IN  IF complaint # "none"
             THEN /\ exit' = {[why |-> "quality", about |-> complaint, causes |-> Causes]}
                  /\ UNCHANGED result
             ELSE /\ exit' = {[why |-> "verdict", about |-> "pair", causes |-> {}]}
                  /\ result' = {Score(t, s)}
    /\ stage' = "done"
    /\ UNCHANGED <<args, expired, doomed, probes, fetched, asking, target, sus>>

Exited == stage = "done" /\ UNCHANGED vars

Next ==
    \/ Expire
    \/ \E i \in {1, 2} : Probed(i) \/ Fetched(i)
    \/ Gated \/ FetchJoined
    \/ AskedDMARC \/ AskedSPF
    \/ Concluded
    \/ Exited

\* Every lookup carries its own deadline, so each goroutine returns and each
\* join then happens; the context itself need not expire.
Fairness ==
    /\ \A i \in {1, 2} : WF_vars(Probed(i)) /\ WF_vars(Fetched(i))
    /\ WF_vars(Gated) /\ WF_vars(FetchJoined)
    /\ WF_vars(AskedDMARC) /\ WF_vars(AskedSPF)
    /\ WF_vars(Concluded)

Spec == Init /\ [][Next]_vars /\ Fairness

-----------------------------------------------------------------------------
(* Properties.                                                             *)

\* Types, and which stage leaves what behind: the domain data exists from the
\* sender-authority stage on, the exit exactly at the end, a result exactly
\* with a verdict.  (main.go:291-424)
TypeOK ==
    /\ legit \in Domain /\ suspect \in Domain /\ now \in Clocks
    /\ stage \in {"preflight", "fetch", "authority", "done"}
    /\ expired \in BOOLEAN /\ doomed \in BOOLEAN
    /\ doomed => expired
    /\ probes \in [Slots -> Option(Checks)]
    /\ fetched \in [Slots -> Option(Answers)]
    /\ asking \subseteq {"dmarc", "spf"}
    /\ target \in Option(DomainData) /\ sus \in Option(DomainData)
    /\ exit \in Option(Exit)
    /\ exit # {} <=> stage = "done"
    /\ stage = "authority" => target # {} /\ sus # {}
    /\ target # {} => \A i \in Slots : fetched[i] # {}
    /\ result # {} <=> \E e \in exit : e.why = "verdict"

RealSlot(role) == IF role = "suspect" /\ suspect # legit THEN 2 ELSE 1
Role == {"target", "suspect"}

\* What the run has in hand of a role's domain.
LiveAt(role) == \E dc \in probes[RealSlot(role)] : dc.systemLive
DatedAt(role) == \E a \in fetched[RealSlot(role)] : \E r \in a.rdap : RegistrationDate(r) # {}
CertifiedAt(role) ==
    \E a \in fetched[RealSlot(role)] : \E c \in a.cert :
        IssuerName(c) # {} \/ Classify(c.policies) # "Unknown"

\* No verdict is printed on missing data: both domains resolved for the
\* system, and both have a registration date and a certificate identity that
\* really came back.  (score.go:79-101, main.go:316-326, 376-396)
FailClosed ==
    result # {} => \A role \in Role : LiveAt(role) /\ DatedAt(role) /\ CertifiedAt(role)

\* Until both domains have passed the gate, neither is contacted over RDAP or
\* TLS.  (main.go:316-343)
NothingContactedBeforeGate ==
    (\E i \in Slots : fetched[i] # {}) => \A role \in Role : LiveAt(role)

\* A refusal names a side that really is at fault: a dark domain (the suspect
\* only when the target is live), a missing date, a certificate that says
\* nothing.  (main.go:316-326, score.go:81-100)
RefusalIsJustified ==
    \A e \in exit :
        /\ e.why \in {"suppressed", "unresolved"} =>
              /\ ~LiveAt(e.about)
              /\ e.about = "suspect" => LiveAt("target")
        /\ e.why = "quality" =>
              \/ e.about = "target date" /\ ~DatedAt("target")
              \/ e.about = "suspect date" /\ ~DatedAt("suspect")
              \/ e.about = "target certificate" /\ ~CertifiedAt("target")
              \/ e.about = "suspect certificate" /\ ~CertifiedAt("suspect")

\* A side as the fetch left it.
Unasked(side) == [side EXCEPT !.spfChecked = FALSE, !.spfAuthorized = FALSE, !.dmarc = {}]

\* Each side of the verdict is built from its own domain's probe and fetch,
\* also when both sides share one slot.  (main.go:308-315, 344-349)
EvidenceStaysWithItsSide ==
    /\ \A t \in target, dc \in probes[1], a \in fetched[1] :
          Unasked(t) = Info(legit, dc, a, now)
    /\ \A s \in sus, dc \in probes[RealSlot("suspect")], a \in fetched[RealSlot("suspect")] :
          Unasked(s) = Info(suspect, dc, a, now)

\* Every run ends.  (main.go:285-424)
Termination == <>(exit # {})

\* The run as Triage sees it.
Piece == {"live", "age", "cert"} \X Role
In(piece) ==
    CASE piece[1] = "live" -> LiveAt(piece[2])
      [] piece[1] = "age"  -> DatedAt(piece[2])
      [] piece[1] = "cert" -> CertifiedAt(piece[2])
Settled(piece) ==
    IF piece[1] = "live" THEN probes[RealSlot(piece[2])] # {}
                         ELSE fetched[RealSlot(piece[2])] # {}

Abstract == INSTANCE Triage WITH
    Pieces    <- Piece,
    Mandatory <- Piece,
    have      <- {p \in Piece : In(p)},
    lost      <- {p \in Piece : Settled(p) /\ ~In(p)},
    outcome   <- IF exit = {} THEN "pending"
                 ELSE IF result # {} THEN "verdict" ELSE "refused"

\* The pipeline implements Triage.
ImplementsTriage == Abstract!Spec

-----------------------------------------------------------------------------
(* What the documents say and the code does not do.                        *)

\* "System-dark/public-live suppression splits score on the suspect"
\* (README.md:35): a suppressed suspect gets a TAMPERING finding.
SuppressionScores ==
    stage = "done" /\ (\E dc \in probes[RealSlot("suspect")] : dc.kind = "suppression")
        => \E r \in result : "TAMPERING" \in r.findings

\* "the tool errors out ..., and the message names the underlying cause(s)"
\* (README.md, Scoring scale): a quality refusal lists a cause.
RefusalNamesItsCause ==
    \A e \in exit : e.why = "quality" => e.causes # {}
=============================================================================
