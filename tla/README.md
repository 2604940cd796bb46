# phisherslapper: a TLA+ model

phisherslapper compares a *target* domain (a brand) with a *suspect* domain and
prints a risk verdict. It asks DNS, RDAP, TLS endpoints and an IP-to-AS service
about both, concurrently and against deadlines, and promises three things that
are easy to lose in that concurrency: a verdict is never printed on missing
data (*fail closed*), a lookup that failed never counts for or against anybody
(*fail open* per signal), and what the observer's own network does wrong is
never held against the suspect by way of the target. This directory holds TLA+
modules translated from the source, TLC runs over small instances, and proofs
checked by TLAPS. Paths below are relative to the repository.

## 1. The system

| Part | Source | State it keeps | Operations | What makes it hard |
|---|---|---|---|---|
| Resolver cross-check | `internal/dns/resolvers.go`, `hosts.go` | one `resolverOutcome` per goroutine, the shared `outcomes` slice | `CheckDomain`, `classifyOutcome`, `detectSplit`, `nsSetsEqual` | concurrent writers, arrival order, abstentions; the zero value of a slot means *live* |
| Retry loops | `internal/rdap/rdap.go`, `internal/cert/cert.go` | attempt, last error, two deadlines | `Query`, `InspectDomain`, `InspectAddr` | a per-attempt deadline inside a global one, a pause a context can cut short |
| Per-domain fetch | `cmd/phisherslapper/main.go` `fetchDomain`, `cert.ComparePaths`, `dns.ASNMatch` | a shared `domainResult` | up to six probe goroutines, join, build | lock-free writes to one struct, partial failure, one dial that answers for two paths |
| Pipeline | `main.go` `run` | probes and fetches per unique domain, `target`, `sus`, the 15s context | pre-flight, gate, fetch, sender authority, quality gate, score | the budget can end anywhere; one slot serves two roles when the domains are equal |
| Scoring | `internal/score/score.go` | none (pure) | `VerifyDataQuality`, `Score`, `Verdict`, `classifyRelationship` | interacting discounts, display-only evidence, an override after the fact |
| SPF | `internal/dns/spf.go` | lookup budget, call stack | `evalDomain`, `evalMechanisms`, `evalAddrMech`, `spend` | recursion over other people's records, cycles, failure deep inside a call |
| Labels | label functions of `score.go` | none (pure, with a loop over a map) | `rootLabel`, `normalizeConfusables`, `levenshtein`, `labelsSimilar` | the iteration order of a Go map; boundaries |
| SPF text | parsers of `spf.go` | none (pure) | `parseSPFRecord`, `splitDualCIDR`, `parseCIDROrHost`, `addrCovered` | what is dropped silently |
| Documents | `date.go`, `Classify`, `FromLeaf` of `cert.go`, parsers of `rdap.go` | none (pure) | choosing one event, one entity, one name among many; an age across time zones | order of preference, a day too many |
| Reports | `internal/report/report.go` | none | `Scale`, the verbose and JSON reports | the same evidence is worded twice, by separate code |
| Command line, build driver, record and host-file text | `main.go` arguments, `compile.go`, `dns.go`, `hosts.go` | none | sequential I/O and string parsing | little a model would show |

How they interact: `run` starts one `CheckDomain` per unique domain and waits
for all; the gate lets the run go on only when the system resolver found both
domains. It then starts one `fetchDomain` per unique domain, handing each its
`DomainCheck` so that no resolver is asked twice; every fetch starts RDAP and
TLS probes (each a retry loop) and, with an address on both resolution paths,
per-path TLS and AS probes. Then DMARC and SPF are asked of the target. Finally
`VerifyDataQuality` refuses or `Score` speaks. All stages share one 15 s
context; each call has its own deadline below it.

## 2. Modules

| Module | Models | Notes |
|---|---|---|
| `Resolvers` | classification, the split detector, the aggregate and the gate, as functions | slot 0 is the system resolver; `ZeroOutcome` is what a slot holds before its goroutine writes it |
| `CheckDomain` | the fan-out: `LookupIP`, `LookupNS`, `Publish` per goroutine, `Join` | `out` is a goroutine's local outcome, `outcomes` the shared slice |
| `Retry` | the loop of `Query`, `InspectDomain` and `InspectAddr` in discrete time | `Tick` is time passing while a call or a pause is pending; one action per way out of either |
| `Score` | `VerifyDataQuality`, all signals, points, findings (as tags), verdict, relationship | unknown values are `{}`, known ones singletons |
| `Report` | the published scale, and the DNS and path sections of the verbose report | lines are tags, like findings |
| `Documents` | what is read out of an RDAP response and a leaf certificate, and `AgeDays` | days are integers, a zone an offset in hours |
| `Scoring` | `Score` called on every pair of a set | properties compare a result with the results of neighbouring inputs |
| `Evidence` | which probes a `DomainCheck` starts, what each can write, `ComparePaths`, `ASNMatch`, and the `DomainData` built from the answers | `Answers` are the fields of `domainResult` that goroutines write |
| `FetchDomain` | `fetchDomain`: `Finish(probe)` per goroutine, `Join` | |
| `Triage` | the contract of a run: pieces of evidence are got or lost for good; a verdict needs all mandatory ones, a refusal a lost one | abstract, not translated from code |
| `Pipeline` | `run()` after argument parsing | takes a probe and a fetch as one step each, which `CheckDomain` and `FetchDomain` justify; implements `Triage` |
| `SpfTerms` | what a record parses to, what its addresses and networks stand for, which addresses a term covers | a record is a sequence of fields, a field its kind, its qualifier and the text behind them cut at its slashes; `valueOf` strips the slash in front, as the parser does; a prefix length gives a set of addresses; a modifier is passed over like any other field that is skipped |
| `Spf` | the recursive evaluator as an explicit stack machine | the Go call stack is `stack`; `zone` is what DNS holds |
| `Labels` | `labelsSimilar` step by step: the range over the map, the distance row by row | a label is a sequence of characters |
| `MC*` | constants for TLC | `Retry` needs no MC module |
| `CheckDomainProofs`, `RetryProofs`, `ScoringProofs`, `FetchDomainProofs`, `PipelineProofs`, `SpfProofs`, `LabelsProofs` | proofs about the module each is named for | section 6 |
| `EvidenceProofs` | lemmas about `Evidence` and `Documents`: what `Info` reads out of the answers | used by `FetchDomainProofs` and `PipelineProofs` |

`Score` EXTENDS `Resolvers`, `Documents` and `Report` EXTEND `Score`, `Evidence`
EXTENDS `Documents`, `Scoring` EXTENDS `Report`, `FetchDomain` both `Evidence` and
`Report`, `Pipeline` `Evidence`, and `Spf` EXTENDS `SpfTerms`. So the gate, the split
kinds, the ages and the scoring the pipeline uses are the definitions the
component modules check.

How the models compose: a passing `FetchIsAtomic` says that whatever the
interleaving, a fetch returns something `AnswersTo(dc)` contains; `Fetched` in
`Pipeline` picks from exactly that set. A `DomainCheck` in `Pipeline` is picked
from a set `Checks` whose shapes `CheckDomain` reaches. A probe in `FetchDomain` either has an
answer or not, which is what `Retry` shows of the loops.

`Labels` stands for the relation `Similar` of
`Score`, a constant there: `VerdictIsMutual` says the verdict is a function of how
the two labels read, whichever is the target's. `Spf` stands for the outcomes of
the sender-authority stage of `Pipeline`: not-ok, authorized or denied.

Abstractions that are shared: addresses, issuers, registrars, name servers, AS
numbers and fingerprints are model values, since the code only compares them; a
`DomainCheck` keeps the first address per side, as no other is used; a
registration date is a day number when `ValidISODate` accepts it and absent
otherwise (`ValidISODate` and `AgeKnown` agree, so the second pair of quality
checks never fires on its own); SANs are names with or without a wildcard in
`Documents`, and from `FromLeaf` on the set of domains they cover, so
`sanCovers` is membership.

Definitions whose comment begins with "Variant:" are plausible slips in the
neighbouring definition. They are used by no specification; `PROJECT.json` names,
for each property, the variant under which TLC finds it violated.

## 3. Runs

| Run | Question | Instance |
|---|---|---|
| `check_domain` | does the aggregate depend only on what was answered, and does tampering need two contradicting votes? | the code's two pinned resolvers, 2 name servers, 2 addresses: every outcome, delegation and order |
| `retry` | does a probe always end in its budget, use its attempts, and never give one attempt the time of another? | 3 attempts (the code's number), per call 3, pause 2, every remaining budget from 0 to 15, beyond the 13 a full schedule takes |
| `fetch_domain` | is a fetch atomic to its caller, and is what it reads out of the answers so? | one domain; no public path (calm, or with a horizon and a hosts entry), one shared endpoint, two endpoints; 4 RDAP documents, 2 certificates, addresses with one and with two origins; zones UTC-12, UTC, UTC+14 |
| `pipeline` | does a run fail closed whatever fails or expires, and implement `Triage`? | two domains and a domain against itself, 6 shapes of `DomainCheck`, two certificates, two RDAP documents, UTC+9 |
| `scoring` | do points, findings and verdict agree, and are they monotone and neutral where they should be? | 32 targets and 12 960 suspects: ages around the 30/90/365 thresholds, every other signal on and off |
| `spf` | does evaluation end within the budget, does a failure stay a failure, and is nobody authorized whom no record vouches for? | every record of up to 2 of 22 fields for the target and of up to 1 for a second domain, cycles included; 3 suspect addresses of two families; limit 4 instead of 10 |
| `labels` | does the fold mean one thing in whatever order the map is walked, and does the distance say what it should? | every label of up to 3 of five characters that make or share confusables, and two longer ones, under all 720 orders; every pair of two-letter labels of 3 and 4 characters; labels on both sides of the floor of 5 |
| `pipeline_suppression`, `pipeline_cause`, `fetch_origin`, `spf_plus`, `spf_prefix` | do five statements of documents and comments hold? | the instances above; TLC finds each violated (section 7) |

Bounds, and why they are enough. The split detector compares resolvers pairwise
and distinguishes the system from the others, so one system and two pinned
resolvers show every pattern. Two addresses and two name servers are what
"equal" and "different" need; likewise two certificates and two AS numbers per
path. In `pipeline` one AS number and one registrar suffice, as the signals built on
them are checked in `scoring` and `fetch_domain`. The RDAP documents of
`fetch_domain` have an expiration before the registration, a contact before the
registrar, a date still to come and one that cannot be read; the zones are the two
farthest from UTC, where the age can be off. The SPF limit of 4 is exhausted by
chains a small zone can hold (a cycle exhausts any limit), and what the limit is
appears nowhere but in `spend`; an answer with two exchangers, in whatever order,
lets the loop spend twice. Labels of three characters hold every overlap of two
confusables, as none is longer than two; the first character of one label is fixed
in the pairs for the distance, as exchanging the two letters in both changes nothing.
The clock of `Retry` needs no bound of its own: it stops
at the deadline.

TLC checks deadlock in every run: each module has an explicit stuttering step
(`Returned`, `Exited`) for the state in which the program has ended, so a
deadlock would be a program that hangs.

## 4. What the properties say

* `CheckDomain`: `VotesAreReal` (votes and endpoints are the resolvers' own,
  by slot order and not by arrival), `TamperingNeedsTwoVotes`,
  `SplitAgreesWithGate` (the gate and the split detector, computed separately,
  agree), `Termination`.
* `Retry`: `DoneByDeadline`, `GivesUpOnlyWhenSpent`, `WithinSchedule`,
  `Termination`.
* `FetchDomain`: `FetchIsAtomic`, `DivergenceIsReal` (a path signal rests on two
  different addresses that both answered, with different identities; an AS signal on
  two lookups that both answered, with different origins of the endpoints asked
  about, which may be two origins of one shared address: section 7, item 5),
  `AgeNeverOverstated` (in every zone and event order), `VerboseShowsWhatCounts` (what
  is noted of a target and what is charged to a suspect is what the verbose report
  shows of it, although each is worded by code of its own), `Termination`.
* `Pipeline`: `FailClosed`, `NothingContactedBeforeGate`, `RefusalIsJustified`,
  `EvidenceStaysWithItsSide`, `Termination`, `ImplementsTriage`.
* `Scoring`: `ScoreIsExplained` (the score is what the printed findings add up to
  on the published scale, and the verdict is the published one),
  `TargetTroubleNeverScores`, `InconclusiveIsNeutral`, `WorseEvidenceNeverHelps`,
  `EndorsementNeverHurts`, `LegitimateNeedsATie`, `WithinScale` (the published total
  of 330).
* `Spf`: `RecursionIsPaidFor`, `DecisionRestsOnItsTerm`, `AuthorizationIsEarned`
  (some record the target leads to vouches for the address, stated over the zone
  and not over the walk), `UnknownIsFinal`, `Termination`.
* `Labels`: `FoldIgnoresMapOrder` (against a reading of the label in one pass),
  `RowsAreDistances` (every entry of every row, against a definition by
  alignments), `VerdictIsMutual`.

`FailClosed` and `RefusalIsJustified` are stated over the raw probe and fetch
answers (`RealSlot`), not over the `DomainData` the code derives, so that a
mix-up of slots or sides would show.

## 5. Fairness

Weak fairness of each goroutine's steps and of each join, and nothing else:
every lookup is made under `context.WithTimeout` (or a retry loop over such
calls), so it returns, and a `WaitGroup` or `errgroup` whose goroutines have all
returned lets its waiter go on. `Expire` in `Pipeline` has no fairness: a run may
well end before its budget does. In `Retry` fairness covers the clock together with
the loop's own steps; a call may stay silent up to its deadline but not beyond.
`Termination` of `Retry` then says that every failure is counted: once the context has
ended a call fails in no time, and a loop that retries a timeout without counting it
(`FailFreeOfTimeouts`) spins for ever.
No property needs a peer to answer.

## 6. Proofs

TLAPS proves the following for every value of the constants that satisfies the
named assumptions; TLC shows the same properties on the instances of section 3.

| Module | Theorem | Property | For every |
|---|---|---|---|
| `CheckDomainProofs` | `TypeCorrect`, `VotesTheorem`, `TwoVotesTheorem`, `SplitTheorem` | `TypeOK`, `VotesAreReal`, `TamperingNeedsTwoVotes`, `SplitAgreesWithGate` | number of pinned resolvers, set of name servers and of addresses (`PinnedAssumption`) |
| `RetryProofs` | `TypeCorrect`, `DeadlineTheorem`, `PersistenceTheorem`, `ScheduleTheorem` | `TypeOK`, `DoneByDeadline`, `GivesUpOnlyWhenSpent`, `WithinSchedule` | number of attempts, per-call deadline, pause and budget (`RetryAssumption`) |
| `FetchDomainProofs` | `TypeCorrect`, `AtomicTheorem`, `DivergenceTheorem`, `AgeTheorem`, `VerboseTheorem` | `TypeOK`, `FetchIsAtomic`, `DivergenceIsReal`, `AgeNeverOverstated`, `VerboseShowsWhatCounts` | `DomainCheck`, RDAP document, certificate, origin list and clock (`EvidenceAssumption`, `FetchAssumption`, `PinnedAssumption`) |
| `ScoringProofs` | `ExplainedTheorem`, `NeutralTheorem`, `WorseTheorem`, `EndorsementTheorem`, `TargetTroubleTheorem`, `TieTheorem`, `ScaleTheorem` | `ScoreIsExplained`, `InconclusiveIsNeutral`, `WorseEvidenceNeverHelps`, `EndorsementNeverHurts`, `TargetTroubleNeverScores`, `LegitimateNeedsATie`, `WithinScale` | set of targets and of suspects (`ArgumentsAssumption`), similarity relation (`SimilarAssumption`) |
| `PipelineProofs` | `TypeCorrect`, `FailClosedTheorem`, `GateTheorem`, `SidesTheorem`, `RefusalTheorem`, `Refinement` | `TypeOK`, `FailClosed`, `NothingContactedBeforeGate`, `EvidenceStaysWithItsSide`, `RefusalIsJustified`, `ImplementsTriage` | pair of arguments, certificate, RDAP document and `DomainCheck` (`EvidenceAssumption`, `PipelineAssumption`, `SimilarAssumption`) |
| `SpfProofs` | `TypeCorrect`, `RecursionTheorem`, `DecisionTheorem`, `EarnedTheorem`, `UnknownTheorem` | `TypeOK`, `RecursionIsPaidFor`, `DecisionRestsOnItsTerm`, `AuthorizationIsEarned`, `UnknownIsFinal` | DNS zone, target, suspect address and lookup limit (`TermsAssumption`, `SpfAssumption`) |
| `LabelsProofs` | `FoldTheorem`, `RowsTheorem`, `VerdictTheorem` | `FoldIgnoresMapOrder`, `RowsAreDistances`, `VerdictIsMutual` | set of pairs of domains, with labels of any length (`LabelsAssumption`) |

Each proof has one lemma per action and goes through an inductive invariant
`IInv`, since none of the properties is inductive by itself:

* `CheckDomain`: the slice must be known to hold finished answers only. A slot
  that has not been written reads as live (the zero value), so `OnlyLiveGoesOn`
  ties a goroutine's local outcome to the step it has reached, and
  `ResultIsAggregate` says that a result is the aggregate of the full slice. The
  three properties then follow from lemmas about `classifyOutcome`, `Aggregate` and
  `detectSplit` alone, without the state machine.
* `Retry`: `WithinSchedule` bounds the clock by the attempt number, and forgets
  when the pending call or pause began. `Schedule` says when it can have begun, and
  that no pause follows the last attempt. The products of the constants are dealt
  with in one lemma, `CallStartFacts`.
* `FetchDomain`: `FetchIsAtomic` speaks of the end. The invariant has it all along:
  whatever has been written so far is in `AnswersTo(dc)`, with a probe that has not
  returned taken for one that failed, so each `Finish` moves from one member of that
  set to another. The other three properties are then about a single `Info` of
  possible answers and need no interleaving: `DivergenceTheorem` goes back to the one
  dial that serves both paths when they share an endpoint, `AgeTheorem` rests on
  `AgeWithinADay`, the arithmetic of a zone offset of less than a day.
* `Scoring`: a result is `Score` of the arguments, so these are laws of `Score`. What
  each needs is which signals two suspects share (`SameSignals`) or which one only the
  second has (`MoreSignals`); the discounts and the halving of the age tier, which
  could break monotonicity, are met in these two lemmas once. `ExplainedTheorem` has
  one fact per tag of the published scale: it is among the findings exactly if its
  points are in the sum (`ScoredTags`, `AgeTag`), and notes score nothing.
  `ScaleTheorem` and `TieTheorem` rest on the ranges of the parts (`PointsRange`) and on
  what a clean score rules out (`CleanIsRelated`).
* `Pipeline`: `Staging` says what each stage finds done; without it a probe that
  comes in late would change the evidence under a side already built.
  `PastGate` carries the gate's decision through the later stages.
  `EvidenceStaysWithItsSide` is itself a conjunct, and turns the quality gate's view
  of two derived `DomainData` (`ResultHasData`) into a statement about the raw
  answers, which is what `FailClosed` is. `RefusalIsJustified` is the other direction:
  a `DomainData` without a date or an identity comes from answers without one
  (`InfoHidesNothing`).
* `ImplementsTriage` is proved step by step: `InitMaps` for the initial states, then one
  lemma per way a step shows in the contract: `GatherMaps` (a probe or a fetch settles
  the pieces of evidence of every role its slot serves, two at once when the domains are
  equal), `GatedMaps` and `ConcludedMaps` (a refusal or a verdict), `SilentMaps` (a
  stutter). `Triage!Spec` has no fairness, so nothing of the refinement is left to TLC.
* `Spf`: the properties speak of the innermost call, and a `return` makes the caller the
  innermost one again. So `StackInv` says of every call in progress what they need: its
  name is one the target's record leads to, no term it has passed settles the matter,
  and every call but the last stands at an include. `BudgetInv` adds that the budget is
  below zero only with an unknown answer, whence it is never spent a second time.
  The zones may have cycles of any shape; `AuthorizationIsEarned` needs no induction
  over them, as `LedTo` is the least set closed under delegation. The evaluator reads a
  term by its value, cut in three; `Vouches` reads the field's text. `ValueIsOfTheText`,
  `ThirdPart` and `CidrIsNamed` say that a network the evaluator uses is one the text
  spells out, around an address of the host the text means. TLC checked this
  invariant on a smaller instance before it was proved.

* `Labels`: what a recursive function over a label computes takes an induction, and the
  induction theorems of the library are out of the provers' reach. The well-foundedness
  of the naturals is not: applied to the set of lengths or positions at which a claim fails
  it gives the least one (`LeastNatural`), and from the end of a label the last one
  (`Backwards`). On these two facts rest
  * `RowsTheorem`: `Recurrence` takes the three cases of the table (drop a character of
    either label, or partner the last two) out of the meaning of an alignment, and
    `NextRowIs` shows that the computed row is the one of these distances;
  * `FoldTheorem`: `Fused` says that folding one more entry after others is reading all of
    them at once. It needs that no two confusables share a character that would make
    their order matter (`ConfusableFacts`), which is exactly what
    `ConfusablesOverlapping` breaks. So the invariant is that a label is folded with the
    entries visited so far as if in one pass;
  * `VerdictTheorem`: the distance has no side (`Symmetric`), and containment in one
    direction or the other has none either (`WithinEitherWay`).

Three of these changed the model. The sum of `ScoreIsExplained` is written out by tag
(`PublishedPoints`) where it was a fold over a set, of which the prover can say nothing;
an include or a redirect in `SpfTerms` always names a host, as the record's parser
makes sure; and `Labels` names the parts of its reference definition (`Alignment`,
`Price`). `LabelsAssumption` says that every domain has a label, since a label, if an
empty one, is what comes before the first dot.

Only model-checked: every `Termination`, since liveness and ENABLED are beyond this
prover.

## 7. Where the documents and the code part

Each of the five is a run that TLC ends with a counterexample.

1. `README.md:35` has suppression splits score on the suspect. `run` refuses
   every suppressed domain at the gate (`main.go:318-321`), so the +50 for a
   suppression can never be printed; only delegation splits score.
   `SplitAgreesWithGate` states the positive side. (`pipeline_suppression`)
2. `README.md:274` has a refusal name its underlying causes. The causes are the
   errors of lookups (`main.go:378-390`), so an RDAP answer without a
   registration event is refused without any. (`pipeline_cause`)
3. `docs/dns.html:158` has only a `+` match authorize. `-include:x` authorizes
   whatever `x` authorizes (`spf.go:220`). (`spf_plus`)
4. `spf.go:237` has `evalAddrMech` resolve a mechanism with its dual CIDRs.
   `splitDualCIDR` hands the length of `a:host/24` or `a//64` to `parseCIDROrHost`
   (`spf.go:316`, `spf.go:319`), which reads neither an address nor a network in it and
   drops it, so the term covers the host's own address alone. (`spf_prefix`)
5. `score.go:44` calls `ASNMatch` "both paths share an origin AS". Only the first
   field of one origin text is kept per address (`asn.go:57`), so two
   addresses announced by a common AS read as split when another of their
   origins comes first. (`fetch_origin`)

Met on the way and not made into a run: the suppression message says NXDOMAIN
also when the system resolver merely timed out (`main.go:319`); the doc comment
of `isIssuerNote` promises comparable validation levels, which only its caller
checks (`score.go:487`, `score.go:159`); a retry cut short returns the
context's error and hides the last real one (`rdap.go:58-59`); a failed address
lookup of a mail exchanger is passed over (`spf.go:275-277`) although the file's
header promises not-ok; the registration date is midnight UTC and today is local
midnight, so east of UTC the age is a day short (`date.go:38-42`), 29 days on the
30th; the parser strips the slash behind `a` and `mx` like a
colon (`spf.go:130`, `spf.go:132`), so `a/24` asks for a host called 24, `a//2001:db8::/32`
loses its network, and `a/192.0.2.1` authorizes that address whether or not the domain has
it; `rootLabel` takes the leftmost label, so a `www.` domain is compared as
`www` (`score.go:286-288`); the verbose report words an AS lookup that was never
made, for a domain with a hosts entry and no public path, as unanswered (`report.go:314`); a run without
findings has `null` for its list in the JSON report (`report.go:193`).

## 8. Plan

Done: the modules above, in this order: `Resolvers`, `CheckDomain`, `Retry`,
`Score`, `Scoring`, `Evidence`, `FetchDomain`, `Triage`, `Pipeline`, `Spf`, the first proofs
of section 6, then `Labels`, `SpfTerms`, `Documents` and `Report`, with `Spf`,
`Evidence` and `FetchDomain` rewritten on top of them.

Then the proofs, in this order: the refusals of `Pipeline` and its refinement of
`Triage`; `FetchDomain` on the lemmas of `EvidenceProofs`; `Spf`; the remaining laws of
`Score`; `Labels`. Every safety property a passing run checks has its theorem now, and
so has the refinement.

Left: the rest of the reports' layout should it ever decide anything.

## 9. Not modelled

* The command line and the build driver (`compile.go`): arguments and files are
  read and written in a fixed order by one goroutine; a model would restate the
  code. The normalisation of a domain name is a string function whose result is
  the model value `domain`.
* The scanners of the hosts file (`hosts.go`) and of the DMARC record: their
  outcomes are `hostsHit` and `dmarc`; neither keeps state, and both end at the
  first line or tag that fits.
* The layout of the human and JSON reports: the lines are the findings of `Score`
  in order, and nothing is decided in them that `Report` does not state.
* The Go library's resolver, TLS and HTTP clients, and the services behind them:
  they are the outcomes they can return.
