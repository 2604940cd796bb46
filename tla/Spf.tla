--------------------------------- MODULE Spf ---------------------------------
(***************************************************************************)
(* The SPF evaluator of internal/dns/spf.go: the target's v=spf1 record is *)
(* evaluated for one IP, term by term, following include and redirect into *)
(* other domains, under a lookup budget that the whole recursion shares.   *)
(* The Go call stack is the variable stack.  DNS holds the same for the    *)
(* whole evaluation, but every single lookup may fail.                     *)
(***************************************************************************)
EXTENDS SpfTerms

CONSTANTS
    Targets, \* the names a record is evaluated for
    Suspects, \* the addresses it is evaluated against
    Zones,   \* what DNS can hold: per name its texts that begin with v=spf1,
             \* its addresses and its mail exchangers
    Limit    \* spfLookupLimit (10)

ASSUME SpfAssumption ==
    /\ Limit \in Nat /\ Targets \subseteq Name /\ Suspects \subseteq Addr
    /\ \A zone \in Zones :
          /\ DOMAIN zone = Name
          /\ \A n \in Name :
                /\ zone[n].addrs \subseteq Addr /\ zone[n].mx \subseteq Name
                /\ \A text \in zone[n].txt : text \in Seq(Field)

VARIABLES
    zone,    \* what DNS holds for each name
    root,    \* the target's domain
    ip,      \* e.suspectIP
    stack,   \* the evalDomain calls in progress, innermost last
    budget,  \* e.budget
    mxLeft,  \* exchangers of the current MX answer still to look up
    pc,      \* fetching a record, evaluating, in an MX loop, returning, done
    answer   \* the (SPFResult, ok) being returned

asked == <<zone, root, ip>>
vars == <<zone, root, ip, stack, budget, mxLeft, pc, answer>>

Call(name) == [name |-> name, at |-> 1]
Top == stack[Len(stack)]

\* The terms of a name's record: of exactly one, and only if it can be read.
Readable(n) ==
    IF Cardinality(zone[n].txt) = 1 THEN UNION {parseSPFRecord(text) : text \in zone[n].txt} ELSE {}

Record == CHOOSE terms \in Readable(Top.name) : TRUE
Current == Record[Top.at]
Target(term) == term.text[1]
AtTerm(kind) == pc = "eval" /\ Top.at <= Len(Record) /\ Current.kind = kind

NoAnswer == [ok |-> TRUE, authorized |-> FALSE, given |-> FALSE]
Unknown == [ok |-> FALSE, authorized |-> FALSE, given |-> TRUE]
Decided(authorized) == [ok |-> TRUE, authorized |-> authorized, given |-> TRUE]

Init ==
    /\ zone \in Zones
    /\ root \in Targets
    /\ ip \in Suspects
    /\ stack = <<Call(root)>>
    /\ budget = Limit
    /\ mxLeft = {}
    /\ pc = "fetch"
    /\ answer = NoAnswer

\* Returning a value from the innermost call.
Return(value) == pc' = "return" /\ answer' = value /\ mxLeft' = {} /\ UNCHANGED stack

\* The loop goes on with the next term.
Advance ==
    /\ stack' = [stack EXCEPT ![Len(stack)].at = @ + 1]
    /\ pc' = "eval"
    /\ UNCHANGED <<mxLeft, answer>>

\* e.spend(1) is called before doing, and the budget goes below zero once.
Spending(doing) ==
    /\ budget' = budget - 1
    /\ IF budget' >= 0 THEN doing ELSE Return(Unknown)

\* LookupTXT returns: an error, a missing or second record, or a record that
\* does not parse is not-ok; otherwise its terms are evaluated.
FetchRecord ==
    /\ pc = "fetch"
    /\ \/ Return(Unknown)
       \/ Readable(Top.name) # {} /\ pc' = "eval" /\ UNCHANGED <<stack, mxLeft, answer>>
    /\ UNCHANGED <<zone, root, ip, budget>>

\* Variant: the catch-all authorizes whatever its qualifier.
AllAuthorizes ==
    /\ AtTerm("all")
    /\ Return(Decided(TRUE))
    /\ UNCHANGED <<zone, root, ip, budget>>

All ==
    /\ AtTerm("all")
    /\ Return(Decided(Current.plus))
    /\ UNCHANGED <<zone, root, ip, budget>>

IP ==
    /\ AtTerm("ip")
    /\ IF ipCovered(Current, ip) THEN Return(Decided(Current.plus)) ELSE Advance
    /\ UNCHANGED <<zone, root, ip, budget>>

\* exists, ptr and unknown terms are skipped; redirect waits for the end.
Skip ==
    /\ AtTerm("skip") \/ AtTerm("redirect")
    /\ Advance
    /\ UNCHANGED <<zone, root, ip, budget>>

\* An address given for a host stands for itself, a number is no domain name.
AddressesOf(host) ==
    IF host \in Addr THEN {host} ELSE IF host \in Name THEN zone[host].addrs ELSE {}
ExchangersOf(host) == IF host \in Name THEN zone[host].mx ELSE {}

Covering(host) == addrCovered(AddressesOf(host), ip, CidrFor(Current, ip))

\* The addresses of the host are looked up: an error, which a host without any
\* is too, or addresses that cover the IP or do not.  For an address nothing
\* is asked.
A ==
    /\ AtTerm("a")
    /\ LET host == HostOf(Current, Top.name)
       IN  Spending(\/ host \notin Addr /\ Return(Unknown)
                    \/ /\ AddressesOf(host) # {}
                       /\ IF Covering(host) THEN Return(Decided(Current.plus)) ELSE Advance)
    /\ UNCHANGED asked

\* The mail exchangers of the host: an error, which none at all is too, or
\* those DNS has.
MX ==
    /\ AtTerm("mx")
    /\ LET host == HostOf(Current, Top.name)
       IN  Spending(\/ Return(Unknown)
                    \/ /\ ExchangersOf(host) # {}
                       /\ mxLeft' = ExchangersOf(host)
                       /\ pc' = "mx"
                       /\ UNCHANGED <<stack, answer>>)
    /\ UNCHANGED asked

\* One exchanger's addresses, in whatever order the answer lists them: covering
\* the IP, or not, or an error, which is passed over like addresses that do not.
MXHost ==
    /\ pc = "mx"
    /\ \E host \in mxLeft :
          Spending(\/ Covering(host) /\ Return(Decided(Current.plus))
                   \/ mxLeft' = mxLeft \ {host} /\ UNCHANGED <<stack, pc, answer>>)
    /\ UNCHANGED asked

MXEnd ==
    /\ pc = "mx" /\ mxLeft = {}
    /\ Advance
    /\ UNCHANGED <<zone, root, ip, budget>>

\* Variant: an include is charged where its own lookups are.
IncludeFree ==
    /\ AtTerm("include")
    /\ stack' = Append(stack, Call(Target(Current)))
    /\ pc' = "fetch"
    /\ UNCHANGED <<zone, root, ip, budget, mxLeft, answer>>

\* Variant: the loop moves on before the included record is evaluated.
IncludeAdvancing ==
    /\ AtTerm("include")
    /\ Spending(/\ stack' = Append([stack EXCEPT ![Len(stack)].at = @ + 1], Call(Target(Current)))
                /\ pc' = "fetch"
                /\ UNCHANGED <<mxLeft, answer>>)
    /\ UNCHANGED asked

\* The record of the included domain is evaluated in a call of its own.
Include ==
    /\ AtTerm("include")
    /\ Spending(/\ stack' = Append(stack, Call(Target(Current)))
                /\ pc' = "fetch"
                /\ UNCHANGED <<mxLeft, answer>>)
    /\ UNCHANGED asked

Redirects == {i \in DOMAIN Record : Record[i].kind = "redirect"}

FollowRedirect ==
    /\ \E i \in Redirects : stack' = [stack EXCEPT ![Len(stack)] = Call(Target(Record[i]))]
    /\ pc' = "fetch"
    /\ UNCHANGED <<mxLeft, answer>>

\* Variant: a redirect is followed free of charge.
EndOfRecordFree ==
    /\ pc = "eval" /\ Top.at > Len(Record)
    /\ IF Redirects = {} THEN Return(Decided(FALSE))
       ELSE IF \E i, j \in Redirects : i # j THEN Return(Unknown)
       ELSE FollowRedirect
    /\ UNCHANGED <<zone, root, ip, budget>>

\* Nothing matched: a neutral denial, one redirect to follow in this call's
\* place, or several, which is an error.
EndOfRecord ==
    /\ pc = "eval" /\ Top.at > Len(Record)
    /\ IF Redirects = {} THEN Return(Decided(FALSE)) /\ UNCHANGED budget
       ELSE IF \E i, j \in Redirects : i # j THEN Return(Unknown) /\ UNCHANGED budget
       ELSE Spending(FollowRedirect)
    /\ UNCHANGED asked

\* Variant: an include that cannot be evaluated is one that did not match.
ReturnOrSkip ==
    /\ pc = "return" /\ Len(stack) > 1
    /\ stack' = LET caller == SubSeq(stack, 1, Len(stack) - 1)
                IN  IF ~answer.authorized
                    THEN [caller EXCEPT ![Len(caller)].at = @ + 1]
                    ELSE caller
    /\ IF ~answer.authorized
       THEN pc' = "eval" /\ answer' = NoAnswer
       ELSE UNCHANGED <<pc, answer>>
    /\ UNCHANGED <<zone, root, ip, budget, mxLeft>>

\* A call returns to the include that made it: not-ok goes on up, a denial
\* lets the loop go on, an authorization is the include's own match.
ReturnToInclude ==
    /\ pc = "return" /\ Len(stack) > 1
    /\ stack' = LET caller == SubSeq(stack, 1, Len(stack) - 1)
                IN  IF answer.ok /\ ~answer.authorized
                    THEN [caller EXCEPT ![Len(caller)].at = @ + 1]
                    ELSE caller
    /\ IF answer.ok /\ ~answer.authorized
       THEN pc' = "eval" /\ answer' = NoAnswer
       ELSE UNCHANGED <<pc, answer>>
    /\ UNCHANGED <<zone, root, ip, budget, mxLeft>>

\* CheckSPFAuthority returns to the sender-authority stage.
Finish ==
    /\ pc = "return" /\ Len(stack) = 1
    /\ pc' = "done"
    /\ UNCHANGED <<zone, root, ip, stack, budget, mxLeft, answer>>

Returned == pc = "done" /\ UNCHANGED vars

Step ==
    \/ FetchRecord
    \/ All \/ IP \/ Skip \/ A \/ MX \/ MXHost \/ MXEnd \/ Include
    \/ EndOfRecord
    \/ ReturnToInclude \/ Finish

Next == Step \/ Returned

\* Every lookup carries a deadline, so the evaluation gets on.
Fairness == WF_vars(Step)

Spec == Init /\ [][Next]_vars /\ Fairness

-----------------------------------------------------------------------------
(* Properties.                                                             *)

\* Types; the calls in progress have records while terms of theirs are being
\* evaluated, and every call but the innermost stands at its include.
\* (spf.go:154-235)
TypeOK ==
    /\ DOMAIN zone = Name /\ root \in Targets /\ ip \in Suspects
    /\ stack \in Seq([name : Name, at : Nat \ {0}]) /\ stack # <<>>
    /\ budget \in -1 .. Limit
    /\ mxLeft \subseteq Name
    /\ mxLeft # {} => pc = "mx"
    /\ pc \in {"fetch", "eval", "mx", "return", "done"}
    /\ answer \in {NoAnswer, Unknown, Decided(TRUE), Decided(FALSE)}
    /\ answer.given <=> pc \in {"return", "done"}
    /\ \A k \in 1 .. (Len(stack) - 1) : \E terms \in Readable(stack[k].name) :
          stack[k].at <= Len(terms) /\ terms[stack[k].at].kind = "include"

\* Domains that include each other cannot recurse past the budget: every call
\* in progress has been paid for.  (spf.go:209-213, 353-357)
RecursionIsPaidFor == Len(stack) - 1 <= Limit - budget

\* Once some part of the evaluation is not-ok the whole of it is: no caller
\* turns an unknown, a spent budget included, into an authorization or a
\* denial.  (spf.go:14-15, 181-183, 201-215)
UnknownIsFinal == [][answer.given /\ ~answer.ok => ~answer'.ok]_vars

Settles(term) == term.kind = "all" \/ (term.kind = "ip" /\ ipCovered(term, ip))

\* A decided call rests on the first of its terms that settles the matter: on
\* a match, which authorizes by its own qualifier, or through an include,
\* which can only authorize; past the last term it denies.  (spf.go:177-229)
DecisionRestsOnItsTerm ==
    answer.given /\ answer.ok =>
        /\ \A i \in 1 .. (Top.at - 1) : ~Settles(Record[i])
        /\ IF Top.at > Len(Record) THEN ~answer.authorized
           ELSE /\ Current.kind \in {"a", "mx", "include"} \/ Settles(Current)
                /\ IF Current.kind = "include" THEN answer.authorized
                   ELSE answer.authorized <=> Current.plus

\* The host a term means: what its text names before the first slash, or else
\* right behind it, or the record's own domain.
Host(n, term) ==
    IF term.text[1] # Blank THEN term.text[1]
    ELSE IF Len(term.text) > 1 /\ term.text[2] # Blank THEN term.text[2]
    ELSE n

\* Addresses, and the networks a term's text spells out around one of them.
Around(addrs, term) ==
    addrs \union UNION {Network[b] : b \in
        {b \in Addr : /\ \E k \in 2 .. Len(term.text) : term.text[k - 1] = b /\ term.text[k] = Length
                      /\ Network[b] \intersect addrs # {}}}

\* Some term of n with a plus holds the suspect's address by itself: by its own
\* text, or by what DNS has for the host it means.
Vouches(n) ==
    \E terms \in Readable(n) : \E i \in DOMAIN terms :
        LET term == terms[i]
            host == Host(n, term)
        IN  /\ term.plus
            /\ \/ term.kind = "all"
               \/ term.kind = "ip" /\ term.text = <<ip>>
               \/ term.kind = "ip" /\ \E b \in Addr : term.text = <<b, Length>> /\ ip \in Network[b]
               \/ term.kind = "a" /\ ip \in Around(AddressesOf(host), term)
               \/ term.kind = "mx" /\ \E x \in ExchangersOf(host) : ip \in Around(zone[x].addrs, term)

\* The names the target's record leads to, in however many steps.
Delegates(names) ==
    {Target(f) : f \in {g \in UNION {UNION {{terms[i] : i \in DOMAIN terms} :
         terms \in Readable(n)} : n \in names} : g.kind \in {"include", "redirect"}}}
LedTo == {n \in Name : \A names \in SUBSET Name :
              root \in names /\ Delegates(names) \subseteq names => n \in names}

\* Nobody is authorized by an accident of the walk: some record the target
\* leads to vouches for the address, whatever failed, ran out or was passed
\* over on the way.  (spf.go:177-308)
AuthorizationIsEarned ==
    pc = "done" /\ answer.authorized => \E n \in LedTo : Vouches(n)

\* The evaluation ends for every zone, cycles included.  (spf.go:154-235)
Termination == <>(pc = "done")

\* "only a +-qualifier match authorizes" (docs/dns.html:158): the term that
\* decided an authorization carries a plus.
OnlyPlusAuthorizes == pc = "done" /\ answer.authorized => Current.plus

\* "evalAddrMech resolves an a/mx mechanism (with optional dual CIDRs) and
\* reports whether the suspect IP is covered" (spf.go:237-238): an a term with
\* a prefix length is passed by only if no address of its host lies within
\* that length of the suspect's.
NetworksAreHonoured ==
    answer.given /\ answer.ok =>
        \A i \in 1 .. (Top.at - 1) :
            LET term == Record[i]
                host == IF term.text[1] = Blank THEN Top.name ELSE term.text[1]
                place == IF ip \in V6 THEN 3 ELSE 2
            IN  term.kind = "a" /\ Len(term.text) = place /\ term.text[place] = Length =>
                    Network[ip] \intersect AddressesOf(host) = {}
=============================================================================
