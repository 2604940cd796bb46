------------------------------- MODULE SpfProofs ------------------------------
(***************************************************************************)
(* Proofs about Spf, for any zones, records, suspects and lookup limit: an *)
(* authorization rests on a record that the target's leads to, an unknown  *)
(* stays one, and the recursion stays within the budget.                   *)
(***************************************************************************)
EXTENDS Spf, TLAPS

USE TermsAssumption, SpfAssumption

Frame == [name : Name, at : Nat \ {0}]
RecordOf(n) == CHOOSE terms \in Readable(n) : TRUE

(***************************************************************************)
(* The inductive invariant.  What the properties say of the innermost call *)
(* holds of every call in progress, since any of them can become the       *)
(* innermost again.                                                        *)
(***************************************************************************)

\* The call stands at an include of its record.
AtInclude(f) ==
    /\ Readable(f.name) # {}
    /\ f.at <= Len(RecordOf(f.name))
    /\ RecordOf(f.name)[f.at].kind = "include"

\* The call is for a name the target's record leads to, and no term it has
\* passed settled the matter.
Fine(f) ==
    /\ f.name \in LedTo
    /\ Readable(f.name) # {} => \A i \in 1 .. (f.at - 1) : ~Settles(RecordOf(f.name)[i])

StackInv ==
    /\ stack \in Seq(Frame) /\ Len(stack) >= 1
    /\ \A k \in 1 .. Len(stack) : Fine(stack[k])
    /\ \A k \in 1 .. (Len(stack) - 1) : AtInclude(stack[k])

\* Where the budget has run out the answer is unknown, so it is not spent again.
BudgetInv ==
    /\ budget \in -1 .. Limit
    /\ budget = -1 => answer = Unknown
    /\ Len(stack) - 1 <= Limit - budget

ControlInv ==
    /\ pc \in {"fetch", "eval", "mx", "return", "done"}
    /\ answer \in {NoAnswer, Unknown, Decided(TRUE), Decided(FALSE)}
    /\ answer.given <=> pc \in {"return", "done"}
    /\ pc \in {"eval", "mx"} => Readable(Top.name) # {}
    /\ mxLeft # {} => pc = "mx"
    /\ pc = "mx" =>
          /\ Top.at <= Len(Record) /\ Current.kind = "mx"
          /\ mxLeft \subseteq ExchangersOf(HostOf(Current, Top.name))

\* The term the innermost call stands at is the one its answer rests on.
RestsOnTerm(value) ==
    IF Top.at > Len(Record) THEN ~value.authorized
    ELSE /\ Current.kind \in {"a", "mx", "include"} \/ Settles(Current)
         /\ IF Current.kind = "include" THEN value.authorized
            ELSE value.authorized <=> Current.plus

DecisionInv ==
    answer.given /\ answer.ok => Readable(Top.name) # {} /\ RestsOnTerm(answer)

EarnedInv == answer.authorized => \E n \in LedTo : Vouches(n)

IInv ==
    /\ zone \in Zones /\ root \in Targets /\ ip \in Suspects
    /\ StackInv /\ BudgetInv /\ ControlInv /\ DecisionInv /\ EarnedInv

-----------------------------------------------------------------------------
(***************************************************************************)
(* Records and the names they lead to.                                     *)
(***************************************************************************)

LEMMA ReadableType ==
    ASSUME zone \in Zones, NEW n \in Name, NEW terms \in Readable(n)
    PROVE  terms \in Seq(Field)
<1>1. PICK text \in zone[n].txt : terms \in parseSPFRecord(text)
  BY DEF Readable
<1> QED
  BY <1>1 DEF parseSPFRecord

LEMMA RecordType ==
    ASSUME zone \in Zones, NEW n \in Name, Readable(n) # {}
    PROVE  RecordOf(n) \in Readable(n) /\ RecordOf(n) \in Seq(Field)
<1>1. RecordOf(n) \in Readable(n)
  BY DEF RecordOf
<1> QED
  BY <1>1, ReadableType

LEMMA RootIsLedTo ==
    ASSUME root \in Targets
    PROVE  root \in LedTo
  BY DEF LedTo

LEMMA LedToIsName == LedTo \subseteq Name
  BY DEF LedTo

LEMMA TargetIsLedTo ==
    ASSUME zone \in Zones, NEW n \in LedTo, NEW terms \in Readable(n),
           NEW i \in DOMAIN terms, terms[i].kind \in {"include", "redirect"}
    PROVE  Target(terms[i]) \in LedTo
<1>1. n \in Name /\ terms \in Seq(Field)
  BY LedToIsName, ReadableType
<1>2. terms[i] \in Field
  BY <1>1
<1>3. Target(terms[i]) \in Name
  BY <1>2 DEF Target, Field
<1>4. ASSUME NEW names \in SUBSET Name, root \in names, Delegates(names) \subseteq names
      PROVE  Target(terms[i]) \in names
  <2>1. n \in names
    BY <1>4 DEF LedTo
  <2> DEFINE fields == UNION {UNION {{t[j] : j \in DOMAIN t} : t \in Readable(m)} : m \in names}
  <2>2. terms[i] \in fields
    BY <2>1
  <2>3. Delegates(names) = {Target(f) : f \in {g \in fields : g.kind \in {"include", "redirect"}}}
    BY DEF Delegates
  <2> HIDE DEF fields
  <2>4. Target(terms[i]) \in Delegates(names)
    BY <2>2, <2>3
  <2> QED
    BY <1>4, <2>4
<1> QED
  BY <1>3, <1>4 DEF LedTo

\* DNS, the target and the suspect stay what they are: so does all that is
\* said of a name or a call by itself.
LEMMA Later ==
    ASSUME UNCHANGED asked
    PROVE  /\ \A n \in Name : Readable(n)' = Readable(n) /\ RecordOf(n)' = RecordOf(n)
           /\ LedTo' = LedTo
           /\ \A n \in Name : Vouches(n)' <=> Vouches(n)
           /\ \A f \in Frame : AtInclude(f)' <=> AtInclude(f)
           /\ \A f \in Frame : Fine(f)' <=> Fine(f)
<1>1. zone' = zone /\ root' = root /\ ip' = ip
  BY DEF asked
<1>2. ASSUME NEW n \in Name
      PROVE  Readable(n)' = Readable(n)
  BY <1>1 DEF Readable
<1>3. ASSUME NEW n \in Name
      PROVE  RecordOf(n)' = RecordOf(n)
  BY <1>2 DEF RecordOf
<1>4. LedTo' = LedTo
  <2>1. ASSUME NEW names \in SUBSET Name
        PROVE  Delegates(names)' = Delegates(names)
    BY <1>2, <2>1 DEF Delegates
  <2> QED
    BY <1>1, <2>1 DEF LedTo
<1>5. ASSUME NEW n \in Name
      PROVE  Vouches(n)' <=> Vouches(n)
  BY <1>1, <1>2 DEF Vouches, Around, Host, AddressesOf, ExchangersOf
<1>6. ASSUME NEW f \in Frame
      PROVE  (AtInclude(f)' <=> AtInclude(f)) /\ (Fine(f)' <=> Fine(f))
  <2>1. \A term : Settles(term)' <=> Settles(term)
    BY <1>1 DEF Settles
  <2>2. f.name \in Name
    BY DEF Frame
  <2> QED
    BY <1>2, <1>3, <1>4, <2>1, <2>2 DEF AtInclude, Fine
<1> QED
  BY <1>2, <1>3, <1>4, <1>5, <1>6

-----------------------------------------------------------------------------
(***************************************************************************)
(* What a match is worth: an address a term covers is one it vouches for.  *)
(***************************************************************************)

LEMMA TailFacts ==
    ASSUME NEW S, NEW s \in Seq(S), Len(s) > 1
    PROVE  /\ Tail(s) \in Seq(S) /\ Len(Tail(s)) = Len(s) - 1
           /\ \A k \in 1 .. Len(Tail(s)) : Tail(s)[k] = s[k + 1]
  OBVIOUS

\* The value is the text, or the text behind its leading slash.
LEMMA ValueIsOfTheText ==
    ASSUME NEW term \in Field
    PROVE  /\ term.text \in Seq(Piece) /\ Len(term.text) \in Nat \ {0}
           /\ valueOf(term) \in Seq(Piece) /\ Len(valueOf(term)) \in Nat \ {0}
           /\ \/ valueOf(term) = term.text /\ (term.text[1] # Blank \/ Len(term.text) = 1)
              \/ /\ term.text[1] = Blank /\ Len(term.text) > 1
                 /\ Len(valueOf(term)) = Len(term.text) - 1
                 /\ \A k \in 1 .. Len(valueOf(term)) : valueOf(term)[k] = term.text[k + 1]
<1>1. PICK text \in Seq(Piece) : text = term.text /\ text # <<>>
  BY DEF Field
<1>2. PICK value : value = valueOf(term)
  OBVIOUS
<1>3. Len(text) \in Nat \ {0}
  BY <1>1
<1>4. CASE text[1] = Blank /\ Len(text) > 1
  <2>1. value = Tail(text)
    BY <1>1, <1>2, <1>4 DEF valueOf
  <2>2. /\ value \in Seq(Piece) /\ Len(value) = Len(text) - 1
        /\ \A k \in 1 .. Len(value) : value[k] = text[k + 1]
    BY <1>4, <2>1, TailFacts
  <2>3. Len(value) \in Nat \ {0}
    BY <1>3, <1>4, <2>2
  <2> QED
    BY <1>1, <1>2, <1>3, <1>4, <2>2, <2>3
<1>5. CASE text[1] # Blank \/ Len(text) = 1
  <2>1. value = text
    BY <1>1, <1>2, <1>5 DEF valueOf
  <2> QED
    BY <1>1, <1>2, <1>3, <1>5, <2>1
<1>6. Len(text) > 1 \/ Len(text) = 1
  <2>1. PICK n \in Nat \ {0} : n = Len(text)
    BY <1>3
  <2>2. n > 1 \/ n = 1
    OBVIOUS
  <2> QED
    BY <2>1, <2>2, Zenon
<1> QED
  BY <1>4, <1>5, <1>6, Zenon

LEMMA HostIsNamed ==
    ASSUME NEW term \in Field, NEW n
    PROVE  HostOf(term, n) = Host(n, term)
<1>1. HostOf(term, n) = IF valueOf(term)[1] = Blank THEN n ELSE valueOf(term)[1]
  BY DEF HostOf, splitDualCIDR
<1> QED
  BY <1>1, ValueIsOfTheText DEF Host

\* Some address with the length behind it stands in the text, and net is the
\* network around it.
SpelledOut(term, net) ==
    \E b \in Addr : /\ net = Network[b]
                    /\ \E k \in 2 .. Len(term.text) : term.text[k - 1] = b /\ term.text[k] = Length

LEMMA BehindTwo ==
    ASSUME NEW S, NEW s \in Seq(S), Len(s) > 2
    PROVE  LET t == SubSeq(s, 3, Len(s))
           IN  /\ t \in Seq(S) /\ Len(t) = Len(s) - 2
               /\ \A k \in 1 .. (Len(s) - 2) : t[k] = s[k + 2]
  OBVIOUS

LEMMA ThirdPart ==
    ASSUME NEW value \in Seq(Piece), Len(value) > 2,
           NEW net \in parseCIDROrHost(SubSeq(value, 3, Len(value)))
    PROVE  \/ \E b : net = {b}
           \/ Len(value) = 4 /\ value[3] \in Addr /\ value[4] = Length /\ net = Network[value[3]]
<1>1. PICK len \in Nat : len = Len(value) /\ len > 2
  <2>1. PICK len \in Nat : len = Len(value)
    OBVIOUS
  <2>2. len > 2
    BY <2>1, Zenon
  <2> QED
    BY <2>1, <2>2
<1>2. PICK last \in Seq(Piece) : last = SubSeq(value, 3, Len(value))
  BY BehindTwo
<1>3. Len(last) = len - 2 /\ \A k \in 1 .. (len - 2) : last[k] = value[k + 2]
  BY <1>1, <1>2, BehindTwo, Zenon
<1>4. net \in parseCIDROrHost(last)
  BY <1>2
<1>5. CASE len = 3
  <2>1. Len(last) = 1
    BY <1>3, <1>5
  <2> QED
    BY <1>4, <2>1 DEF parseCIDROrHost
<1>6. CASE len = 4
  <2>1. Len(last) # 1 /\ Len(last) = 2 /\ last[1] = value[3] /\ last[2] = value[4]
    BY <1>3, <1>6
  <2>2. last[1] \in Addr /\ last[2] = Length /\ net = Network[last[1]]
    BY <1>4, <2>1, Zenon DEF parseCIDROrHost
  <2> QED
    BY <1>1, <1>6, <2>1, <2>2
<1>7. CASE len # 3 /\ len # 4
  <2>1. Len(last) # 1 /\ Len(last) # 2
    BY <1>3, <1>7
  <2> QED
    BY <1>4, <2>1 DEF parseCIDROrHost
<1> QED
  BY <1>5, <1>6, <1>7

\* What stands side by side in the value does so in the text.
LEMMA SideBySide ==
    ASSUME NEW term \in Field, Len(valueOf(term)) = 4
    PROVE  \E k \in 2 .. Len(term.text) :
              term.text[k - 1] = valueOf(term)[3] /\ term.text[k] = valueOf(term)[4]
<1>1. PICK n \in Nat : n = Len(term.text)
  BY ValueIsOfTheText
<1>2. PICK len \in Nat : len = Len(valueOf(term))
  BY ValueIsOfTheText
<1>3. PICK text, value : text = term.text /\ value = valueOf(term)
  OBVIOUS
<1>4. text = term.text /\ value = valueOf(term) /\ n = Len(text) /\ len = Len(value)
  BY <1>1, <1>2, <1>3, Zenon
<1>5. len = 4
  BY <1>4, Zenon
<1>6. CASE value = text
  <2>1. n = 4 /\ 4 \in 2 .. n /\ 4 - 1 = 3
    <3>1. n = len
      BY <1>4, <1>6, Zenon
    <3> QED
      BY <1>5, <3>1
  <2>2. text[4 - 1] = value[3] /\ text[4] = value[4]
    BY <1>6, <2>1
  <2> QED
    BY <1>4, <2>1, <2>2, Zenon
<1>7. CASE len = n - 1 /\ \A k \in 1 .. len : value[k] = text[k + 1]
  <2>1. 5 \in 2 .. n /\ 3 \in 1 .. len /\ 4 \in 1 .. len
    BY <1>5, <1>7
  <2>2. value[3] = text[3 + 1] /\ value[4] = text[4 + 1]
    BY <1>7, <2>1, Zenon
  <2>3. text[5 - 1] = value[3] /\ text[5] = value[4]
    BY <2>2
  <2> QED
    BY <1>4, <2>1, <2>3, Zenon
<1>8. \/ value = text
      \/ len = n - 1 /\ \A k \in 1 .. len : value[k] = text[k + 1]
  BY <1>4, ValueIsOfTheText, Zenon
<1> QED
  BY <1>6, <1>7, <1>8

\* A prefix an address is compared under is one address, or a network that
\* the text spells out.
LEMMA CidrIsNamed ==
    ASSUME NEW term \in Field, NEW a, NEW net \in CidrFor(term, a)
    PROVE  (\E b : net = {b}) \/ SpelledOut(term, net)
<1>1. PICK value \in Seq(Piece) : value = valueOf(term)
  BY ValueIsOfTheText
<1>2. \/ net \in parseCIDROrHost(<<value[2]>>)
      \/ Len(value) > 2 /\ net \in parseCIDROrHost(SubSeq(value, 3, Len(value)))
  BY <1>1 DEF CidrFor, splitDualCIDR
<1>3. CASE net \in parseCIDROrHost(<<value[2]>>)
  <2>1. Len(<<value[2]>>) = 1
    OBVIOUS
  <2> QED
    BY <1>3, <2>1 DEF parseCIDROrHost
<1>4. CASE Len(value) > 2 /\ net \in parseCIDROrHost(SubSeq(value, 3, Len(value)))
  <2>1. CASE /\ Len(value) = 4 /\ value[3] \in Addr /\ value[4] = Length
             /\ net = Network[value[3]]
    <3>1. \E k \in 2 .. Len(term.text) : term.text[k - 1] = value[3] /\ term.text[k] = value[4]
      BY <1>1, <2>1, SideBySide, Zenon
    <3> QED
      BY <2>1, <3>1, Zenon DEF SpelledOut
  <2> QED
    BY <1>4, <2>1, ThirdPart, Zenon
<1> QED
  BY <1>2, <1>3, <1>4

LEMMA CoveredIsAround ==
    ASSUME ip \in Addr, NEW term \in Field, NEW addrs \in SUBSET Addr,
           addrCovered(addrs, ip, CidrFor(term, ip))
    PROVE  ip \in Around(addrs, term)
<1>1. PICK a \in addrs :
         IF CidrFor(term, ip) = {} THEN a = ip ELSE \E net \in CidrFor(term, ip) : {a, ip} \subseteq net
  BY DEF addrCovered
<1>2. CASE a = ip
  BY <1>2 DEF Around
<1>3. CASE a # ip
  <2>1. PICK net \in CidrFor(term, ip) : a \in net /\ ip \in net
    BY <1>1, <1>3
  <2>2. PICK b \in Addr :
           /\ net = Network[b]
           /\ \E k \in 2 .. Len(term.text) : term.text[k - 1] = b /\ term.text[k] = Length
    BY <1>3, <2>1, CidrIsNamed DEF SpelledOut
  <2> QED
    BY <2>1, <2>2 DEF Around
<1> QED
  BY <1>2, <1>3

LEMMA DNSTypes ==
    ASSUME zone \in Zones
    PROVE  /\ \A host : AddressesOf(host) \subseteq Addr /\ ExchangersOf(host) \subseteq Name
           /\ \A x \in Name : AddressesOf(x) = zone[x].addrs
  BY DEF AddressesOf, ExchangersOf

LEMMA ExchangersLater ==
    ASSUME UNCHANGED asked
    PROVE  \A host : ExchangersOf(host)' = ExchangersOf(host)
  BY DEF asked, ExchangersOf

\* A matching term with a plus vouches for the suspect.
LEMMA MatchVouches ==
    ASSUME zone \in Zones, ip \in Addr, NEW n \in Name, NEW terms \in Readable(n),
           NEW i \in DOMAIN terms, terms[i].plus,
           \/ terms[i].kind = "all"
           \/ terms[i].kind = "ip" /\ ipCovered(terms[i], ip)
           \/ terms[i].kind = "a"
                 /\ addrCovered(AddressesOf(HostOf(terms[i], n)), ip, CidrFor(terms[i], ip))
           \/ terms[i].kind = "mx"
                 /\ \E x \in ExchangersOf(HostOf(terms[i], n)) :
                       addrCovered(AddressesOf(x), ip, CidrFor(terms[i], ip))
    PROVE  Vouches(n)
<1> DEFINE term == terms[i]
           host == Host(n, term)
<1>1. term \in Field
  BY ReadableType
<1>2. ipCovered(term, ip) =>
         \/ term.text = <<ip>>
         \/ \E b \in Addr : term.text = <<b, Length>> /\ ip \in Network[b]
  <2>1. SUFFICES ASSUME NEW net \in parseCIDROrHost(term.text), ip \in net
                 PROVE  \/ term.text = <<ip>>
                        \/ \E b \in Addr : term.text = <<b, Length>> /\ ip \in Network[b]
    BY DEF ipCovered
  <2>2. term.text \in Seq(Piece)
    BY <1>1 DEF Field
  <2>3. CASE Len(term.text) = 1
    <3>1. term.text[1] = ip
      BY <2>1, <2>3 DEF parseCIDROrHost
    <3> QED
      BY <2>2, <2>3, <3>1
  <2>4. CASE Len(term.text) = 2
    <3>1. term.text[1] \in Addr /\ term.text[2] = Length /\ ip \in Network[term.text[1]]
      BY <2>1, <2>4 DEF parseCIDROrHost
    <3>2. term.text = <<term.text[1], Length>>
      BY <2>2, <2>4, <3>1
    <3> QED
      BY <3>1, <3>2
  <2> QED
    BY <2>1, <2>3, <2>4 DEF parseCIDROrHost
<1>3. HostOf(term, n) = host
  BY <1>1, HostIsNamed
<1>4. \A addrs \in SUBSET Addr : addrCovered(addrs, ip, CidrFor(term, ip)) => ip \in Around(addrs, term)
  BY <1>1, CoveredIsAround
<1>5. /\ AddressesOf(host) \in SUBSET Addr
      /\ \A x \in ExchangersOf(host) : AddressesOf(x) = zone[x].addrs /\ zone[x].addrs \in SUBSET Addr
  BY DNSTypes
<1>6. \/ term.kind = "all"
      \/ term.kind = "ip" /\ term.text = <<ip>>
      \/ term.kind = "ip" /\ \E b \in Addr : term.text = <<b, Length>> /\ ip \in Network[b]
      \/ term.kind = "a" /\ ip \in Around(AddressesOf(host), term)
      \/ term.kind = "mx" /\ \E x \in ExchangersOf(host) : ip \in Around(zone[x].addrs, term)
  BY <1>2, <1>3, <1>4, <1>5
<1> QED
  BY <1>6 DEF Vouches

-----------------------------------------------------------------------------
(***************************************************************************)
(* The stack of calls.                                                     *)
(***************************************************************************)

LEMMA TopFacts ==
    ASSUME StackInv
    PROVE  /\ Top \in Frame /\ Top.name \in LedTo /\ Top.name \in Name
           /\ Top.at \in Nat \ {0}
           /\ Fine(Top)
           /\ Record = RecordOf(Top.name)
<1>1. Len(stack) \in 1 .. Len(stack) /\ Top \in Frame
  BY DEF StackInv, Top
<1>2. Fine(Top)
  BY <1>1 DEF StackInv, Top
<1>3. Record = RecordOf(Top.name)
  BY DEF Record, RecordOf
<1> QED
  BY <1>1, <1>2, <1>3, LedToIsName DEF Fine, Frame

\* The record of the innermost call, now and after a step.
LEMMA RecordNow ==
    ASSUME NEW n, Top.name = n
    PROVE  Readable(Top.name) = Readable(n) /\ Record = RecordOf(n)
  BY DEF Record, RecordOf

LEMMA RecordLater ==
    ASSUME UNCHANGED asked, NEW n \in Name, Top'.name = n
    PROVE  Readable(Top.name)' = Readable(n) /\ Record' = RecordOf(n)
<1>1. Readable(Top.name)' = Readable(n)
  BY DEF Readable, asked
<1> QED
  BY <1>1 DEF Record, RecordOf

LEMMA StackKept ==
    ASSUME StackInv, UNCHANGED asked, UNCHANGED stack
    PROVE  /\ StackInv'
           /\ Top' = Top /\ Record' = Record /\ Current' = Current
           /\ Readable(Top.name)' = Readable(Top.name)
<1>1. \A k \in 1 .. Len(stack) : stack[k] \in Frame
  BY DEF StackInv
<1>2. StackInv'
  BY <1>1, Later DEF StackInv
<1>3. Top' = Top
  BY DEF Top
<1>4. PICK n \in Name : Top.name = n
  BY TopFacts
<1>5. Record' = Record /\ Readable(Top.name)' = Readable(Top.name)
  BY <1>3, <1>4, RecordNow, RecordLater
<1> QED
  BY <1>2, <1>3, <1>5 DEF Current

LEMMA LastReplaced ==
    ASSUME NEW S, NEW s \in Seq(S), Len(s) >= 1, NEW f \in S
    PROVE  LET t == [s EXCEPT ![Len(s)] = f]
           IN  /\ t \in Seq(S) /\ Len(t) = Len(s)
               /\ t[Len(s)] = f
               /\ \A k \in 1 .. (Len(s) - 1) : t[k] = s[k]
  OBVIOUS

LEMMA LastDropped ==
    ASSUME NEW S, NEW s \in Seq(S), Len(s) > 1
    PROVE  LET t == SubSeq(s, 1, Len(s) - 1)
           IN  /\ t \in Seq(S) /\ Len(t) = Len(s) - 1
               /\ \A k \in 1 .. (Len(s) - 1) : t[k] = s[k]
  OBVIOUS

\* A step that makes f the innermost call and leaves the outer ones alone.
LEMMA StackRewritten ==
    ASSUME StackInv, UNCHANGED asked, NEW f \in Frame, Fine(f), NEW last \in Nat \ {0},
           stack' \in Seq(Frame), Len(stack') = last, last <= Len(stack) + 1,
           stack'[last] = f,
           \A k \in 1 .. (last - 1) : stack'[k] = stack[k],
           last = Len(stack) + 1 => AtInclude(Top)
    PROVE  /\ StackInv'
           /\ Top' = f
           /\ Readable(Top.name)' = Readable(f.name) /\ Record' = RecordOf(f.name)
<1>1. \A k \in 1 .. Len(stack) : stack[k] \in Frame
  BY DEF StackInv
<1>2. Len(stack) \in Nat /\ Len(stack) >= 1
  BY DEF StackInv
<1>3. \A k \in 1 .. Len(stack') : Fine(stack[k])'
  <2> SUFFICES ASSUME NEW k \in 1 .. last PROVE Fine(stack[k])'
    OBVIOUS
  <2>1. PICK g \in Frame : g = stack'[k] /\ Fine(g)
    BY <1>1, <1>2 DEF StackInv
  <2>2. Fine(g)'
    BY <2>1, Later
  <2> QED
    BY <2>1, <2>2
<1>4. \A k \in 1 .. (Len(stack') - 1) : AtInclude(stack[k])'
  <2> SUFFICES ASSUME NEW k \in 1 .. (last - 1) PROVE AtInclude(stack[k])'
    OBVIOUS
  <2>1. PICK g \in Frame : g = stack'[k] /\ AtInclude(g)
    BY <1>1, <1>2 DEF StackInv, Top
  <2>2. AtInclude(g)'
    BY <2>1, Later
  <2> QED
    BY <2>1, <2>2
<1>5. StackInv'
  BY <1>3, <1>4 DEF StackInv
<1>6. Top' = f
  BY DEF Top
<1>7. f.name \in Name
  BY DEF Frame
<1> QED
  BY <1>5, <1>6, <1>7, RecordLater

\* A call goes on to its next term past one that settles nothing.
LEMMA NextIsFine ==
    ASSUME NEW f \in Frame, Fine(f),
           Readable(f.name) # {} => ~Settles(RecordOf(f.name)[f.at]),
           NEW g, g = [f EXCEPT !.at = @ + 1]
    PROVE  g \in Frame /\ g.name = f.name /\ Fine(g)
<1>1. g \in Frame /\ g.name = f.name /\ g.at = f.at + 1 /\ f.at \in Nat \ {0}
  BY DEF Frame
<1> DEFINE record == RecordOf(f.name)
<1>2. /\ Readable(f.name) # {} => ~Settles(record[f.at])
      /\ Readable(f.name) # {} => \A i \in 1 .. (f.at - 1) : ~Settles(record[i])
      /\ f.name \in LedTo
  BY DEF Fine
<1> HIDE DEF record
<1>3. Readable(f.name) # {} => \A i \in 1 .. (g.at - 1) : ~Settles(record[i])
  BY <1>1, <1>2
<1>4. Readable(f.name) = Readable(g.name) /\ record = RecordOf(g.name)
  BY <1>1 DEF record
<1> QED
  BY <1>1, <1>2, <1>3, <1>4 DEF Fine

\* The innermost call goes on.
LEMMA StackAdvanced ==
    ASSUME StackInv, UNCHANGED asked,
           Readable(Top.name) # {} => ~Settles(Current),
           stack' = [stack EXCEPT ![Len(stack)].at = @ + 1]
    PROVE  /\ StackInv' /\ Len(stack') = Len(stack)
           /\ Readable(Top.name)' = Readable(Top.name)
<1>1. Len(stack) \in Nat \ {0} /\ Len(stack) >= 1 /\ stack \in Seq(Frame)
  BY DEF StackInv
<1>2. PICK f \in Frame : f = Top /\ Fine(f)
  BY TopFacts
<1>3. Readable(f.name) = Readable(Top.name) /\ RecordOf(f.name)[f.at] = Current
  BY <1>2, TopFacts DEF Current
<1>4. PICK g : g = [f EXCEPT !.at = @ + 1]
  OBVIOUS
<1>5. g \in Frame /\ g.name = f.name /\ Fine(g)
  BY <1>2, <1>3, <1>4, NextIsFine
<1>6. stack' = [stack EXCEPT ![Len(stack)] = g]
  BY <1>2, <1>4 DEF Top
<1>7. /\ stack' \in Seq(Frame) /\ Len(stack') = Len(stack)
      /\ stack'[Len(stack)] = g
      /\ \A k \in 1 .. (Len(stack) - 1) : stack'[k] = stack[k]
  BY ONLY <1>1, <1>5, <1>6, LastReplaced
<1>8. StackInv' /\ Readable(Top.name)' = Readable(g.name)
  BY <1>1, <1>5, <1>7, StackRewritten
<1>9. Readable(g.name) = Readable(f.name)
  BY <1>5
<1> QED
  BY <1>3, <1>7, <1>8, <1>9

LEMMA CallIsFine ==
    ASSUME NEW n \in LedTo
    PROVE  Call(n) \in Frame /\ Call(n).name = n /\ Fine(Call(n))
<1>1. Call(n) \in Frame /\ Call(n).name = n /\ Call(n).at = 1
  BY LedToIsName DEF Call, Frame
<1>2. 1 .. (Call(n).at - 1) = {}
  BY <1>1
<1> QED
  BY <1>1, <1>2 DEF Fine

\* An include's call, on top of the caller.
LEMMA StackPushed ==
    ASSUME StackInv, UNCHANGED asked, NEW n \in LedTo, AtInclude(Top),
           stack' = Append(stack, Call(n))
    PROVE  StackInv' /\ Len(stack') = Len(stack) + 1
<1>1. Len(stack) \in Nat /\ stack \in Seq(Frame)
  BY DEF StackInv
<1>2. PICK f \in Frame : f = Call(n) /\ Fine(f)
  BY CallIsFine
<1>3. /\ stack' \in Seq(Frame) /\ Len(stack') = Len(stack) + 1
      /\ stack'[Len(stack) + 1] = f
      /\ \A k \in 1 .. Len(stack) : stack'[k] = stack[k]
  BY <1>1, <1>2
<1>4. PICK last \in Nat \ {0} : last = Len(stack) + 1
  BY <1>1
<1>5. \A k \in 1 .. (last - 1) : stack'[k] = stack[k]
  BY <1>1, <1>3, <1>4
<1> QED
  BY <1>1, <1>2, <1>3, <1>4, <1>5, StackRewritten

\* A redirect's call, in the caller's place.
LEMMA StackReplaced ==
    ASSUME StackInv, UNCHANGED asked, NEW n \in LedTo,
           stack' = [stack EXCEPT ![Len(stack)] = Call(n)]
    PROVE  StackInv' /\ Len(stack') = Len(stack)
<1>1. Len(stack) \in Nat \ {0} /\ Len(stack) >= 1 /\ stack \in Seq(Frame)
  BY DEF StackInv
<1>2. PICK f \in Frame : f = Call(n) /\ Fine(f)
  BY CallIsFine
<1>3. /\ stack' \in Seq(Frame) /\ Len(stack') = Len(stack)
      /\ stack'[Len(stack)] = f
      /\ \A k \in 1 .. (Len(stack) - 1) : stack'[k] = stack[k]
  BY <1>1, <1>2, LastReplaced
<1>4. PICK last \in Nat \ {0} : last = Len(stack)
  BY <1>1
<1>5. last <= Len(stack) + 1 /\ last # Len(stack) + 1
  BY <1>1, <1>4
<1> QED
  BY <1>2, <1>3, <1>4, <1>5, StackRewritten

\* The caller becomes the innermost call again, at its include.
LEMMA StackReturned ==
    ASSUME StackInv, UNCHANGED asked, Len(stack) > 1,
           stack' \in Seq(Frame), Len(stack') = Len(stack) - 1,
           \A k \in 1 .. (Len(stack) - 1) : stack'[k] = stack[k]
    PROVE  StackInv' /\ Top' \in Frame /\ AtInclude(Top)'
<1>1. PICK last \in Nat \ {0} : last = Len(stack) - 1
  BY DEF StackInv
<1>2. last \in 1 .. Len(stack) /\ last \in 1 .. (Len(stack) - 1) /\ stack \in Seq(Frame)
  BY <1>1 DEF StackInv
<1>3. PICK f \in Frame : f = stack[last] /\ Fine(f) /\ AtInclude(f)
  BY <1>1, <1>2 DEF StackInv
<1>4. \A k \in 1 .. (last - 1) : stack'[k] = stack[k]
  BY <1>1
<1>5. StackInv' /\ Top' = f
  BY <1>1, <1>2, <1>3, <1>4, StackRewritten
<1>6. AtInclude(f)'
  BY <1>3, Later
<1> QED
  BY <1>5, <1>6

\* The caller goes on behind its include.
LEMMA StackReturnedAdvancing ==
    ASSUME StackInv, UNCHANGED asked, Len(stack) > 1,
           NEW caller \in Seq(Frame), Len(caller) = Len(stack) - 1,
           \A k \in 1 .. (Len(stack) - 1) : caller[k] = stack[k],
           stack' = [caller EXCEPT ![Len(caller)].at = @ + 1]
    PROVE  /\ StackInv' /\ Len(stack') = Len(stack) - 1
           /\ Readable(Top.name)' # {}
<1>1. PICK last \in Nat \ {0} : last = Len(stack) - 1
  BY DEF StackInv
<1>2. last \in 1 .. Len(stack) /\ last \in 1 .. (Len(stack) - 1) /\ stack \in Seq(Frame)
  BY <1>1 DEF StackInv
<1>3. PICK f \in Frame : f = stack[last] /\ Fine(f) /\ AtInclude(f)
  <2>1. stack[last] \in Frame
    BY <1>2
  <2>2. Fine(stack[last]) /\ AtInclude(stack[last])
    BY <1>2 DEF StackInv
  <2> QED
    BY <2>1, <2>2
<1>4. ~Settles(RecordOf(f.name)[f.at]) /\ Readable(f.name) # {}
  BY <1>3 DEF AtInclude, Settles
<1>5. PICK g : g = [f EXCEPT !.at = @ + 1]
  OBVIOUS
<1>6. g \in Frame /\ g.name = f.name /\ Fine(g)
  BY <1>3, <1>4, <1>5, NextIsFine
<1>7. stack' = [caller EXCEPT ![Len(caller)] = g]
  <2>1. caller[Len(caller)] = f
    BY <1>1, <1>2, <1>3
  <2> QED
    BY <1>5, <2>1
<1>8. /\ stack' \in Seq(Frame) /\ Len(stack') = last
      /\ stack'[last] = g
      /\ \A k \in 1 .. (last - 1) : stack'[k] = stack[k]
  <2>1. /\ stack' \in Seq(Frame) /\ Len(stack') = Len(caller)
        /\ stack'[Len(caller)] = g
        /\ \A k \in 1 .. (Len(caller) - 1) : stack'[k] = caller[k]
    BY <1>1, <1>6, <1>7, LastReplaced
  <2> QED
    BY <1>1, <2>1
<1>9. StackInv' /\ Readable(Top.name)' = Readable(g.name)
  <2>1. last <= Len(stack) + 1 /\ last # Len(stack) + 1
    BY <1>1, <1>2
  <2> QED
    BY <1>6, <1>8, <2>1, StackRewritten
<1>10. Readable(g.name) # {}
  BY <1>4, <1>6
<1> QED
  BY <1>1, <1>8, <1>9, <1>10

-----------------------------------------------------------------------------
(***************************************************************************)
(* What the steps have in common.                                          *)
(***************************************************************************)

LEMMA InitEstablishes == Init => IInv
<1> SUFFICES ASSUME Init PROVE IInv
  OBVIOUS
<1>1. PICK n \in LedTo : n = root
  BY RootIsLedTo DEF Init
<1>2. PICK f \in Frame : f = Call(n) /\ Fine(f)
  BY CallIsFine
<1>3. StackInv
  BY <1>1, <1>2 DEF Init, StackInv
<1>4. BudgetInv
  BY DEF Init, BudgetInv
<1>5. ControlInv /\ DecisionInv /\ EarnedInv
  BY DEF Init, ControlInv, DecisionInv, EarnedInv, NoAnswer
<1> QED
  BY <1>3, <1>4, <1>5 DEF Init, IInv

\* Before an answer is given there is budget left, or none has been asked for.
LEMMA BudgetLeft ==
    ASSUME IInv, pc \in {"fetch", "eval", "mx"}
    PROVE  /\ answer = NoAnswer
           /\ budget \in 0 .. Limit
           /\ Len(stack) \in Nat
<1>1. answer = NoAnswer
  BY DEF IInv, ControlInv, Unknown, Decided
<1>2. budget # -1
  BY <1>1 DEF IInv, BudgetInv, NoAnswer, Unknown
<1> QED
  BY <1>1, <1>2 DEF IInv, BudgetInv, StackInv

LEMMA RestsLater ==
    ASSUME StackInv, UNCHANGED asked, UNCHANGED stack, NEW value
    PROVE  RestsOnTerm(value)' <=> RestsOnTerm(value)
<1>1. Top' = Top /\ Record' = Record /\ Current' = Current
  BY StackKept
<1>2. Settles(Current)' <=> Settles(Current)
  BY <1>1 DEF asked, Settles
<1> QED
  BY <1>1, <1>2 DEF RestsOnTerm

\* The innermost call returns a value that rests on the term it stands at.
LEMMA ReturnStep ==
    ASSUME IInv, UNCHANGED asked, pc \in {"fetch", "eval", "mx"},
           NEW value \in {Unknown, Decided(TRUE), Decided(FALSE)}, Return(value),
           budget' \in {budget, budget - 1}, budget' = -1 => value = Unknown,
           value.ok => Readable(Top.name) # {} /\ RestsOnTerm(value),
           value.authorized => \E n \in LedTo : Vouches(n)
    PROVE  IInv'
<1>1. answer = NoAnswer /\ budget \in 0 .. Limit /\ Len(stack) \in Nat
  BY BudgetLeft
<1>2. pc' = "return" /\ answer' = value /\ mxLeft' = {} /\ stack' = stack
  BY DEF Return
<1>3. StackInv
  BY DEF IInv
<1>4. StackInv' /\ Readable(Top.name)' = Readable(Top.name)
  BY <1>2, <1>3, StackKept
<1>5. BudgetInv'
  BY <1>1, <1>2 DEF IInv, BudgetInv, Unknown
<1>6. ControlInv'
  BY <1>2 DEF ControlInv, Unknown, Decided, NoAnswer
<1>7. DecisionInv'
  BY <1>2, <1>3, <1>4, RestsLater DEF DecisionInv
<1>8. EarnedInv'
  <2>1. SUFFICES ASSUME value.authorized PROVE (\E n \in LedTo : Vouches(n))'
    BY <1>2 DEF EarnedInv
  <2>2. PICK n \in LedTo : Vouches(n)
    BY <2>1
  <2>3. n \in LedTo' /\ Vouches(n)'
    BY <2>2, Later, LedToIsName
  <2> QED
    BY <2>3
<1>9. zone' \in Zones /\ root' \in Targets /\ ip' \in Suspects
  BY DEF IInv, asked
<1> QED
  BY <1>4, <1>5, <1>6, <1>7, <1>8, <1>9 DEF IInv

\* The innermost call goes on to its next term, past one that settles nothing.
LEMMA AdvanceStep ==
    ASSUME IInv, UNCHANGED asked, pc \in {"eval", "mx"}, mxLeft = {}, Advance,
           budget' \in {budget, budget - 1}, budget' >= 0,
           ~Settles(Current)
    PROVE  IInv'
<1>1. answer = NoAnswer /\ budget \in 0 .. Limit /\ Len(stack) \in Nat
  BY BudgetLeft
<1>2. /\ stack' = [stack EXCEPT ![Len(stack)].at = @ + 1]
      /\ pc' = "eval" /\ mxLeft' = mxLeft /\ answer' = answer
  BY DEF Advance
<1>3. StackInv
  BY DEF IInv
<1>4. StackInv' /\ Len(stack') = Len(stack) /\ Readable(Top.name)' = Readable(Top.name)
  BY <1>2, <1>3, StackAdvanced
<1>5. BudgetInv'
  BY <1>1, <1>2, <1>4 DEF IInv, BudgetInv
<1>6. Readable(Top.name) # {}
  BY DEF IInv, ControlInv
<1>7. ControlInv'
  BY <1>1, <1>2, <1>4, <1>6 DEF ControlInv, NoAnswer
<1>8. DecisionInv' /\ EarnedInv'
  BY <1>1, <1>2 DEF DecisionInv, EarnedInv, NoAnswer
<1>9. zone' \in Zones /\ root' \in Targets /\ ip' \in Suspects
  BY DEF IInv, asked
<1> QED
  BY <1>4, <1>5, <1>7, <1>8, <1>9 DEF IInv

\* A call for another name begins, and has been paid for.
LEMMA CallStep ==
    ASSUME IInv, UNCHANGED asked, pc = "eval", NEW n \in LedTo,
           \/ AtInclude(Top) /\ stack' = Append(stack, Call(n))
           \/ stack' = [stack EXCEPT ![Len(stack)] = Call(n)],
           pc' = "fetch", UNCHANGED <<mxLeft, answer>>,
           budget' = budget - 1, budget' >= 0
    PROVE  IInv'
<1>1. answer = NoAnswer /\ budget \in 0 .. Limit /\ Len(stack) \in Nat
  BY BudgetLeft
<1>2. StackInv
  BY DEF IInv
<1>3. StackInv' /\ Len(stack') \in {Len(stack), Len(stack) + 1}
  BY <1>2, StackPushed, StackReplaced
<1>4. BudgetInv'
  <2>1. Len(stack) - 1 <= Limit - budget
    BY DEF IInv, BudgetInv
  <2> QED
    BY <1>1, <1>3, <2>1 DEF BudgetInv
<1>5. ControlInv'
  BY <1>1 DEF IInv, ControlInv, NoAnswer
<1>6. DecisionInv' /\ EarnedInv'
  BY <1>1 DEF DecisionInv, EarnedInv, NoAnswer
<1>7. zone' \in Zones /\ root' \in Targets /\ ip' \in Suspects
  BY DEF IInv, asked
<1> QED
  BY <1>3, <1>4, <1>5, <1>6, <1>7 DEF IInv

\* What the innermost call stands at while terms of its record are left.
LEMMA TermFacts ==
    ASSUME IInv, pc \in {"eval", "mx"}, Top.at <= Len(Record)
    PROVE  /\ Top.name \in LedTo /\ Top.name \in Name
           /\ Record \in Readable(Top.name) /\ Record \in Seq(Field)
           /\ Top.at \in DOMAIN Record /\ ~(Top.at > Len(Record))
           /\ Current = Record[Top.at] /\ Current \in Field
<1>1. StackInv /\ Readable(Top.name) # {} /\ zone \in Zones
  BY DEF IInv, ControlInv
<1>2. PICK n \in LedTo : n = Top.name
  BY <1>1, TopFacts
<1>3. n \in Name /\ Readable(n) # {} /\ Readable(n) = Readable(Top.name)
  BY <1>1, <1>2, LedToIsName
<1>4. Record = RecordOf(n)
  BY <1>2, RecordNow
<1>5. Record \in Readable(Top.name) /\ Record \in Seq(Field)
  BY <1>1, <1>3, <1>4, RecordType
<1>6. Top.at \in DOMAIN Record /\ ~(Top.at > Len(Record))
  BY <1>1, <1>5, TopFacts
<1>7. Current = Record[Top.at]
  BY DEF Current
<1>8. Current \in Field
  BY <1>5, <1>6, <1>7
<1> QED
  BY <1>2, <1>3, <1>5, <1>6, <1>7, <1>8

\* A match decides by its own qualifier.
LEMMA MatchStep ==
    ASSUME IInv, UNCHANGED asked, pc \in {"eval", "mx"}, Top.at <= Len(Record),
           \/ Current.kind = "all"
           \/ Current.kind = "ip" /\ ipCovered(Current, ip)
           \/ Current.kind = "a" /\ Covering(HostOf(Current, Top.name))
           \/ Current.kind = "mx" /\ \E x \in ExchangersOf(HostOf(Current, Top.name)) : Covering(x),
           Return(Decided(Current.plus)),
           budget' \in {budget, budget - 1}, budget' >= 0
    PROVE  IInv'
<1> DEFINE value == Decided(Current.plus)
<1>1. Current.plus \in BOOLEAN
  BY TermFacts DEF Field
<1>2. value \in {Decided(TRUE), Decided(FALSE)} /\ (value.authorized <=> Current.plus)
  BY <1>1 DEF Decided
<1>3. Readable(Top.name) # {}
  BY TermFacts
<1>4. RestsOnTerm(value)
  <2>1. Current.kind \in {"a", "mx"} \/ Settles(Current)
    BY DEF Settles
  <2>2. Current.kind # "include" /\ ~(Top.at > Len(Record))
    BY TermFacts
  <2> HIDE DEF value
  <2> QED
    BY <1>2, <2>1, <2>2 DEF RestsOnTerm
<1>5. ASSUME Current.plus PROVE \E n \in LedTo : Vouches(n)
  <2>1. PICK n \in LedTo, terms \in Readable(Top.name), i \in Nat :
            n = Top.name /\ terms = Record /\ i = Top.at
    BY TermFacts
  <2>2. /\ n \in Name /\ terms \in Readable(n) /\ i \in DOMAIN terms
        /\ Current = terms[i] /\ zone \in Zones /\ ip \in Addr
    BY <2>1, TermFacts DEF IInv
  <2>3. Vouches(n)
    BY <1>5, <2>1, <2>2, MatchVouches DEF Covering
  <2> QED
    BY <2>3
<1>6. budget' # -1
  OBVIOUS
<1> HIDE DEF value
<1>7. Return(value)
  BY DEF value
<1> QED
  BY <1>2, <1>3, <1>4, <1>5, <1>6, <1>7, ReturnStep

\* A failure ends it, whatever it failed on.
LEMMA UnknownStep ==
    ASSUME IInv, UNCHANGED asked, pc \in {"fetch", "eval", "mx"}, Return(Unknown),
           budget' \in {budget, budget - 1}
    PROVE  IInv'
<1>1. ~Unknown.ok /\ ~Unknown.authorized
  BY DEF Unknown
<1> QED
  BY <1>1, ReturnStep

-----------------------------------------------------------------------------
(* The steps.                                                              *)

LEMMA FetchRecordStep ==
    ASSUME IInv, FetchRecord
    PROVE  IInv'
<1>1. UNCHANGED asked /\ budget' = budget /\ pc = "fetch"
  BY DEF FetchRecord, asked
<1>2. CASE Return(Unknown)
  BY <1>1, <1>2, UnknownStep
<1>3. CASE Readable(Top.name) # {} /\ pc' = "eval" /\ UNCHANGED <<stack, mxLeft, answer>>
  <2>1. answer = NoAnswer
    BY <1>1, BudgetLeft
  <2>2. StackInv' /\ Readable(Top.name)' = Readable(Top.name)
    BY <1>1, <1>3, StackKept DEF IInv
  <2>3. BudgetInv' /\ ControlInv' /\ DecisionInv' /\ EarnedInv'
    BY <1>1, <1>3, <2>1, <2>2 DEF IInv, BudgetInv, ControlInv, DecisionInv, EarnedInv, NoAnswer
  <2>4. zone' \in Zones /\ root' \in Targets /\ ip' \in Suspects
    BY <1>1 DEF IInv, asked
  <2> QED
    BY <2>2, <2>3, <2>4 DEF IInv
<1> QED
  BY <1>2, <1>3 DEF FetchRecord

LEMMA AllStep ==
    ASSUME IInv, All
    PROVE  IInv'
<1>1. /\ UNCHANGED asked /\ budget' = budget /\ pc = "eval"
      /\ Top.at <= Len(Record) /\ Current.kind = "all" /\ Return(Decided(Current.plus))
  BY DEF All, AtTerm, asked
<1>2. budget' >= 0
  BY <1>1, BudgetLeft
<1> QED
  BY <1>1, <1>2, MatchStep

LEMMA IPStep ==
    ASSUME IInv, IP
    PROVE  IInv'
<1>1. /\ UNCHANGED asked /\ budget' = budget /\ pc = "eval"
      /\ Top.at <= Len(Record) /\ Current.kind = "ip"
  BY DEF IP, AtTerm, asked
<1>2. budget' >= 0 /\ mxLeft = {}
  <2>1. budget' >= 0
    BY <1>1, BudgetLeft
  <2>2. mxLeft = {}
    BY <1>1 DEF IInv, ControlInv
  <2> QED
    BY <2>1, <2>2
<1>3. CASE ipCovered(Current, ip)
  <2>1. Return(Decided(Current.plus))
    BY <1>3 DEF IP
  <2> QED
    BY <1>1, <1>2, <1>3, <2>1, MatchStep
<1>4. CASE ~ipCovered(Current, ip)
  <2>1. Advance /\ ~Settles(Current)
    BY <1>1, <1>4 DEF IP, Settles
  <2> QED
    BY <1>1, <1>2, <2>1, AdvanceStep
<1> QED
  BY <1>3, <1>4

LEMMA SkipStep ==
    ASSUME IInv, Skip
    PROVE  IInv'
<1>1. UNCHANGED asked /\ budget' = budget /\ pc = "eval" /\ Advance
  BY DEF Skip, AtTerm, asked
<1>2. budget' >= 0 /\ mxLeft = {}
  <2>1. budget' >= 0
    BY <1>1, BudgetLeft
  <2>2. mxLeft = {}
    BY <1>1 DEF IInv, ControlInv
  <2> QED
    BY <2>1, <2>2
<1>3. ~Settles(Current)
  BY DEF Skip, AtTerm, Settles
<1> QED
  BY <1>1, <1>2, <1>3, AdvanceStep

LEMMA AStep ==
    ASSUME IInv, A
    PROVE  IInv'
<1>1. /\ UNCHANGED asked /\ budget' = budget - 1 /\ pc = "eval"
      /\ Top.at <= Len(Record) /\ Current.kind = "a"
  BY DEF A, AtTerm, Spending
<1>2. mxLeft = {}
  BY <1>1 DEF IInv, ControlInv
<1>3. CASE Return(Unknown)
  BY <1>1, <1>3, UnknownStep
<1>4. CASE /\ budget' >= 0 /\ Covering(HostOf(Current, Top.name))
           /\ Return(Decided(Current.plus))
  BY <1>1, <1>4, MatchStep
<1>5. CASE budget' >= 0 /\ Advance
  <2>1. ~Settles(Current)
    BY <1>1 DEF Settles
  <2> QED
    BY <1>1, <1>2, <1>5, <2>1, AdvanceStep
<1> QED
  BY <1>3, <1>4, <1>5 DEF A, Spending

LEMMA MXStep ==
    ASSUME IInv, MX
    PROVE  IInv'
<1> DEFINE host == HostOf(Current, Top.name)
<1>1. /\ UNCHANGED asked /\ budget' = budget - 1 /\ pc = "eval"
      /\ Top.at <= Len(Record) /\ Current.kind = "mx"
  BY DEF MX, AtTerm, Spending
<1>2. CASE Return(Unknown)
  BY <1>1, <1>2, UnknownStep
<1>3. CASE budget' >= 0 /\ mxLeft' = ExchangersOf(host) /\ pc' = "mx" /\ UNCHANGED <<stack, answer>>
  <2>1. answer = NoAnswer /\ budget \in 0 .. Limit /\ Len(stack) \in Nat
    BY <1>1, BudgetLeft
  <2>2. /\ StackInv' /\ Readable(Top.name)' = Readable(Top.name)
        /\ Top' = Top /\ Record' = Record /\ Current' = Current
    BY <1>1, <1>3, StackKept DEF IInv
  <2>3. BudgetInv' /\ DecisionInv' /\ EarnedInv'
    BY <1>1, <1>3, <2>1 DEF IInv, BudgetInv, DecisionInv, EarnedInv, NoAnswer
  <2>4. \A x : ExchangersOf(x)' = ExchangersOf(x)
    BY <1>1, ExchangersLater
  <2>5. Readable(Top.name) # {}
    BY <1>1, TermFacts
  <2>6. ControlInv'
    BY <1>1, <1>3, <2>1, <2>2, <2>4, <2>5 DEF ControlInv, NoAnswer
  <2>7. zone' \in Zones /\ root' \in Targets /\ ip' \in Suspects
    BY <1>1 DEF IInv, asked
  <2> QED
    BY <2>2, <2>3, <2>6, <2>7 DEF IInv
<1> QED
  BY <1>2, <1>3 DEF MX, Spending

LEMMA MXHostStep ==
    ASSUME IInv, MXHost
    PROVE  IInv'
<1>1. /\ UNCHANGED asked /\ budget' = budget - 1 /\ pc = "mx"
      /\ Top.at <= Len(Record) /\ Current.kind = "mx"
      /\ mxLeft \subseteq ExchangersOf(HostOf(Current, Top.name))
  BY DEF MXHost, Spending, IInv, ControlInv
<1>2. CASE Return(Unknown)
  BY <1>1, <1>2, UnknownStep
<1>3. CASE /\ budget' >= 0 /\ \E host \in mxLeft : Covering(host)
           /\ Return(Decided(Current.plus))
  BY <1>1, <1>3, MatchStep
<1>4. CASE /\ budget' >= 0 /\ \E host \in mxLeft : mxLeft' = mxLeft \ {host}
           /\ UNCHANGED <<stack, pc, answer>>
  <2>1. answer = NoAnswer /\ budget \in 0 .. Limit /\ Len(stack) \in Nat
    BY <1>1, BudgetLeft
  <2>2. /\ StackInv' /\ Readable(Top.name)' = Readable(Top.name)
        /\ Top' = Top /\ Record' = Record /\ Current' = Current
    BY <1>1, <1>4, StackKept DEF IInv
  <2>3. BudgetInv' /\ DecisionInv' /\ EarnedInv'
    BY <1>1, <1>4, <2>1 DEF IInv, BudgetInv, DecisionInv, EarnedInv, NoAnswer
  <2>4. \A x : ExchangersOf(x)' = ExchangersOf(x)
    BY <1>1, ExchangersLater
  <2>5. Readable(Top.name) # {}
    BY <1>1, TermFacts
  <2>6. ControlInv'
    BY <1>1, <1>4, <2>1, <2>2, <2>4, <2>5 DEF ControlInv, NoAnswer
  <2>7. zone' \in Zones /\ root' \in Targets /\ ip' \in Suspects
    BY <1>1 DEF IInv, asked
  <2> QED
    BY <2>2, <2>3, <2>6, <2>7 DEF IInv
<1> QED
  BY <1>2, <1>3, <1>4 DEF MXHost, Spending

LEMMA MXEndStep ==
    ASSUME IInv, MXEnd
    PROVE  IInv'
<1>1. UNCHANGED asked /\ budget' = budget /\ pc = "mx" /\ mxLeft = {} /\ Advance
  BY DEF MXEnd, asked
<1>2. budget' >= 0
  BY <1>1, BudgetLeft
<1>3. ~Settles(Current)
  BY <1>1 DEF IInv, ControlInv, Settles
<1> QED
  BY <1>1, <1>2, <1>3, AdvanceStep

LEMMA IncludeStep ==
    ASSUME IInv, Include
    PROVE  IInv'
<1>1. /\ UNCHANGED asked /\ budget' = budget - 1 /\ pc = "eval"
      /\ Top.at <= Len(Record) /\ Current.kind = "include"
  BY DEF Include, AtTerm, Spending
<1>2. CASE Return(Unknown)
  BY <1>1, <1>2, UnknownStep
<1>3. CASE /\ budget' >= 0 /\ stack' = Append(stack, Call(Target(Current)))
           /\ pc' = "fetch" /\ UNCHANGED <<mxLeft, answer>>
  <2>1. PICK n \in LedTo, terms \in Readable(Top.name), i \in Nat :
            n = Top.name /\ terms = Record /\ i = Top.at
    BY <1>1, TermFacts
  <2>2. /\ terms \in Readable(n) /\ i \in DOMAIN terms /\ Current = terms[i]
        /\ zone \in Zones
    BY <1>1, <2>1, TermFacts DEF IInv
  <2>3. Target(Current) \in LedTo
    BY <1>1, <2>2, TargetIsLedTo
  <2>4. AtInclude(Top)
    <3>1. Readable(Top.name) # {} /\ RecordOf(Top.name) = Record
      BY <1>1, TermFacts, TopFacts DEF IInv
    <3> QED
      BY <1>1, <3>1 DEF AtInclude, Current
  <2> QED
    BY <1>1, <1>3, <2>3, <2>4, CallStep
<1> QED
  BY <1>2, <1>3 DEF Include, Spending

LEMMA EndOfRecordStep ==
    ASSUME IInv, EndOfRecord
    PROVE  IInv'
<1>1. UNCHANGED asked /\ pc = "eval" /\ Top.at > Len(Record)
  BY DEF EndOfRecord
<1>2. budget \in 0 .. Limit
  BY <1>1, BudgetLeft
<1>3. Readable(Top.name) # {} /\ Top.name \in LedTo /\ StackInv /\ zone \in Zones
  BY <1>1, TopFacts DEF IInv, ControlInv
<1>4. CASE Return(Decided(FALSE)) /\ budget' = budget
  <2>1. RestsOnTerm(Decided(FALSE)) /\ ~Decided(FALSE).authorized
    BY <1>1 DEF RestsOnTerm, Decided
  <2>2. budget' # -1
    BY <1>2, <1>4
  <2> QED
    BY <1>1, <1>3, <1>4, <2>1, <2>2, ReturnStep
<1>5. CASE Return(Unknown) /\ budget' \in {budget, budget - 1}
  BY <1>1, <1>5, UnknownStep
<1>6. CASE budget' = budget - 1 /\ budget' >= 0 /\ FollowRedirect
  <2>1. PICK i \in Redirects : stack' = [stack EXCEPT ![Len(stack)] = Call(Target(Record[i]))]
    BY <1>6 DEF FollowRedirect
  <2>2. PICK n \in LedTo, terms \in Readable(Top.name) : n = Top.name /\ terms = Record
    BY <1>3, LedToIsName, RecordNow, RecordType
  <2>3. terms \in Readable(n)
    BY <1>3, <2>2, LedToIsName, RecordNow, RecordType
  <2>4. i \in DOMAIN terms /\ terms[i].kind \in {"include", "redirect"}
    BY <2>1, <2>2 DEF Redirects
  <2>5. Target(Record[i]) \in LedTo
    BY <1>3, <2>2, <2>3, <2>4, TargetIsLedTo
  <2>6. pc' = "fetch" /\ UNCHANGED <<mxLeft, answer>>
    BY <1>6 DEF FollowRedirect
  <2> QED
    BY <1>1, <1>6, <2>1, <2>5, <2>6, CallStep
<1> QED
  BY <1>4, <1>5, <1>6 DEF EndOfRecord, Spending

LEMMA ReturnToIncludeStep ==
    ASSUME IInv, ReturnToInclude
    PROVE  IInv'
<1> DEFINE denied == answer.ok /\ ~answer.authorized
<1>1. /\ UNCHANGED asked /\ budget' = budget /\ mxLeft' = mxLeft
      /\ pc = "return" /\ Len(stack) > 1
  BY DEF ReturnToInclude, asked
<1>2. PICK caller : caller = SubSeq(stack, 1, Len(stack) - 1)
  OBVIOUS
<1>3. StackInv /\ stack \in Seq(Frame) /\ Len(stack) \in Nat
  BY DEF IInv, StackInv
<1>4. /\ caller \in Seq(Frame) /\ Len(caller) = Len(stack) - 1
      /\ \A k \in 1 .. (Len(stack) - 1) : caller[k] = stack[k]
  BY <1>1, <1>2, <1>3, LastDropped
<1>5. zone' \in Zones /\ root' \in Targets /\ ip' \in Suspects
  BY <1>1 DEF IInv, asked
<1>6. answer \in {Unknown, Decided(TRUE), Decided(FALSE)} /\ mxLeft = {}
  <2>1. answer # NoAnswer
    BY <1>1 DEF IInv, ControlInv, NoAnswer
  <2> QED
    BY <1>1, <2>1 DEF IInv, ControlInv
<1>7. CASE denied
  <2>1. /\ stack' = [caller EXCEPT ![Len(caller)].at = @ + 1]
        /\ pc' = "eval" /\ answer' = NoAnswer
    BY <1>2, <1>7 DEF ReturnToInclude
  <2>2. StackInv' /\ Len(stack') = Len(stack) - 1 /\ Readable(Top.name)' # {}
    BY <1>1, <1>3, <1>4, <2>1, StackReturnedAdvancing
  <2>3. budget # -1
    BY <1>7 DEF IInv, BudgetInv, Unknown
  <2>4. BudgetInv'
    <3>1. budget \in -1 .. Limit /\ Len(stack) - 1 <= Limit - budget
      BY DEF IInv, BudgetInv
    <3> QED
      BY <1>1, <1>3, <2>2, <2>3, <3>1 DEF BudgetInv
  <2>5. ControlInv' /\ DecisionInv' /\ EarnedInv'
    BY <1>1, <1>6, <2>1, <2>2 DEF ControlInv, DecisionInv, EarnedInv, NoAnswer
  <2> QED
    BY <1>5, <2>2, <2>4, <2>5 DEF IInv
<1>8. CASE ~denied
  <2>1. stack' = caller /\ pc' = pc /\ answer' = answer
    BY <1>2, <1>8 DEF ReturnToInclude
  <2>2. StackInv' /\ Top' \in Frame /\ AtInclude(Top)'
    BY <1>1, <1>3, <1>4, <2>1, StackReturned
  <2>3. BudgetInv'
    <3>1. /\ budget \in -1 .. Limit /\ Len(stack) - 1 <= Limit - budget
          /\ budget = -1 => answer = Unknown
      BY DEF IInv, BudgetInv
    <3> QED
      BY <1>1, <1>3, <1>4, <2>1, <3>1 DEF BudgetInv, Unknown
  <2>4. ControlInv'
    BY <1>1, <1>6, <2>1 DEF IInv, ControlInv
  <2>5. DecisionInv'
    <3>1. SUFFICES ASSUME answer.ok PROVE (Readable(Top.name) # {})' /\ RestsOnTerm(answer)'
      BY <2>1 DEF DecisionInv
    <3>2. answer.authorized
      BY <1>8, <3>1
    <3>3. /\ (Readable(Top.name) # {})'
          /\ Top'.at <= Len(Record)' /\ Current'.kind = "include"
      BY <2>2 DEF AtInclude, Current, Record, RecordOf
    <3>4. Top'.at \in Nat /\ Len(Record)' \in Nat
      <4>1. Top'.at \in Nat
        BY <2>2 DEF Frame
      <4>2. PICK n \in Name : n = Top'.name
        BY <2>2 DEF Frame
      <4>3. Record' = RecordOf(n) /\ Readable(n) # {}
        BY <1>1, <3>3, <4>2, RecordLater
      <4>4. RecordOf(n) \in Seq(Field)
        BY <4>3, RecordType DEF IInv
      <4> QED
        BY <4>1, <4>3, <4>4
    <3> QED
      BY <2>1, <3>2, <3>3, <3>4 DEF RestsOnTerm
  <2>6. EarnedInv'
    <3>1. SUFFICES ASSUME answer.authorized PROVE (\E n \in LedTo : Vouches(n))'
      BY <2>1 DEF EarnedInv
    <3>2. PICK n \in LedTo : Vouches(n)
      BY <3>1 DEF IInv, EarnedInv
    <3>3. n \in LedTo' /\ Vouches(n)'
      BY <1>1, <3>2, Later, LedToIsName
    <3> QED
      BY <3>3
  <2> QED
    BY <1>5, <2>2, <2>3, <2>4, <2>5, <2>6 DEF IInv
<1> QED
  BY <1>7, <1>8

\* Nothing of the walk changes.
LEMMA QuietStep ==
    ASSUME IInv, UNCHANGED <<zone, root, ip, stack, budget, mxLeft, answer>>,
           pc' = pc \/ (pc = "return" /\ pc' = "done")
    PROVE  IInv'
<1>1. UNCHANGED asked /\ UNCHANGED stack /\ StackInv
  BY DEF asked, IInv
<1>2. /\ StackInv' /\ Readable(Top.name)' = Readable(Top.name)
      /\ Top' = Top /\ Record' = Record /\ Current' = Current
  BY <1>1, StackKept
<1>3. BudgetInv'
  BY DEF IInv, BudgetInv
<1>4. ControlInv'
  <2>1. ControlInv /\ Readable(Top.name)' = Readable(Top.name)
    BY <1>2 DEF IInv
  <2>2. pc' = "mx" => mxLeft \subseteq ExchangersOf(HostOf(Current, Top.name))'
    <3>1. pc' = "mx" => mxLeft \subseteq ExchangersOf(HostOf(Current, Top.name))
      BY <2>1 DEF ControlInv
    <3> QED
      BY <1>1, <1>2, <3>1, ExchangersLater
  <2> QED
    BY <1>2, <2>1, <2>2 DEF ControlInv
<1>5. DecisionInv'
  <2>1. SUFFICES ASSUME answer.given, answer.ok
                 PROVE  (Readable(Top.name) # {})' /\ RestsOnTerm(answer)'
    BY DEF DecisionInv
  <2>2. Readable(Top.name) # {} /\ RestsOnTerm(answer)
    BY <2>1 DEF IInv, DecisionInv
  <2>3. Settles(Current)' <=> Settles(Current)
    BY <1>2 DEF Settles
  <2> QED
    BY <1>2, <2>2, <2>3 DEF RestsOnTerm
<1>6. EarnedInv'
  <2>1. SUFFICES ASSUME answer.authorized PROVE (\E n \in LedTo : Vouches(n))'
    BY DEF EarnedInv
  <2>2. PICK n \in LedTo : Vouches(n)
    BY <2>1 DEF IInv, EarnedInv
  <2>3. n \in LedTo' /\ Vouches(n)'
    BY <1>1, <2>2, Later, LedToIsName
  <2> QED
    BY <2>3
<1> QED
  BY <1>2, <1>3, <1>4, <1>5, <1>6 DEF IInv

LEMMA Invariance == Spec => []IInv
<1>1. IInv /\ [Next]_vars => IInv'
  <2> SUFFICES ASSUME IInv, [Next]_vars PROVE IInv'
    OBVIOUS
  <2>1. CASE Finish
    BY <2>1, QuietStep DEF Finish
  <2>2. CASE UNCHANGED vars
    BY <2>2, QuietStep DEF vars
  <2> QED
    BY <2>1, <2>2, FetchRecordStep, AllStep, IPStep, SkipStep, AStep, MXStep, MXHostStep,
       MXEndStep, IncludeStep, EndOfRecordStep, ReturnToIncludeStep
       DEF Next, Step, Returned
<1> QED
  BY <1>1, InitEstablishes, PTL DEF Spec

-----------------------------------------------------------------------------
(* The theorems.                                                           *)

\* Every call but the innermost stands at its include, and an answer is there
\* exactly while one is being returned.
THEOREM TypeCorrect == Spec => []TypeOK
<1>1. IInv => TypeOK
  <2> SUFFICES ASSUME IInv PROVE TypeOK
    OBVIOUS
  <2>1. /\ DOMAIN zone = Name /\ root \in Targets /\ ip \in Suspects
        /\ stack \in Seq([name : Name, at : Nat \ {0}]) /\ stack # <<>>
        /\ budget \in -1 .. Limit
    BY DEF IInv, StackInv, BudgetInv, Frame
  <2>2. mxLeft \subseteq Name
    <3>1. SUFFICES ASSUME pc = "mx" PROVE mxLeft \subseteq Name
      BY DEF IInv, ControlInv
    <3>2. Current \in Field /\ Top.name \in Name /\ mxLeft \subseteq ExchangersOf(HostOf(Current, Top.name))
      BY <3>1, TermFacts DEF IInv, ControlInv
    <3> QED
      BY <3>2, DNSTypes DEF IInv
  <2>3. \A k \in 1 .. (Len(stack) - 1) : \E terms \in Readable(stack[k].name) :
           stack[k].at <= Len(terms) /\ terms[stack[k].at].kind = "include"
    <3> SUFFICES ASSUME NEW k \in 1 .. (Len(stack) - 1)
                 PROVE  \E terms \in Readable(stack[k].name) :
                           stack[k].at <= Len(terms) /\ terms[stack[k].at].kind = "include"
      OBVIOUS
    <3>1. AtInclude(stack[k])
      BY DEF IInv, StackInv
    <3> QED
      BY <3>1 DEF AtInclude, RecordOf
  <2> QED
    BY <2>1, <2>2, <2>3 DEF TypeOK, IInv, ControlInv
<1> QED
  BY <1>1, Invariance, PTL

\* However the records include each other, no call is free.
THEOREM RecursionTheorem == Spec => []RecursionIsPaidFor
<1>1. IInv => RecursionIsPaidFor
  BY DEF IInv, BudgetInv, RecursionIsPaidFor
<1> QED
  BY <1>1, Invariance, PTL

\* A decision rests on the first term that settles the matter.
THEOREM DecisionTheorem == Spec => []DecisionRestsOnItsTerm
<1>1. IInv => DecisionRestsOnItsTerm
  <2> SUFFICES ASSUME IInv, answer.given, answer.ok
               PROVE  (\A i \in 1 .. (Top.at - 1) : ~Settles(Record[i])) /\ RestsOnTerm(answer)
    BY DEF DecisionRestsOnItsTerm, RestsOnTerm
  <2>1. Readable(Top.name) # {} /\ RestsOnTerm(answer)
    BY DEF IInv, DecisionInv
  <2>2. Fine(Top) /\ Record = RecordOf(Top.name)
    BY TopFacts DEF IInv
  <2> QED
    BY <2>1, <2>2 DEF Fine
<1> QED
  BY <1>1, Invariance, PTL

\* Nobody is authorized unless a record the target leads to vouches for the
\* address by itself.
THEOREM EarnedTheorem == Spec => []AuthorizationIsEarned
<1>1. IInv => AuthorizationIsEarned
  BY DEF IInv, EarnedInv, AuthorizationIsEarned
<1> QED
  BY <1>1, Invariance, PTL

\* No caller turns an unknown into a decision.
THEOREM UnknownTheorem == Spec => UnknownIsFinal
<1>1. IInv /\ [Next]_vars => [answer.given /\ ~answer.ok => ~answer'.ok]_vars
  <2> SUFFICES ASSUME IInv, [Next]_vars, answer.given, ~answer.ok PROVE ~answer'.ok
    OBVIOUS
  <2>1. pc \in {"return", "done"}
    BY DEF IInv, ControlInv
  <2>2. answer' = answer
    BY <2>1 DEF Next, Step, Returned, vars, FetchRecord, All, IP, Skip, A, MX, MXHost, MXEnd,
       Include, EndOfRecord, ReturnToInclude, Finish, AtTerm
  <2> QED
    BY <2>2
<1> QED
  BY <1>1, Invariance, PTL DEF Spec, UnknownIsFinal
===============================================================================
