-------------------------------- MODULE MCSpf --------------------------------
(* Every record of up to two of the fields below for the brand, and of up to *)
(* one for the mailer it can lead to; both can lead back.  The brand has an  *)
(* IPv4 and an IPv6 address, the mailer an IPv6 one of another network; the  *)
(* exchangers are both hosts.                                                *)
EXTENDS Spf

CONSTANTS brand, mailer, four, six, sixNear, sixFar

MCName == {brand, mailer}
MCAddr == {four, six, sixNear, sixFar}
MCV6 == {six, sixNear, sixFar}
MCNetwork == [a \in MCAddr |-> IF a \in {six, sixNear} THEN {six, sixNear} ELSE {a}]
MCTargets == {brand}
MCSuspects == {four, six, sixNear}

Term(kind, plus, text) == [kind |-> kind, plus |-> plus, text |-> text]
Plain(kind, plus) == Term(kind, plus, <<Blank>>)

Common ==
    {Plain("all", plus) : plus \in BOOLEAN}
    \union {Term("ip", TRUE, <<six, Length>>), Plain("a", TRUE)}
    \union {Term(kind, TRUE, <<n>>) : kind \in {"include", "redirect"}, n \in {brand, mailer}}

\* a:mailer//six/64 and a///six/64 give a network, a//six/64 loses it; a//64 and
\* a/64 give a length alone; a/sixNear an address nobody has.
OfBrand ==
    Common
    \union {Term("include", FALSE, <<mailer>>), Term("mx", TRUE, <<mailer>>), Term("mx", FALSE, <<mailer>>)}
    \union {Term("ip", FALSE, <<six, Length>>), Term("ip", TRUE, <<four>>), Term("ip", TRUE, <<Length>>)}
    \union {Term("a", TRUE, text) : text \in
               {<<mailer, Blank, six, Length>>, <<Blank, Blank, Blank, six, Length>>,
                <<Blank, Blank, six, Length>>, <<Blank, Blank, Length>>, <<Blank, Length>>,
                <<Blank, sixNear>>}}
    \union {Plain(kind, TRUE) : kind \in {"skip", "unreadable"}}

Records(fields, len) == UNION {[1 .. n -> fields] : n \in 0 .. len}
Texts(fields, len) == {{}} \union {{record} : record \in Records(fields, len)}

MCZones ==
    {[n \in MCName |->
        IF n = brand THEN [txt |-> atBrand, addrs |-> {four, six}, mx |-> {}]
                     ELSE [txt |-> atMailer, addrs |-> {sixFar}, mx |-> {brand, mailer}]] :
     atBrand \in Texts(OfBrand, 2),
     atMailer \in Texts(Common, 1) \union {Records({Plain("all", TRUE), Plain("a", TRUE)}, 1)}}
=============================================================================
