-------------------------------- MODULE Triage -------------------------------
(***************************************************************************)
(* What a run of phisherslapper promises, without saying how: it gathers   *)
(* pieces of evidence, each of which it gets or loses for good, and ends   *)
(* once, with a verdict only if it has every mandatory piece and with a    *)
(* refusal only if it has lost one.  ("Lookups fail closed", README.)      *)
(***************************************************************************)
CONSTANTS
    Pieces,    \* the pieces of evidence a run can need
    Mandatory  \* those no verdict may be printed without

VARIABLES have, lost, outcome

vars == <<have, lost, outcome>>

Init ==
    /\ have = {}
    /\ lost = {}
    /\ outcome = "pending"

\* Some pieces are settled, for good.
Gather ==
    /\ outcome = "pending"
    /\ have \subseteq have' /\ lost \subseteq lost'
    /\ have' \union lost' \subseteq Pieces
    /\ have' \intersect lost' = {}
    /\ UNCHANGED outcome

Deliver ==
    /\ outcome = "pending"
    /\ Mandatory \subseteq have
    /\ outcome' = "verdict"
    /\ UNCHANGED <<have, lost>>

Refuse ==
    /\ outcome = "pending"
    /\ Mandatory \intersect lost # {}
    /\ outcome' = "refused"
    /\ UNCHANGED <<have, lost>>

Next == Gather \/ Deliver \/ Refuse

Spec == Init /\ [][Next]_vars
=============================================================================
