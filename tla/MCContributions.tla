--------------------------- MODULE MCContributions ---------------------------
(***************************************************************************)
(* Two owners' accounts and every household of two contributions of a few   *)
(* amounts and windows, over two tax years of three intervals.              *)
(***************************************************************************)
EXTENDS Contributions

MCOwner      == [k401 |-> "a", old401 |-> "a", spouse |-> "b"]
MCAccounts   == DOMAIN MCOwner
MCLimit      == [EMPLOYER_PLAN |-> 13, PERSONAL |-> 5]
MCWageGrowth == <<[num |-> 1, den |-> 1], [num |-> 3, den |-> 2]>>

Windows == {<<1, 6>>, <<1, 2>>, <<3, 6>>}
Planned == {[account |-> a, kind |-> k, amount |-> n, start |-> w[1], end |-> w[2]] :
               a \in MCAccounts, k \in {"EMPLOYER_PLAN", "PERSONAL", "none"}, n \in {2, 4, 9}, w \in Windows}

AnyHouseholds    == {<<p, q>> : p, q \in Planned}
SteadyHouseholds == {hh \in AnyHouseholds : Steady(hh)}

\* One account after another, each alone in it.
ChangedJobs == {hh \in AnyHouseholds : hh[1].account # hh[2].account /\ hh[1].end < hh[2].start}
=============================================================================
