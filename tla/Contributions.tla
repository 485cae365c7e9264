---------------------------- MODULE Contributions ----------------------------
(***************************************************************************)
(* The annual limits on retirement contributions: how an interval scales    *)
(* its contribution lines down to what the year still allows                *)
(* (period/period.py _contribution_cap_factors), reading what the year has  *)
(* contributed so far off the books (period/fiscal_window.py).  Period.tla  *)
(* posts the scaled lines; here only their amounts are followed.            *)
(***************************************************************************)
EXTENDS Money, FiniteSetsExt, Sequences

CONSTANTS
    Accounts,     \* the retirement holdings
    Owner,        \* Owner[a]: the subject an account belongs to
    Limit,        \* Limit[kind]: the annual limit of a ContributionKind
    PerYear,      \* intervals in a tax year
    WageGrowth,   \* the wage growth since the start, as a fraction, one per tax year
    Households    \* the contributions a household may plan

NoKind == "none"          \* an employer match: counted against no limit, and not from cash
Kinds  == DOMAIN Limit
Years  == Len(WageGrowth)

\* A contribution of `amount` an interval in today's money, in the intervals start .. end.
ContributionPlans ==
    [account : Accounts, kind : Kinds \cup {NoKind}, amount : Nat, start : Nat, end : Nat]

ASSUME ContributionAssumption ==
    /\ IsFiniteSet(Accounts) /\ DOMAIN Owner = Accounts
    /\ \A k \in Kinds : Limit[k] \in Nat
    /\ PerYear \in Nat \ {0} /\ WageGrowth \in Seq([num : Nat, den : Nat \ {0}])
    /\ \A hh \in Households : hh \in Seq(ContributionPlans)

VARIABLES
    plans,     \* the household's contributions, in order
    walked,    \* intervals walked so far
    made       \* made[p]: what contribution p has put in over the tax year so far

contributionVars == <<plans, walked, made>>
-----------------------------------------------------------------------------
(* The interval about to run is t + 1. *)

Year        == 1 + walked \div PerYear
YearToDate  == IF walked % PerYear = 0 THEN [p \in DOMAIN plans |-> 0] ELSE made
Lines       == {p \in DOMAIN plans : plans[p].start <= walked + 1 /\ walked + 1 <= plans[p].end}
Capped(p)   == plans[p].kind # NoKind
Group(p)    == {q \in DOMAIN plans : /\ plans[q].kind = plans[p].kind
                                     /\ Owner[plans[q].account] = Owner[plans[p].account]}

GrownAmount(p, y) == Quantize(plans[p].amount * WageGrowth[y].num, WageGrowth[y].den)
LineAmount(p)     == GrownAmount(p, Year)

\* FiscalWindow.contributions_from_cash: all cash put into the account over the tax year,
\* whatever limit it counts against; a match is not cash.
ContributionsFromCash(a) ==
    MapThenSumSet(LAMBDA q : YearToDate[q], {q \in DOMAIN plans : plans[q].account = a /\ Capped(q)})

\* Mutant: the interval held to the whole limit.
NothingCounted(p) == 0

\* The group's contributions so far: of the accounts this interval's lines of the group
\* name, one account after another, once per line.
Contributed(p) ==
    MapThenSumSet(LAMBDA q : ContributionsFromCash(plans[q].account), Group(p) \cap Lines)

Intended(p) == MapThenSumSet(LineAmount, Group(p) \cap Lines)

Headroom(p) == Greater(0, Limit[plans[p].kind] - Contributed(p))

\* A line is scaled with its group when the group overruns the headroom.
ScaledAmount(p) ==
    IF Capped(p) /\ Intended(p) > Headroom(p)
    THEN Quantize(LineAmount(p) * Headroom(p), Intended(p))
    ELSE LineAmount(p)

\* BaselineBuilder._reject_over_limit_contributions: what is contributed from the start
\* has to fit the first year's limit.
Accepted(hh) ==
    LET first(p) == {q \in DOMAIN hh : /\ hh[q].start <= 1 /\ 1 <= hh[q].end
                                       /\ hh[q].kind = hh[p].kind
                                       /\ Owner[hh[q].account] = Owner[hh[p].account]}
    IN  \A p \in DOMAIN hh : hh[p].kind # NoKind =>
            MapThenSumSet(LAMBDA q : PerYear * hh[q].amount, first(p)) <= Limit[hh[p].kind]

ContributionInit ==
    /\ plans \in {hh \in Households : Accepted(hh)}
    /\ walked = 0
    /\ made = [p \in DOMAIN plans |-> 0]

\* One interval: the factors are all read before the first line posts.
ContributeInterval ==
    /\ walked < Years * PerYear
    /\ made' = [p \in DOMAIN plans |-> YearToDate[p] + (IF p \in Lines THEN ScaledAmount(p) ELSE 0)]
    /\ walked' = walked + 1
    /\ UNCHANGED plans

ContributionSpec == ContributionInit /\ [][ContributeInterval]_contributionVars
-----------------------------------------------------------------------------
(* Properties. *)

\* What has run earlier in a tax year still runs while another of its limit does.
Steady(hh) ==
    LET runs(q, n) == hh[q].start <= n /\ n <= hh[q].end
    IN  \A p, q \in DOMAIN hh :
            /\ hh[p].kind # NoKind /\ hh[q].kind = hh[p].kind
            /\ Owner[hh[q].account] = Owner[hh[p].account]
            => \A m, n \in 1 .. Years * PerYear :
                  /\ m < n /\ (m - 1) \div PerYear = (n - 1) \div PerYear
                  /\ runs(q, m) /\ runs(p, n)
                  => runs(q, n)

GroupTotal(f(_), p) == MapThenSumSet(f, Group(p))

\* A year's contributions that count against one limit never exceed it, but for the
\* half unit each line's share may round up (period/parameters.py ContributionLine).
WithinLimit ==
    \A p \in DOMAIN plans : Capped(p) =>
        2 * GroupTotal(LAMBDA q : made[q], p) <= 2 * Limit[plans[p].kind] + Cardinality(Group(p))
=============================================================================
