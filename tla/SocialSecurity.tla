--------------------------- MODULE SocialSecurity ---------------------------
(***************************************************************************)
(* Social Security: the claiming schedule of jurisdiction/us/               *)
(* social_security.py, and the couple's benefits on a date of               *)
(* jurisdiction/social_security_household.py.  Ages are in months and        *)
(* factors in 3600ths of the benefit at full retirement age, the common     *)
(* denominator of the schedule's monthly steps.                             *)
(*                                                                         *)
(* A member is [born, pia, claims, dies]; pia is Unset and claims NoDate for *)
(* a spouse with no entitlement of their own, dies NoDate while no death is *)
(* known.  A household is a sequence of one or two members.                 *)
(***************************************************************************)
EXTENDS Money, Dates

CONSTANTS
    EarliestClaimAge,     \* 62: the earliest age at which benefits are claimed
    DelayCeilingAge       \* 70: the age at which delayed-retirement credits stop accruing

Unset == -1

\* full_retirement_age_months.
FullRetirementAge(birthYear) ==
    IF birthYear <= 1937 THEN 65 * 12
    ELSE IF birthYear <= 1942 THEN 65 * 12 + 2 * (birthYear - 1937)
    ELSE IF birthYear <= 1954 THEN 66 * 12
    ELSE IF birthYear <= 1959 THEN 66 * 12 + 2 * (birthYear - 1954)
    ELSE 67 * 12

\* The steps of the schedule: one a month for 36 months, a smaller one beyond them.
Reduction(early, step) == step * Lesser(early, 36) + 15 * Greater(early - 36, 0)

\* elapsed_months: calendar months, whatever the days.
AgeInMonths(born, on) == MonthOf(on) - MonthOf(born)

\* _adjustment_factor.
AdjustmentFactor(born, claims) ==
    LET normal == FullRetirementAge(YearOf(born))
        delta  == AgeInMonths(born, claims) - normal
    IN  IF delta < 0 THEN 3600 - Reduction(-delta, 20)
        ELSE 3600 + 24 * Lesser(delta, 12 * DelayCeilingAge - normal)

\* _spousal_factor: no credit for waiting, no claim before the earliest age.
SpousalFactor(born, claims) ==
    LET normal == FullRetirementAge(YearOf(born))
        early  == normal - AgeInMonths(born, claims)
    IN  IF early <= 0 THEN 3600
        ELSE 3600 - Reduction(Lesser(early, normal - 12 * EarliestClaimAge), 25)

\* realized_annual_benefit.
RealizedAnnual(m) == Quantize(m.pia * AdjustmentFactor(m.born, m.claims), 300)

\* spousal_excess_annual_benefit.
SpousalAnnual(higher, lower) ==
    Quantize(Greater(0, higher.pia - 2 * lower.pia) * SpousalFactor(lower.born, lower.claims), 600)
-----------------------------------------------------------------------------
(* household_benefit_breakdown. *)

\* _non_earning_spouse: claims when the earner files, not before the earliest age.
SpouseOf(earner, m) ==
    LET earliest == m.born + 24 * EarliestClaimAge
    IN  [m EXCEPT !.pia = 0, !.claims = Greater(earner.claims, earliest)]

\* _active_claims, aligned to the members; a member without a claim keeps an unset pia.
ActiveClaims(members) ==
    [i \in DOMAIN members |->
        LET others == {j \in DOMAIN members : j # i /\ members[j].pia # Unset}
        IN  IF members[i].pia # Unset \/ others = {} THEN members[i]
            ELSE SpouseOf(members[CHOOSE j \in others : TRUE], members[i])]

\* _has_died: gone the year after the death.
HasDied(m, on) == m.dies # NoDate /\ YearOf(on) > YearOf(m.dies)

\* _own_benefit.
OwnBenefit(m, on) == IF m.pia = Unset \/ on < m.claims THEN 0 ELSE RealizedAnnual(m)

\* _spousal_excess: once both collect.
SpousalExcess(lower, higher, on) ==
    IF on >= lower.claims /\ on >= higher.claims THEN SpousalAnnual(higher, lower) ELSE 0

NoBenefit == [own |-> 0, spousal |-> 0, survivor |-> 0]

\* Mutant of PostDeath: a benefit nobody had claimed is not inherited.
PostDeathIfClaimed(survivor, decedent, on) ==
    LET own       == OwnBenefit(survivor, on)
        inherited == IF decedent.dies < decedent.claims THEN 0 ELSE OwnBenefit(decedent, on)
    IN  IF inherited > own THEN [NoBenefit EXCEPT !.survivor = inherited]
        ELSE [NoBenefit EXCEPT !.own = own]

\* Mutant of PostDeath: the survivor keeps their own, and no more.
PostDeathOwn(survivor, decedent, on) == [NoBenefit EXCEPT !.own = OwnBenefit(survivor, on)]

\* _post_death_benefit: the larger of the two own benefits, each once claimed.
PostDeath(survivor, decedent, on) ==
    LET own       == OwnBenefit(survivor, on)
        inherited == OwnBenefit(decedent, on)
    IN  IF inherited > own THEN [NoBenefit EXCEPT !.survivor = inherited]
        ELSE [NoBenefit EXCEPT !.own = own]

\* Which member is the lower earner of a couple; of two alike, the second.
LowerOf(claims) == IF claims[2].pia > claims[1].pia THEN 1 ELSE 2

Breakdown(members, on) ==
    LET claims == ActiveClaims(members) IN
    [i \in DOMAIN claims |->
        LET m == claims[i]  spouse == claims[3 - i] IN
        IF m.pia = Unset \/ HasDied(m, on) THEN NoBenefit
        ELSE IF Len(claims) = 1 THEN [NoBenefit EXCEPT !.own = OwnBenefit(m, on)]
        ELSE IF HasDied(spouse, on) THEN PostDeath(m, spouse, on)
        ELSE [NoBenefit EXCEPT
                !.own     = OwnBenefit(m, on),
                !.spousal = IF i = LowerOf(claims) THEN SpousalExcess(m, spouse, on) ELSE 0]]

TotalOf(benefit) == benefit.own + benefit.spousal + benefit.survivor

\* household_benefits, over the members.
HouseholdBenefit(members, on) ==
    LET parts == Breakdown(members, on)
    IN  TotalOf(parts[1]) + (IF Len(members) = 2 THEN TotalOf(parts[2]) ELSE 0)
=============================================================================
