------------------------------ MODULE Claiming ------------------------------
(***************************************************************************)
(* The claiming calculator, calculators/ss_timing/compute.py, and the life   *)
(* table it weights by, jurisdiction/us/mortality.py.  A claimant is         *)
(* [born, pia, sex, setback, lifetime]: born on a first of January, with a   *)
(* pia of 0 for a spouse who never earned, sex Blended when it is not given. *)
(*                                                                         *)
(* Growth is a whole factor a year.  A chance is a count: survival out of    *)
(* 2 * Cohort, the part of a year somebody is alive out of 4 * Cohort.  A    *)
(* discounted value is the source's times the growth to the last age the     *)
(* calculator looks at, which changes no comparison of two strategies.       *)
(***************************************************************************)
EXTENDS SocialSecurity, Functions
LOCAL INSTANCE FiniteSetsExt

CONSTANTS
    ClaimAges,            \* CLAIM_AGES
    HorizonCapAge,        \* HORIZON_CAP_AGE
    ColaLag,              \* COLA_INFLATION_LAG, taken off a whole growth factor
    LifeTable,            \* SSA_DEATH_PROBABILITY: age -> sex -> [num, den]
    Cohort,               \* how many lives a chance is counted over
    Blended               \* no sex given

Most(S)  == CHOOSE x \in S : \A y \in S : y <= x
Least(S) == CHOOSE x \in S : \A y \in S : x <= y
-----------------------------------------------------------------------------
(* Mortality *)

\* _death_probability: a younger age reads the first row, nobody outlives the last one.
DeathProbability(age, sex) ==
    IF age > Most(DOMAIN LifeTable) THEN [num |-> 1, den |-> 1]
    ELSE LifeTable[Greater(age, Least(DOMAIN LifeTable))][sex]

\* The running product of survival_probability, for one sex, out of Cohort.
Survivors(current, target, sex, setback) ==
    LET alive[age \in current .. target] ==
            IF age = current THEN Cohort
            ELSE LET q == DeathProbability(age - 1 + setback, sex)
                 IN  (alive[age - 1] * (q.den - q.num)) \div q.den
    IN  IF target <= current THEN Cohort ELSE alive[target]

\* survival_probability.
SurvivalProbability(current, target, sex, setback) ==
    IF sex = Blended
    THEN Survivors(current, target, "male", setback) + Survivors(current, target, "female", setback)
    ELSE 2 * Survivors(current, target, sex, setback)

\* alive_fraction: the year of a death counts half.
AliveFraction(current, yearAge, sex, setback) ==
      SurvivalProbability(current, yearAge, sex, setback)
    + SurvivalProbability(current, yearAge + 1, sex, setback)

\* life_expectancy, out of 2 * Cohort.
LifeExpectancy(current, sex, setback) ==
    2 * Cohort * current + Cohort
    + MapThenSumSet(LAMBDA age : SurvivalProbability(current, age, sex, setback),
                    current + 1 .. Most(DOMAIN LifeTable) + 1)

\* round( ): to the nearest, half to even.
RoundHalfEven(n, d) ==
    LET floor == n \div d  twice == 2 * (n % d)
    IN  IF twice > d \/ (twice = d /\ floor % 2 = 1) THEN floor + 1 ELSE floor
-----------------------------------------------------------------------------
(* The household asked about *)

BirthYear(claimant) == YearOf(claimant.born)

\* earners_of: the higher earner leads.
EarnersOf(claimants) ==
    IF Len(claimants) = 2 /\ claimants[2].pia > claimants[1].pia
    THEN <<claimants[2], claimants[1]>> ELSE claimants

\* deciding_count.
DecidingCount(claimants) == Cardinality({i \in DOMAIN claimants : claimants[i].pia > 0})

\* member_claims: a spouse who never earned claims when the primary earner files.
MemberClaims(earners, ages) ==
    LET claimed(i) == earners[i].born + 24 * ages[i]
    IN  [i \in DOMAIN earners |->
            [claimant |-> earners[i], isEarner |-> earners[i].pia > 0,
             claims   |-> IF earners[i].pia > 0 THEN claimed(i) ELSE claimed(1)]]

\* The entitlements of a forecast, with its removals: who never earned has none of their own.
MembersOf(earners, ages, deaths) ==
    [i \in DOMAIN earners |->
        [born   |-> earners[i].born,
         pia    |-> IF earners[i].pia > 0 THEN earners[i].pia ELSE Unset,
         claims |-> IF earners[i].pia > 0 THEN earners[i].born + 24 * ages[i] ELSE NoDate,
         dies   |-> deaths[i]]]

HorizonStart(earners) == Least({BirthYear(earners[i]) + EarliestClaimAge : i \in DOMAIN earners})
LastYearAt(earners, ages) == Most({BirthYear(earners[i]) + ages[i] : i \in DOMAIN earners})

\* _Horizon; cap is where values are discounted to.
HorizonTo(earners, ages) ==
    [start |-> HorizonStart(earners), end |-> LastYearAt(earners, ages),
     cap   |-> LastYearAt(earners, [i \in DOMAIN earners |-> HorizonCapAge])]

ForHousehold(earners) == HorizonTo(earners, [i \in DOMAIN earners |-> earners[i].lifetime])
Actuarial(earners)    == HorizonTo(earners, [i \in DOMAIN earners |-> HorizonCapAge])

\* _horizon_for.
HorizonFor(earners, basis) == IF basis = "actuarial" THEN Actuarial(earners) ELSE ForHousehold(earners)

\* _expected_death_age.
ExpectedDeathAge(claimant, from) ==
    RoundHalfEven(LifeExpectancy(from - BirthYear(claimant), claimant.sex, claimant.setback), 2 * Cohort)

\* representative_claimants.
RepresentativeClaimants(claimants) ==
    LET earners == EarnersOf(claimants)
    IN  [i \in DOMAIN earners |->
            [earners[i] EXCEPT !.lifetime = ExpectedDeathAge(earners[i], HorizonStart(earners))]]

\* Assumptions.from_inflation.
FromInflation(inflation, payable, reductionYear, expectedReturn) ==
    [inflation |-> inflation, cola |-> Greater(inflation - ColaLag, 1), payable |-> payable,
     reductionYear |-> reductionYear, expectedReturn |-> expectedReturn]

\* Assumptions.discount_rate.
DiscountRate(assumptions) ==
    IF assumptions.expectedReturn = Unset THEN assumptions.inflation ELSE assumptions.expectedReturn
-----------------------------------------------------------------------------
(* One forecast *)

\* What a forecast makes of a benefit: it grows with the COLA, and a shortfall keeps part of it;
\* counted in the shortfall's denominator.
Overlay(assumptions, horizon, year) ==
    assumptions.cola ^ (year - horizon.start)
    * (IF year < assumptions.reductionYear THEN assumptions.payable.den ELSE assumptions.payable.num)

\* _social_security_lines_for, over the intervals of a year: nobody claims or dies within one.
SocialSecurityLines(members, assumptions, horizon, year) ==
    HouseholdBenefit(members, YearStart(year)) * Overlay(assumptions, horizon, year)

\* A removal on the first day of the year of each death.
RemovalsOf(deaths) == [i \in DOMAIN deaths |-> IF deaths[i] = NoDate THEN NoDate ELSE YearStart(deaths[i])]

\* _run: what one forecast books in each of its years.
Run(earners, ages, assumptions, deaths, horizon) ==
    LET members == MembersOf(earners, ages, RemovalsOf(deaths))
    IN  [year \in horizon.start .. horizon.end |-> SocialSecurityLines(members, assumptions, horizon, year)]

\* _cumulative_social_security: what the books hold at the end of each year.
CumulativeSocialSecurity(run, horizon) ==
    LET through[year \in horizon.start - 1 .. horizon.end] ==
            IF year < horizon.start THEN 0 ELSE through[year - 1] + run[year]
    IN  through

\* _nominal_by_year: the change from one year's end to the next.
NominalByYear(earners, ages, assumptions, deaths, horizon) ==
    LET through == CumulativeSocialSecurity(Run(earners, ages, assumptions, deaths, horizon), horizon)
    IN  [year \in horizon.start .. horizon.end |-> through[year] - through[year - 1]]

DeathYear(claimant) == BirthYear(claimant) + claimant.lifetime

\* _specific_nominals.
SpecificNominals(earners, ages, assumptions, horizon) ==
    NominalByYear(earners, ages, assumptions, [i \in DOMAIN earners |-> DeathYear(earners[i])], horizon)

\* _claimant_alive_fraction.
ClaimantAlive(claimant, year, horizon) ==
    AliveFraction(horizon.start - BirthYear(claimant), year - BirthYear(claimant),
                  claimant.sex, claimant.setback)

\* _weighted_single.
WeightedSingle(earners, ages, assumptions, horizon) ==
    LET alive == NominalByYear(earners, ages, assumptions, <<NoDate>>, horizon)
    IN  [year \in DOMAIN alive |-> alive[year] * ClaimantAlive(earners[1], year, horizon)]

\* _weighted_couple: three runs, one per state of survival, a death placed before the horizon.
WeightedCouple(earners, ages, assumptions, horizon) ==
    LET gone   == horizon.start - 1
        run(deaths) == NominalByYear(earners, ages, assumptions, deaths, horizon)
        both   == run(<<NoDate, NoDate>>)
        higher == run(<<NoDate, gone>>)
        lower  == run(<<gone, NoDate>>)
    IN  [year \in DOMAIN both |->
            LET first  == ClaimantAlive(earners[1], year, horizon)
                second == ClaimantAlive(earners[2], year, horizon)
            IN    both[year] * first * second
                + higher[year] * first * (4 * Cohort - second)
                + lower[year] * second * (4 * Cohort - first)]

\* _actuarial_nominals.
ActuarialNominals(earners, ages, assumptions, horizon) ==
    IF Len(earners) = 1 THEN WeightedSingle(earners, ages, assumptions, horizon)
    ELSE WeightedCouple(earners, ages, assumptions, horizon)
-----------------------------------------------------------------------------
(* Strategies *)

\* _year_benefits: each year discounted at inflation and at the expected return.
YearBenefits(nominals, assumptions, horizon) ==
    [year \in DOMAIN nominals |->
        [nominal   |-> nominals[year],
         present   |-> nominals[year] * assumptions.inflation ^ (horizon.cap - year),
         effective |-> nominals[year] * DiscountRate(assumptions) ^ (horizon.cap - year)]]

\* _strategy_from_nominals.
StrategyFromNominals(ages, nominals, assumptions, horizon) ==
    LET years == YearBenefits(nominals, assumptions, horizon)
        total(of(_)) == MapThenSumSet(LAMBDA year : of(years[year]), DOMAIN years)
    IN  [ages      |-> ages, years |-> years,
         raw       |-> total(LAMBDA benefit : benefit.nominal),
         present   |-> total(LAMBDA benefit : benefit.present),
         effective |-> total(LAMBDA benefit : benefit.effective)]

\* _strategy_for.
StrategyFor(earners, ages, assumptions, horizon, basis) ==
    StrategyFromNominals(ages,
        IF basis = "actuarial" THEN ActuarialNominals(earners, ages, assumptions, horizon)
        ELSE SpecificNominals(earners, ages, assumptions, horizon),
        assumptions, horizon)

\* One person or a couple, at least one of whom earned; anything else is refused.
Comparable(claimants) == Len(claimants) \in 1 .. 2 /\ DecidingCount(claimants) > 0

\* compare_claiming_strategies: the grid of the ages the earners decide on.
CompareClaimingStrategies(claimants, assumptions, basis) ==
    LET earners == EarnersOf(claimants)
        horizon == HorizonFor(earners, basis)
    IN  IF ~Comparable(claimants) THEN {}
        ELSE {StrategyFor(earners, ages, assumptions, horizon, basis) :
                ages \in [1 .. DecidingCount(claimants) -> ClaimAges]}

\* compute_strategy.
ComputeStrategy(claimants, ages, assumptions, basis) ==
    LET earners == EarnersOf(claimants)
    IN  StrategyFor(earners, ages, assumptions, HorizonFor(earners, basis), basis)

\* views._detail: the drill-in is one run, of the representative lives when lives are uncertain.
Detail(claimants, ages, assumptions, basis) ==
    LET earners == IF basis = "actuarial" THEN RepresentativeClaimants(claimants) ELSE EarnersOf(claimants)
    IN  [earners |-> earners, strategy |-> ComputeStrategy(earners, ages, assumptions, "specific")]

\* _apportion.
Apportion(part, nominal, total) ==
    [kind \in DOMAIN part |-> IF total = 0 THEN 0 ELSE (part[kind] * nominal) \div total]

\* _household_members: everybody leaves at their expected lifetime.
HouseholdMembers(earners, ages) ==
    LET claims == MemberClaims(earners, ages)
    IN  [i \in DOMAIN earners |->
            [born   |-> earners[i].born,
             pia    |-> IF claims[i].isEarner THEN earners[i].pia ELSE Unset,
             claims |-> claims[i].claims,
             dies   |-> YearStart(DeathYear(earners[i]))]]

\* strategy_year_details: each year's total in the members' own, spousal and survivor parts, and
\* the first year a survivor collects.
StrategyYearDetails(earners, strategy) ==
    LET members == HouseholdMembers(earners, strategy.ages)
        parts(year) ==
            LET split == Breakdown(members, YearStart(year)) IN
            [i \in DOMAIN split |->
                Apportion(split[i], strategy.years[year].nominal, HouseholdBenefit(members, YearStart(year)))]
        survived(year) == \E i \in DOMAIN earners : parts(year)[i].survivor > 0
    IN  [year \in DOMAIN strategy.years |->
            [members    |-> parts(year),
             transition |-> survived(year) /\ \A past \in HorizonStart(earners) .. year - 1 : ~survived(past)]]
=============================================================================
