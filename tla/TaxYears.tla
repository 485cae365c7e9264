------------------------------ MODULE TaxYears ------------------------------
(***************************************************************************)
(* A couple's tax years, one after the other, as Forecast.run walks them:    *)
(* the benefits the household collects, the law projected to the year, the   *)
(* assessment, and what TaxState carries into the next year.  A year's       *)
(* income is chosen from a small set in base-year money and keeps up with    *)
(* the projection; carryovers and the basis of a rental stay nominal.        *)
(***************************************************************************)
EXTENDS Claiming, TaxLaw

CONSTANTS
    BaseYear, LastYear,   \* BASE_YEAR, and the end of the forecast
    BaseLaw,              \* federal_2026: the figures of the base year
    Cola,                 \* the projection's growth, a whole factor a year
    Households,           \* the couples tried: [earners, claims, deaths, projection, asked]: the higher
                          \* earner first, the dates they claim on, the years they die in (or
                          \* NoDate), how the law is projected, and what the claiming
                          \* calculator is asked: the claimants and their assumptions
    Rentals,              \* the rentals they start with: id -> [basis, acquired, recovery]
    Incomes,              \* what a year may bring, in base-year money
    Health,               \* the household's subsidized coverage
    Rounding              \* how many units the roundings of one return may add up to

\* The figures of a year that the returns below read, and of the law that the threading rests on.
Earnings == {"wages", "ordinary", "pension", "distribution", "rothEarnings", "interest", "dividends",
             "shortGains", "longGains", "residenceGain", "secondHomeGain", "rentalGain",
             "collectiblesGain", "pretaxContributed", "pretaxOpening", "pretaxWithdrawn", "rent",
             "rentalExpense", "socialSecurity"}
Figures  == {"brackets", "ltcg", "standard", "wageBase", "aca", "lossCap", "exclusion", "passive",
             "penaltyAge", "lifetimeTop", "lifetimeTable"}

\* The credit for waiting stops at 70, some time after full retirement.  A plan may claim at any
\* age: the form takes every date.
ASSUME CoupleAssumption ==
    /\ BaseYear \in Nat /\ LastYear \in Nat
    /\ EarliestClaimAge \in Nat /\ EarliestClaimAge >= 62
    /\ DelayCeilingAge \in 67 .. 70
    /\ \A hh \in Households :
          /\ hh.earners \in [1 .. 2 -> [born : Nat, pia : Nat]]
          /\ \A i \in 1 .. 2 : hh.claims[i] \in Nat /\ hh.deaths[i] \in Nat \cup {NoDate}

ASSUME IncomeAssumption ==
    /\ \A y \in BaseYear .. LastYear : Cola ^ (y - BaseYear) \in Nat \ {0}
    /\ \A f \in Incomes : Earnings \subseteq DOMAIN f /\ \A k \in Earnings : f[k] \in Int
    /\ IsFiniteSet(DOMAIN Rentals)
    /\ \A r \in DOMAIN Rentals : /\ Rentals[r].basis \in Int /\ Rentals[r].acquired \in Int
                                 /\ Rentals[r].recovery \in Nat \ {0}

ASSUME LawAssumption ==
    /\ Figures \subseteq DOMAIN BaseLaw
    /\ BaseLaw.lossCap \in Nat /\ BaseLaw.penaltyAge \in Nat
    /\ \A status \in {"joint", "single"} : BaseLaw.exclusion[status] \in Int
    /\ BaseLaw.passive.allowance \in Nat \ {0}
    /\ BaseLaw.passive.start \in Int /\ BaseLaw.passive.end \in Int
    /\ (BaseLaw.passive.end - BaseLaw.passive.start) \div BaseLaw.passive.allowance \in Nat \ {0}
    /\ BaseLaw.lifetimeTop \in Nat /\ BaseLaw.lifetimeTop >= 75
    /\ \A age \in 72 .. BaseLaw.lifetimeTop : BaseLaw.lifetimeTable[age] \in Nat \ {0}

VARIABLES
    year,                 \* the tax year to be walked next
    household,            \* one of Households, fixed at the start
    soldOn,               \* rental -> the date of its sale, or NotSold
    carried,              \* the engine's threaded state
    last,                 \* the year just assessed: [w, c, opening, prepaid, result]
    history               \* what the years so far added up to (a history variable)

vars == <<year, household, soldOn, carried, last, history>>

Nobody == [year |-> NoDate]

\* SubjectRemoval: a death on the first day of its year.
DeathDates == [i \in 1 .. 2 |-> IF household.deaths[i] = NoDate THEN NoDate
                                ELSE YearStart(household.deaths[i])]
Members ==
    [i \in 1 .. 2 |->
        LET earner == household.earners[i]
        IN  [born   |-> earner.born,
             pia    |-> IF earner.pia > 0 THEN earner.pia ELSE Unset,
             claims |-> IF earner.pia > 0 THEN household.claims[i] ELSE NoDate,
             dies   |-> DeathDates[i]]]

\* ForecastParameters.active_subjects, survivor_handle and earliest_removal_year.
PresentIn(i, y)  == household.deaths[i] = NoDate \/ y <= household.deaths[i]
Present(y)       == {i \in 1 .. 2 : PresentIn(i, y)}
EarliestDeath    == LET years == {household.deaths[i] : i \in 1 .. 2} \ {NoDate}
                    IN  IF years = {} THEN NotSold ELSE CHOOSE y \in years : \A z \in years : y <= z
Subject(i, y)    == [age |-> y - YearOf(household.earners[i].born), born |-> YearOf(household.earners[i].born)]

\* resolve_household_size.
HouseholdSize(y) == Health.size - Cardinality((1 .. 2) \ Present(y))

\* Statute._cola_factor.
ColaFactor(y) == Cola ^ (y - BaseYear)

\* Mutant of EngineFor: the figures of a year are indexed once more.
EngineIndexedTwice(y, projection) ==
    IF projection = "current law" THEN BaseLaw
    ELSE Indexed(Indexed(BaseLaw, ColaFactor(y)), ColaFactor(y))

\* Statute.engine_for.
EngineFor(y, projection) ==
    IF projection = "current law" THEN BaseLaw ELSE Indexed(BaseLaw, ColaFactor(y))

\* Amounts that keep up with the projection.
Grown(f, factor) == [k \in DOMAIN f |-> f[k] * factor]

\* The household's pre-tax holder, _holding_owner's answer when there is one holding.
Owner(y) == Subject(CHOOSE i \in Present(y) : \A j \in Present(y) : i <= j, y)

\* A year's income as the books show it, before anything is forced out.
DrawnIn(y, w, factor) ==
    LET letting == \E r \in DOMAIN Rentals : soldOn[r] = NotSold
    IN  [w EXCEPT
            !.socialSecurity = HouseholdBenefit(Members, YearStart(y)) * factor,
            !.rent = IF letting THEN @ ELSE 0,
            !.rentalExpense = IF letting THEN @ ELSE 0]

Windowed(y, drawn, forced) ==
    [k \in DOMAIN drawn \cup {"opening", "closing"} |->
        CASE k = "opening"      -> 2 * y
          [] k = "closing"      -> 2 * y + 2
          [] k = "distribution" -> drawn.pretaxWithdrawn + forced
          [] OTHER              -> drawn[k]]

WindowOfDrawn(y, drawn) == Windowed(y, drawn, ForcedDistribution(BaseLaw, drawn, Owner(y)))

\* The fiscal window of a year: its income, the benefits collected, and what was forced out.
WindowOf(y, f, sales, factor) ==
    WindowOfDrawn(y, DrawnIn(y, [Grown(f, factor) EXCEPT !.rentalGain = IF sales = {} THEN 0 ELSE @],
                             factor))

\* Forecast._tax_context_for with the period's dispositions: a rental sold in an earlier year
\* is dropped, one sold in this one carries the date of its sale.
ContextOf(y, sales) ==
    [year |-> y, filing |-> "joint", deathYear |-> EarliestDeath,
     owner |-> Owner(y),
     subjects |-> [i \in Present(y) |-> Subject(i, y)],
     participates |-> TRUE,
     health |-> [Health EXCEPT !.size = HouseholdSize(y)],
     rentals |-> {[id |-> r, basis |-> Rentals[r].basis, acquired |-> Rentals[r].acquired,
                   recovery |-> Rentals[r].recovery,
                   sold |-> IF r \in sales THEN 2 * y + 1 ELSE NotSold]
                    : r \in {r \in DOMAIN Rentals : soldOn[r] = NotSold}}]
-----------------------------------------------------------------------------
Init ==
    /\ year = BaseYear
    /\ household \in Households
    /\ soldOn = [r \in DOMAIN Rentals |-> NotSold]
    /\ carried = NoCarryover
    /\ last = Nobody
    /\ history = [short |-> 0, long |-> 0, rental |-> 0, deducted |-> 0, offset |-> 0,
                  shortLost |-> 0, longLost |-> 0,
                  depreciated |-> [r \in DOMAIN Rentals |-> 0]]

\* The books of a year whose return is filed: what it carries on, and what it added up to.
Filed(f, w, c, law, result) ==
    LET taken(r) == SumOver({x \in c.rentals : x.id = r},
                            LAMBDA x : DepreciationIn(x, w.opening, w.closing))
    IN  /\ carried' = result.closing
        /\ last' = [year |-> year, base |-> f, w |-> w, c |-> c, opening |-> carried,
                    prepaid |-> Estimate(result.net, carried),
                    penalties |-> Penalties(BaseLaw, w, c.owner),
                    withheld |-> EmploymentTax(law, FilingStatus(c.filing, c.deathYear, year), <<w.wages>>),
                    net |-> result.net]
        /\ history' = [history EXCEPT
                !.short = @ + result.grossShort,
                !.long = @ + result.grossLong,
                !.shortLost = @ + Greater(0, -result.grossShort),
                !.longLost = @ + Greater(0, -result.grossLong),
                !.offset = @ + result.netted.ordinary + result.netted.preferential
                             - result.netted.offset,
                !.rental = @ + result.netRental,
                !.deducted = @ + result.passive.deductible,
                !.depreciated = [r \in DOMAIN Rentals |-> @[r] + taken(r)]]

\* The return of a year under the law of the year.
Return(f, w, c, law) == Filed(f, w, c, law, Assess(law, w, c, carried))

\* One year: its income, the rentals sold in it, and the return filed for it.
FileYear(f, sales) ==
    /\ year <= LastYear
    /\ Present(year) # {}
    /\ \A r \in sales : soldOn[r] = NotSold
    /\ Return(f, WindowOf(year, f, sales, ColaFactor(year)), ContextOf(year, sales),
              EngineFor(year, household.projection))
    /\ soldOn' = [r \in DOMAIN Rentals |-> IF r \in sales THEN 2 * year + 1 ELSE soldOn[r]]
    /\ year' = year + 1
    /\ UNCHANGED household

\* The plan has ended: its last year was filed, or nobody is left.
Ended == /\ year > LastYear \/ Present(year) = {}
         /\ UNCHANGED vars

Next == \/ \E f \in Incomes, sales \in SUBSET DOMAIN Rentals : FileYear(f, sales)
        \/ Ended

Spec == Init /\ [][Next]_vars
-----------------------------------------------------------------------------
(* Properties *)

\* A capital loss is used once and keeps its character: over the years, what was taxed as gain
\* or taken off other income, and what is still carried, add up to the gains and losses there
\* were, and no more short-term (long-term) loss is carried than was ever made
\* (us/engine.py _net_capital_gains, us/state.py CapitalLossCarryover).
LossesUsedOnce ==
    /\ history.short + history.long = history.offset - carried.short - carried.long
    /\ carried.short \in 0 .. history.shortLost
    /\ carried.long \in 0 .. history.longLost

\* A rental loss is deducted once, if late: what the years deducted and what is suspended add
\* up to what the rentals made, and when the last rental is sold nothing stays suspended
\* (us/engine.py _passive_activity_result, _rental_activity_fully_disposed).
SuspendedReleased ==
    /\ history.rental = history.deducted - carried.suspended
    /\ (DOMAIN Rentals # {} /\ \A r \in DOMAIN Rentals : soldOn[r] # NotSold) => carried.suspended = 0

\* The recapture of a sale is the depreciation that was taken: over the years of the forecast
\* and the years before it, neither more nor less, whatever the date of the sale
\* (us/depreciation.py; us/engine.py _rental_depreciation and _depreciation_recapture).
RecaptureIsDepreciation ==
    \A r \in DOMAIN Rentals : soldOn[r] # NotSold =>
        history.depreciated[r] =
            AccumulatedDepreciation(Rentals[r], soldOn[r]) - AccumulatedDepreciation(Rentals[r], 2 * BaseYear)

\* The same return in base-year money, under the law of the base year.
RealTaxAt(k) ==
    LET c   == [last.c EXCEPT
                  !.health.reference = @ \div k, !.health.actual = @ \div k,
                  !.rentals = {[r EXCEPT !.basis = @ \div k] : r \in @}]
        o   == [last.opening EXCEPT !.short = @ \div k, !.long = @ \div k, !.suspended = @ \div k]
        w   == [x \in DOMAIN last.w |-> IF x \in {"opening", "closing"} THEN last.w[x]
                                         ELSE last.w[x] \div k]
    IN  Assess(BaseLaw, w, c, o).net

\* Indexing keeps up with prices and does no better: a household whose income only grows with
\* the projection never owes less, in base-year money, than it would have owed in the base
\* year, since the thresholds that are fixed in statute bite harder every year and the rest
\* grow once; up to the model's rounding, the source having fractions of a unit (us/parameters.py TaxParameters.indexed; law.py Statute.engine_for).
IndexingNeverCutsRealTax ==
    last.year # NoDate =>
        last.net >= ColaFactor(last.year) * (RealTaxAt(ColaFactor(last.year)) - Rounding)

\* Nobody claims before benefits are to be had.
ClaimedInTime ==
    \A i \in 1 .. 2 :
        LET earner == household.earners[i]
        IN  earner.pia > 0 => household.claims[i] >= earner.born + 24 * EarliestClaimAge

\* A death never lowers the survivor's own check: however much the two earned and whenever they
\* claimed, from the earliest age on, the survivor collects at least what they would have, had
\* the other lived.  The form takes earlier dates, and the schedule goes on reducing a worker's
\* own benefit below that age but not the spouse's: nothing is said of those
\* (social_security_household.py _post_death_benefit, household_benefit_breakdown).
WidowhoodNeverLowersTheCheck ==
    ClaimedInTime =>
        \A i \in Present(year) :
            LET both == [j \in 1 .. 2 |-> [Members[j] EXCEPT !.dies = NoDate]]
            IN  TotalOf(Breakdown(Members, YearStart(year))[i]) >=
                TotalOf(Breakdown(both, YearStart(year))[i])

\* How often a claimant's year of death counts as each year: half of the deaths of a year
\* count as the year before, out of 4 * Cohort.
DeathWeight(claimant, horizon, death) ==
    LET alive(y) == SurvivalProbability(horizon.start - BirthYear(claimant), y - BirthYear(claimant),
                                           claimant.sex, claimant.setback)
        died(y)  == IF y < horizon.start THEN 0 ELSE alive(y) - alive(y + 1)
    IN  died(death) + died(death + 1)

\* The claimants with a year of death each, and how often it comes to that.
Fates(earners, horizon) ==
    LET years    == horizon.start - 1 .. horizon.end
        weight(fate) == LET of(i) == DeathWeight(earners[i], horizon, fate[i])
                        IN  IF Len(earners) = 1 THEN of(1) ELSE of(1) * of(2)
        possible == {fate \in [DOMAIN earners -> years] :
                        \A i \in DOMAIN earners : DeathWeight(earners[i], horizon, fate[i]) > 0}
    IN  {[weight |-> weight(fate),
          lives  |-> [i \in DOMAIN earners |->
                        [earners[i] EXCEPT !.lifetime = fate[i] - BirthYear(earners[i])]]] : fate \in possible}

\* What the calculator shows of a strategy adds up to the forecasts behind it.  For lives that
\* end by the age it looks at, the survival-weighted value of a strategy, from three runs that
\* place a death before the horizon or nowhere, is the expected value of the single runs over
\* every pairing of deaths, each over a horizon of its own; and the parts of the drill-in add
\* up to the run they are read beside, the survivor stepping up in one year at most (said once,
\* at the start: the question does not change; ss_timing/compute.py _weighted_couple,
\* _specific_nominals, strategy_year_details).
CalculatorAddsUp ==
    year = BaseYear =>
        LET asked   == household.asked
            earners == EarnersOf(asked.claimants)
            fates   == Fates(earners, HorizonFor(earners, "actuarial"))
        IN  \A strategy \in CompareClaimingStrategies(asked.claimants, asked.assumptions, "actuarial") :
            \A shown \in {Detail(asked.claimants, strategy.ages, asked.assumptions, "actuarial")} :
            \A details \in {StrategyYearDetails(shown.earners, shown.strategy)} :
                LET paid(fate) == ComputeStrategy(fate.lives, strategy.ages, asked.assumptions, "specific")
                    partsIn(y) == SumOver(DOMAIN shown.earners, LAMBDA i : TotalOf(details[y].members[i]))
                IN  /\ strategy.effective = SumOver(fates, LAMBDA fate : fate.weight * paid(fate).effective)
                    /\ shown.strategy.raw = SumOver(DOMAIN details, partsIn)
                    /\ Cardinality({y \in DOMAIN details : details[y].transition}) <= 1
=============================================================================
