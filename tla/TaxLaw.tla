------------------------------- MODULE TaxLaw -------------------------------
(***************************************************************************)
(* The federal income tax of jurisdiction/us/engine.py, with the brackets,   *)
(* the depreciation, the distributions and the filing rules it rests on.    *)
(* Law is one record of a year's figures (parameters.py); w is the year as   *)
(* the fiscal window shows it, c the taxpayer context, and a carryover what *)
(* TaxState threads from one year to the next.  A rate is a fraction.       *)
(***************************************************************************)
EXTENDS Money, Sequences, FiniteSets

NotSold  == -1
NoHealth == [size |-> 0, reference |-> 0, actual |-> 0]

\* The seed of a taxpayer with no history: prior is Unassessed until a year was assessed.
Unassessed    == -1
NoCarryover   == [short |-> 0, long |-> 0, suspended |-> 0, prior |-> Unassessed]

\* BracketTable.tax_on: rows [from, rate], ascending.
TaxOn(rows, amount) ==
    LET top(i) == IF i = Len(rows) THEN amount ELSE Lesser(amount, rows[i + 1].from)
        upTo[i \in 0 .. Len(rows)] ==
            IF i = 0 THEN 0
            ELSE IF amount <= rows[i].from THEN upTo[i - 1]
            ELSE upTo[i - 1] + ChangeOn(rows[i].rate, top(i) - rows[i].from)
    IN  upTo[Len(rows)]

\* resolve_filing_status: the survivor files jointly through the second year after the death.
FilingStatus(filing, deathYear, year) ==
    IF deathYear # NotSold /\ filing = "joint" /\ year > deathYear + 2 THEN "single" ELSE filing

\* accumulated_depreciation: straight line, up to the basis; a date counts half years.
AccumulatedDepreciation(r, on) ==
    IF r.basis <= 0 \/ on <= r.acquired THEN 0
    ELSE Lesser(r.basis, Quantize(r.basis * (on - r.acquired), r.recovery))

\* Mutant of DepreciationIn: a sold rental goes on to the end of the year.
DepreciationToYearEnd(r, opening, closing) ==
    AccumulatedDepreciation(r, closing) - AccumulatedDepreciation(r, opening)

\* _rental_depreciation of one rental: from the prior close to the close or the sale.
DepreciationIn(r, opening, closing) ==
    LET until == IF r.sold # NotSold /\ r.sold < closing THEN r.sold ELSE closing
    IN  AccumulatedDepreciation(r, until) - AccumulatedDepreciation(r, opening)

SumOver(S, f(_)) ==
    LET sum[T \in SUBSET S] ==
            IF T = {} THEN 0 ELSE LET x == CHOOSE x \in T : TRUE IN f(x) + sum[T \ {x}]
    IN  sum[S]

\* _rental_depreciation.
RentalDepreciation(w, c) ==
    LET of(r) == DepreciationIn(r, w.opening, w.closing) IN SumOver(c.rentals, of)

\* _depreciation_recapture: of the rentals disposed of, through their sale.
Recapture(c) ==
    LET of(r) == IF r.sold = NotSold THEN 0 ELSE AccumulatedDepreciation(r, r.sold)
    IN  SumOver(c.rentals, of)

\* required_minimum_distribution: the prior year-end balance over the table's factor (in tenths).
RmdStartAge(born) == IF born <= 1950 THEN 72 ELSE IF born <= 1959 THEN 73 ELSE 75
RequiredDistribution(Law, balance, age, born) ==
    IF age < RmdStartAge(born) THEN 0
    ELSE Quantize(10 * balance, Law.lifetimeTable[Lesser(age, Law.lifetimeTop)])

\* forced_transactions, for the household's pre-tax holding and its owner.
ForcedDistribution(Law, w, owner) ==
    Greater(0, RequiredDistribution(Law, w.pretaxOpening, owner.age, owner.born) - w.pretaxWithdrawn)

\* assess_penalties: on all of a pre-tax distribution, on a Roth's earnings only.
Penalties(Law, w, owner) ==
    IF owner.age >= Law.penaltyAge THEN 0
    ELSE ChangeOn(Law.penaltyRate, Greater(0, w.distribution) + Greater(0, w.rothEarnings))

\* _roth_early_earnings.
RothEarlyEarnings(Law, w, owner) ==
    IF owner.age >= Law.penaltyAge THEN 0 ELSE Greater(0, w.rothEarnings)
-----------------------------------------------------------------------------
(* Gains *)

\* _split_rental_gain: the recapture, capped at the gain it is part of.
SplitRentalGain(gain, recapture) ==
    LET total == gain + recapture
        s1250 == Lesser(recapture, Greater(0, total))
    IN  [s1250 |-> s1250, long |-> total - s1250]

\* Mutant of NetCapitalGains: the part used against ordinary income is carried too.
NetKeepingTheOffset(Law, short, long) ==
    LET total  == short + long
        loss   == Greater(0, -total)
        offset == Lesser(Law.lossCap, loss)
        shortLoss == IF short >= 0 THEN 0 ELSE IF long < 0 THEN -short ELSE loss
    IN  [ordinary     |-> IF short <= 0 \/ total < 0 THEN 0 ELSE IF long >= 0 THEN short ELSE total,
         preferential |-> IF long <= 0 \/ total < 0 THEN 0 ELSE IF short >= 0 THEN long ELSE total,
         offset |-> offset, short |-> shortLoss, long |-> loss - shortLoss]

\* _net_capital_gains: a loss of one character takes from the gain of the other; a loss that
\* is left goes against ordinary income up to the cap, short-term first, and is carried on.
NetCapitalGains(Law, short, long) ==
    LET total     == short + long
        loss      == Greater(0, -total)
        offset    == Lesser(Law.lossCap, loss)
        shortLoss == IF short >= 0 THEN 0 ELSE IF long < 0 THEN -short ELSE loss
        fromShort == Lesser(shortLoss, offset)
    IN  [ordinary     |-> IF short <= 0 \/ total < 0 THEN 0 ELSE IF long >= 0 THEN short ELSE total,
         preferential |-> IF long <= 0 \/ total < 0 THEN 0 ELSE IF short >= 0 THEN long ELSE total,
         offset       |-> offset,
         short        |-> IF total >= 0 THEN 0 ELSE shortLoss - fromShort,
         long         |-> IF total >= 0 THEN 0 ELSE loss - shortLoss - (offset - fromShort)]
-----------------------------------------------------------------------------
(* Rentals *)

\* _passive_loss_allowance: full below the band, none above it, linear within.
PassiveAllowance(Law, magi) ==
    LET p == Law.passive IN
    IF magi <= p.start THEN p.allowance
    ELSE IF magi >= p.end THEN 0
    ELSE Quantize(p.end - magi, (p.end - p.start) \div p.allowance)

\* _rental_activity_fully_disposed.
FullyDisposed(c) == c.rentals # {} /\ \A r \in c.rentals : r.sold # NotSold

\* Mutant of Passive: the sale of the last rental does not lift the limitation.
PassiveLimited(Law, net, magi, suspended, c) ==
    LET combined == net - suspended
        allowed  == Lesser(-combined, IF c.participates THEN PassiveAllowance(Law, magi) ELSE 0)
    IN  IF combined >= 0 THEN [deductible |-> combined, suspended |-> 0]
        ELSE [deductible |-> -allowed, suspended |-> -combined - allowed]

\* _passive_activity_result.
Passive(Law, net, magi, suspended, c) ==
    LET combined == net - suspended
        allowed  == Lesser(-combined, IF c.participates THEN PassiveAllowance(Law, magi) ELSE 0)
    IN  IF combined >= 0 \/ FullyDisposed(c) THEN [deductible |-> combined, suspended |-> 0]
        ELSE [deductible |-> -allowed, suspended |-> -combined - allowed]
-----------------------------------------------------------------------------
(* Income, deductions and the stack *)

\* _taxable_social_security: the two tiers of the worksheet.
TaxableSocialSecurity(Law, status, gross, other) ==
    LET t     == Law.socialSecurity[status]
        prov  == other + Quantize(gross, 2)
        half  == Quantize(gross, 2)
        cap   == Quantize(17 * gross, 20)
    IN  IF prov <= t.base THEN 0
        ELSE IF prov <= t.additional THEN Lesser(Quantize(prov - t.base, 2), half)
        ELSE Lesser(cap, Lesser(half, Quantize(t.additional - t.base, 2))
                         + Quantize(17 * (prov - t.additional), 20))

\* _standard_deduction with _senior_phaseout_factor; the senior bonus lapses.
StandardDeduction(Law, status, c, agi) ==
    LET d       == Law.standard[status]
        seniors == Cardinality({i \in DOMAIN c.subjects : c.subjects[i].age >= 65})
        bonus   == IF c.year > Law.seniorFinalYear \/ agi >= d.end THEN 0
                   ELSE IF agi <= d.start THEN d.senior
                   ELSE Quantize(d.end - agi, (d.end - d.start) \div d.senior)
    IN  d.base + seniors * (d.age65 + bonus)

\* _itemized_deduction.
ItemizedDeduction(Law, w, agi, stateTax) ==
      Greater(0, w.medical - ChangeOn(Law.medicalFloor, agi))
    + Lesser(w.salt + stateTax, Law.saltCap)
    + w.mortgageInterest
    + Lesser(w.charitable, ChangeOn(Law.charitableLimit, agi))

\* _split_taxable_income: the deduction takes from the highest-rated gains first.
SplitTaxable(taxable, preferential, s1250, collectibles) ==
    LET ordinary == Greater(0, taxable - (preferential + s1250 + collectibles))
        pref     == Lesser(preferential, taxable - ordinary)
        recap    == Lesser(s1250, taxable - ordinary - pref)
    IN  [ordinary |-> ordinary, preferential |-> pref, s1250 |-> recap,
         collectibles |-> Lesser(collectibles, taxable - ordinary - pref - recap)]

\* _capped_gain_tax.
CappedGainTax(rows, base, gain, cap) ==
    Lesser(TaxOn(rows, base + gain) - TaxOn(rows, base), ChangeOn(cap, gain))

\* _tax_on_stack.
TaxOnStack(Law, status, s) ==
    LET rows == Law.brackets[status]
        ltcg == Law.ltcg[status]
        above == s.ordinary + s.preferential
    IN    TaxOn(rows, s.ordinary)
        + (TaxOn(ltcg, above) - TaxOn(ltcg, s.ordinary))
        + CappedGainTax(rows, above, s.s1250, Law.s1250Rate)
        + CappedGainTax(rows, above + s.s1250, s.collectibles, Law.collectiblesRate)

\* _net_investment_income_tax.
InvestmentIncomeTax(Law, status, magi, investment) ==
    ChangeOn(Law.niitRate, Lesser(investment, Greater(0, magi - Law.niit[status])))

\* _state_income_tax_charge: a flat rate on AGI less the exempt retirement income.
StateIncomeTax(Law, w, agi, taxableBenefits) ==
    ChangeOn(Law.stateRate,
             Greater(0, agi - ChangeOn(Law.stateBenefitsExempt, taxableBenefits)
                            - ChangeOn(Law.stateRetirementExempt, w.pension + w.distribution)))

\* _premium_tax_credit: the poverty ratio is taken in 64ths; above the cliff there is none.
PremiumCredit(Law, magi, health) ==
    LET aca  == Law.aca
        line == aca.firstPerson + aca.additionalPerson * (health.size - 1)
        over == (magi \div (line \div 64)) - 64 * aca.lowerRatio
        rate == [num |-> Greater(0, Lesser(aca.slope.num * over, 64 * aca.maxRate.num)),
                 den |-> 64 * aca.slope.den]
    IN  IF health = NoHealth \/ magi > aca.upperRatio * line THEN 0
        ELSE Lesser(Greater(0, health.reference - ChangeOn(rate, magi)), health.actual)

\* _employment_tax: the Social Security share is capped for each worker.
EmploymentTax(Law, status, wages) ==
    LET capped[n \in 0 .. Len(wages)] ==
            IF n = 0 THEN 0 ELSE capped[n - 1] + ChangeOn(Law.ssRate, Lesser(wages[n], Law.wageBase))
        total[n \in 0 .. Len(wages)] == IF n = 0 THEN 0 ELSE total[n - 1] + wages[n]
        all == total[Len(wages)]
    IN  capped[Len(wages)] + ChangeOn(Law.medicareRate, all)
        + ChangeOn(Law.surtaxRate, Greater(0, all - Law.surtaxFrom[status]))
-----------------------------------------------------------------------------
(* USFederalTaxEngine.assess, in its order: the gains, the income before the    *)
(* benefits, adjusted gross income, the taxable stack and the net tax.         *)

GainsOf(Law, status, w, c, opening) ==
    LET residence == Greater(0, w.residenceGain)
        rental    == SplitRentalGain(w.rentalGain, Recapture(c))
        long      == w.longGains + (residence - Lesser(Law.exclusion[status], residence))
                     + Greater(0, w.secondHomeGain) + rental.long
    IN  [long |-> long, s1250 |-> Greater(0, rental.s1250), collectibles |-> Greater(0, w.collectiblesGain),
         netted |-> NetCapitalGains(Law, w.shortGains - opening.short, long - opening.long)]

\* Income taxed at ordinary rates before the rentals, and all gains taxed at their own.
NonrentalIncome(Law, w, c, g) ==
    w.wages + w.ordinary + w.pension + w.distribution + RothEarlyEarnings(Law, w, c.owner)
        + w.interest + g.netted.ordinary - g.netted.offset - w.pretaxContributed
Preferential(w, g) == w.dividends + g.netted.preferential
TotalGains(w, g)   == Preferential(w, g) + g.s1250 + g.collectibles

\* _rental_net_income.
NetRental(w, c) == w.rent - w.rentalExpense - RentalDepreciation(w, c)

PassiveResult(Law, w, c, opening, g) ==
    Passive(Law, NetRental(w, c), NonrentalIncome(Law, w, c, g) + TotalGains(w, g),
            opening.suspended, c)

AdjustedGross(Law, status, w, c, g, passive) ==
    LET income   == NonrentalIncome(Law, w, c, g) + passive.deductible + TotalGains(w, g)
        benefits == TaxableSocialSecurity(Law, status, w.socialSecurity, income + w.exemptInterest)
    IN  [agi |-> income + benefits, benefits |-> benefits]

InvestmentIncome(w, g, passive) ==
    Greater(0, w.interest + w.dividends + passive.deductible + g.netted.ordinary
                 + g.netted.preferential - g.netted.offset + g.s1250 + g.collectibles)

TaxableStack(Law, status, w, c, g, agi, stateTax) ==
    SplitTaxable(Greater(0, agi - Greater(StandardDeduction(Law, status, c, agi),
                                          ItemizedDeduction(Law, w, agi, stateTax))),
                 Preferential(w, g), g.s1250, g.collectibles)

NetTax(Law, status, w, c, g, passive, income, stateTax) ==
      TaxOnStack(Law, status, TaxableStack(Law, status, w, c, g, income.agi, stateTax))
    + InvestmentIncomeTax(Law, status, income.agi, InvestmentIncome(w, g, passive))
    + stateTax
    - PremiumCredit(Law, income.agi + w.exemptInterest + (w.socialSecurity - income.benefits), c.health)

Assessed(w, c, g, passive, income, net) ==
    [netted |-> g.netted, passive |-> passive, agi |-> income.agi, net |-> net,
     grossShort |-> w.shortGains, grossLong |-> g.long, netRental |-> NetRental(w, c),
     closing |-> [short |-> g.netted.short, long |-> g.netted.long,
                  suspended |-> passive.suspended, prior |-> net]]

AssessIncome(Law, status, w, c, g, passive, income) ==
    Assessed(w, c, g, passive, income,
             NetTax(Law, status, w, c, g, passive, income,
                    StateIncomeTax(Law, w, income.agi, income.benefits)))

AssessRentals(Law, status, w, c, g, passive) ==
    AssessIncome(Law, status, w, c, g, passive, AdjustedGross(Law, status, w, c, g, passive))

AssessGains(Law, status, w, c, opening, g) ==
    AssessRentals(Law, status, w, c, g, PassiveResult(Law, w, c, opening, g))

Assess(Law, w, c, opening) ==
    LET status == FilingStatus(c.filing, c.deathYear, c.year)
    IN  AssessGains(Law, status, w, c, opening, GainsOf(Law, status, w, c, opening))

\* estimate_income_tax: the safe harbor of last year's tax, once there is a last year.
Estimate(net, opening) ==
    IF opening.prior = Unassessed THEN Greater(0, net) ELSE Lesser(opening.prior, Greater(0, net))
-----------------------------------------------------------------------------
(* Projection: parameters.py indexed, law.py *)

IndexedRows(rows, f) == [i \in DOMAIN rows |-> [rows[i] EXCEPT !.from = @ * f]]

IndexedDeduction(d, f) ==
    [base |-> d.base * f, age65 |-> d.age65 * f, senior |-> d.senior * f,
     start |-> d.start * f, end |-> d.end * f]
IndexedWageBase(base, f) == base * f
IndexedAca(aca, f) ==
    [aca EXCEPT !.firstPerson = @ * f, !.additionalPerson = @ * f]

\* TaxParameters.indexed: the brackets, the standard deduction, the wage base and the poverty
\* guideline grow; every other threshold, cap and exclusion is fixed in statute.
Indexed(Law, f) ==
    [Law EXCEPT
        !.brackets = [s \in DOMAIN @ |-> IndexedRows(@[s], f)],
        !.ltcg     = [s \in DOMAIN @ |-> IndexedRows(@[s], f)],
        !.standard = [s \in DOMAIN @ |-> IndexedDeduction(@[s], f)],
        !.wageBase = IndexedWageBase(@, f),
        !.aca      = IndexedAca(@, f)]
=============================================================================
