-------------------------------- MODULE Period --------------------------------
(***************************************************************************)
(* period/period.py: a forecast walks its intervals, and each interval      *)
(* posts to the running books in a fixed order of phases -- accrue, settle  *)
(* and fund, close.  A phase is one action, or one action per iteration     *)
(* where the source loops over accounts, so that what an iteration reads is *)
(* what the iterations before it have posted.                               *)
(*                                                                          *)
(* Dates appear through what is read "through a date".  Every posting of an *)
(* interval is dated inside it, so a balance through the day before the     *)
(* interval is the books as it opened (opening), and a balance through the  *)
(* last day of the previous tax year, or a flow of this one, is relative to *)
(* the books as the tax year opened (yearOpen).                             *)
(***************************************************************************)
EXTENDS Books, Sequences

CONSTANTS
    OpeningBooks,    \* the books at t0, before the future-tax overlay
    ChartOrder,      \* Chart.holdings(): every holding and the cash hub, in chart order
    DrawPriority,    \* FundingPolicy.draw_priority
    SweepBand,       \* FundingPolicy.sweep_allocation: h -> the cumulative weight before and
                     \* through it, in parts of SweepParts (an empty band: not allocated)
    SweepParts,
    Frac,            \* the cash bounds are inflated, hence in parts 1/Frac of a money unit
    Granularities,   \* periods per year the forecast may run at (each divides 12)
    PeriodInputs,    \* the PeriodParameters the forecast may resolve for an interval
    LastPeriod,      \* bound: granularity -> periods in the frame
    LatentRate,      \* h -> future_tax_rate of its class
    TaxRate,         \* the income-tax engine, as a flat rate on the year's income
    FicaRate,        \* the employment-tax engine, as a flat rate on the year's wages
    RealtorFee,      \* property_sale_realtor_fee_rate
    FixedSaleCost,   \* property_sale_fixed_cost
    WriteOffFloor    \* _DEPRECIATION_WRITEOFF_FLOOR, in money units

Rates       == [num : Int, den : Nat \ {0}]
GrowthRates == {r \in Rates : r.num >= -r.den}     \* a holding cannot lose more than it is worth
Charges     == {r \in Rates : r.num >= 0}
NoBound     == -1              \* a cash_ceiling that is not set, or nothing allocated
Places      == Holdings \cup {Cash}
FaceValue   == {Cash} \cup {h \in Holdings : ~AccruesUnrealizedGains(h)}

\* A Transfer leaves a face-value account: moving money out of an appreciating
\* holding is scheduled as a realization (inputs/events.py TransferEvent.contribute).
Events ==
         [kind : {"transfer"}, from : FaceValue, to : Places, amount : Nat]
    \cup [kind : {"external"}, amount : Int]
    \cup [kind : {"realize"}, holding : Holdings, amount : Nat, to : Places]
    \cup [kind : {"payoff", "sale"}, holding : Holdings]
    \cup [kind : {"originate"}, holding : Holdings, principal : Nat]

\* A loan of declared > 0 originates in this interval and has months left in it to pay; one
\* that originates in its last month is an origination among the events only. Originations
\* come first among the events (Forecast._events_for).
PeriodParameters ==
    [growth : [Holdings -> GrowthRates], yield : [Places -> Charges],
     wages : Nat, income : Nat, expense : Nat,
     contributions : Seq([holding : Holdings, amount : Nat, matched : BOOLEAN]),
     loan : Holdings, declared : Nat, interest : Nat, principal : Nat, events : Seq(Events),
     forced : Seq([holding : Holdings, amount : Nat]),
     estimate : Int, penalty : Nat, credit : Nat,
     floor : Nat, ceiling : Int]

\* The parameters before the first interval: every flow and rate absent.
NoParameters ==
    [growth |-> [h \in Holdings |-> [num |-> 0, den |-> 1]],
     yield |-> [x \in Places |-> [num |-> 0, den |-> 1]],
     wages |-> 0, income |-> 0, expense |-> 0, contributions |-> <<>>,
     loan |-> CHOOSE h \in Holdings : TRUE, declared |-> 0, interest |-> 0, principal |-> 0,
     events |-> <<>>, forced |-> <<>>, estimate |-> 0, penalty |-> 0, credit |-> 0,
     floor |-> 0, ceiling |-> NoBound]

ASSUME PeriodAssumption ==
    /\ Holdings # {}
    /\ OpeningBooks \in BooksOfAccount
    /\ OpeningBooks.payable = 0 /\ OpeningBooks.futureTax = 0
    /\ ChartOrder \in Seq(Places) /\ DrawPriority \in Seq(Holdings)
    /\ SweepParts \in Nat \ {0} /\ SweepBand \in [Holdings -> [from : Nat, to : Nat]]
    /\ Frac \in Nat \ {0} /\ Granularities \subseteq {1, 2, 4, 12}
    /\ PeriodInputs \subseteq PeriodParameters
    /\ LastPeriod \in [Granularities -> Nat]
    /\ WriteOffFloor \in Nat /\ FixedSaleCost \in Nat
    /\ LatentRate \in [Holdings -> Charges]
    /\ TaxRate \in Charges /\ FicaRate \in Charges /\ RealtorFee \in Charges

\* No holding but one at face value and no loan starts below zero: the forms that take
\* them refuse it (min_value = 0). The chart names a place once. The opening books balance,
\* as the books Books.SeedOpeningBalances seeds do (PeriodProofs.SeedBalances).
ASSUME HouseholdAssumption ==
    /\ Balances(OpeningBooks)
    /\ \A h \in Holdings : /\ AccruesUnrealizedGains(h) => Market(OpeningBooks, h) >= 0
                           /\ OpeningBooks.debt[h] >= 0
    /\ \A j, k \in 1 .. Len(ChartOrder) : ChartOrder[j] = ChartOrder[k] => j = k

\* BaselineBuilder._resolve_sweep: a ceiling below the floor is rejected, and the
\* weights sum to one, so the bands tile the whole.
ASSUME SweepAssumption ==
    /\ \A p \in PeriodInputs : p.ceiling # NoBound => p.ceiling >= p.floor
    /\ \A h \in Holdings : SweepBand[h].from <= SweepBand[h].to /\ SweepBand[h].to <= SweepParts
    /\ \A part \in 1 .. SweepParts :
           Cardinality({h \in Holdings : SweepBand[h].from < part /\ part <= SweepBand[h].to}) = 1

\* The event that books what the loan of p borrows.
Borrowing(p) == [kind |-> "originate", holding |-> p.loan, principal |-> p.declared]

\* _loan_origination_events_for: what a loan declares is borrowed in the interval it originates in.
ASSUME OriginationAssumption ==
    \A p \in PeriodInputs : p.declared > 0 => \E k \in 1 .. Len(p.events) : p.events[k] = Borrowing(p)

VARIABLES
    books,       \* the running BooksOfAccount
    phase,       \* the step of Period.compute about to run
    i,           \* the iteration of that step, where it loops
    params,      \* this interval's PeriodParameters
    opening,     \* the books through the day before the interval
    yearOpen,    \* the books through the last day of the previous tax year
    basis,       \* _apply_distributions: the yield basis per place, doubled
    target,      \* reestimate_future_taxes: the sum so far
    prepaid,     \* estimated income tax prepaid since the tax year opened
    assessed,    \* the income the last assessment saw
    sold,        \* the properties reported sold so far (property_sales)
    clock        \* granularity, periods computed, position in the tax year

vars == <<books, phase, i, params, opening, yearOpen, basis, target, prepaid,
          assessed, sold, clock>>
-----------------------------------------------------------------------------
(* The order of the phases. *)

PhaseOrder ==
    [growth |-> "income", income |-> "withhold", withhold |-> "contributions",
     contributions |-> "liabilities", liabilities |-> "expenses", expenses |-> "events",
     events |-> "distributions", distributions |-> "yield", yield |-> "payPrior",
     payPrior |-> "forced", forced |-> "prepay", prepay |-> "fund", fund |-> "penalties",
     penalties |-> "settle", settle |-> "sweep", sweep |-> "reestimate",
     reestimate |-> "close"]

\* Mutant: the year assessed before the waterfall has drawn.
SettleBeforeFunding == [PhaseOrder EXCEPT !.prepay = "penalties", !.settle = "fund", !.fund = "sweep"]
NextPhase == PhaseOrder

Phases == DOMAIN NextPhase \cup {"open", "close", "stopped"}

\* The phase p runs its only step, or step i of a loop of n.
Step(p)       == phase = p /\ phase' = NextPhase[p] /\ i' = 1
Iterate(p, n) == /\ phase = p
                 /\ IF i < n THEN phase' = p /\ i' = i + 1
                             ELSE phase' = NextPhase[p] /\ i' = 1

KeepInterval == UNCHANGED <<params, opening, yearOpen, clock>>
KeepTallies  == UNCHANGED <<basis, target, prepaid, assessed, sold>>
Quiet        == KeepInterval /\ KeepTallies

YearIncome(b, y) == (b.wages + b.income) - (y.wages + y.income)
ClosesTaxYear    == clock.sub = clock.perYear

\* The interval that holds a date of the given month (day included) of the tax year.
SubHolding(month) == (month * clock.perYear + 11) \div 12
PaymentSub        == SubHolding(4)                     \* April 15
QuarterEnds       == {q \in 1 .. 4 : SubHolding(3 * q) = clock.sub}
-----------------------------------------------------------------------------
(* Forecast.run: the books at t0, and the walk over the frame. *)

\* sub is the interval before the frame: perYear when the frame starts a tax year.
Init ==
    /\ books = OpeningBooks /\ opening = OpeningBooks /\ yearOpen = OpeningBooks
    /\ phase = "reestimate" /\ i = 1              \* _seed_future_tax_overlay
    /\ params = NoParameters
    /\ basis = [x \in Places |-> 0]
    /\ target = 0 /\ prepaid = 0 /\ assessed = 0 /\ sold = {}
    /\ \E n \in Granularities : \E s \in 1 .. n :
           clock = [perYear |-> n, t |-> 0, sub |-> s, fullYear |-> FALSE]

\* _build_period_parameters. A tax year is full when the frame holds all of it; nothing is
\* owed on a loan before it originates.
OpenPeriod ==
    /\ phase = "open" /\ clock.t < LastPeriod[clock.perYear]
    /\ \E p \in PeriodInputs : /\ p.declared > 0 => books.debt[p.loan] = 0
                              /\ params' = p
    /\ opening' = books
    /\ IF ClosesTaxYear
       THEN /\ yearOpen' = books /\ prepaid' = 0
            /\ clock' = [clock EXCEPT !.t = @ + 1, !.sub = 1,
                 !.fullYear = clock.t + clock.perYear <= LastPeriod[clock.perYear]]
       ELSE /\ UNCHANGED <<yearOpen, prepaid>>
            /\ clock' = [clock EXCEPT !.t = @ + 1, !.sub = @ + 1]
    /\ phase' = "growth" /\ i' = 1
    /\ UNCHANGED <<books, basis, target, assessed, sold>>
-----------------------------------------------------------------------------
(* Accrue. *)

Appreciation(h) ==
    LET value == Market(opening, h)
    IN  IF Class[h] = "DEPRECIATING" /\ 0 < value /\ value < WriteOffFloor
        THEN -value ELSE ChangeOn(params.growth[h], value)

Grow(b, h) == [b EXCEPT !.val[h] = @ + Appreciation(h), !.unrealized = @ + Appreciation(h)]

ApplyGrowth ==
    /\ Iterate("growth", Len(ChartOrder)) /\ Quiet
    /\ books' = IF /\ i <= Len(ChartOrder)
                   /\ ChartOrder[i] # Cash
                   /\ AccruesUnrealizedGains(ChartOrder[i])
                THEN Grow(books, ChartOrder[i]) ELSE books

RecognizeIncome ==
    /\ Step("income") /\ Quiet
    /\ books' = [books EXCEPT !.cash = @ + params.wages + params.income,
                              !.wages = @ + params.wages, !.income = @ + params.income]

\* Mutant: each interval's own wages, rounded on their own.
WithholdingByInterval == ChangeOn(FicaRate, params.wages)

\* The year-to-date employment tax, less what this tax year has withheld of it.
Withholding == ChangeOn(FicaRate, books.wages - yearOpen.wages) - (books.fica - yearOpen.fica)

WithholdEmploymentTax ==
    /\ Step("withhold") /\ Quiet
    /\ books' = [books EXCEPT !.fica = @ + Withholding, !.cash = @ - Withholding]

\* A contribution builds a pre-tax holding's valuation, any other's cost; the
\* match comes from outside, the rest from cash. The annual limit is not here.
Contribute(b, line) ==
    LET funded == IF line.matched THEN [b EXCEPT !.external = @ + line.amount]
                                  ELSE [b EXCEPT !.cash = @ - line.amount]
    IN  IF Class[line.holding] = "PRETAX_RETIREMENT"
        THEN [funded EXCEPT !.val[line.holding] = @ + line.amount]
        ELSE [funded EXCEPT !.cost[line.holding] = @ + line.amount]

ApplyContributions ==
    /\ Iterate("contributions", Len(params.contributions)) /\ Quiet
    /\ books' = IF i <= Len(params.contributions)
                THEN Contribute(books, params.contributions[i]) ELSE books

\* What _loan_liability_term amortizes from: the declared principal of a loan that originates
\* in this interval, although its origination is not booked yet, else the balance before it.
Amortized == IF params.declared > 0 THEN params.declared ELSE opening.debt[params.loan]

\* The payment _amortize_months resolves: the principal is clamped to what is amortized, and
\* a retired loan has no term.
ServiceLiabilities ==
    LET owed      == Amortized
        principal == IF owed > 0 THEN Lesser(params.principal, owed) ELSE 0
        interest  == IF owed > 0 THEN params.interest ELSE 0
    IN  /\ Step("liabilities") /\ Quiet
        /\ books' = [books EXCEPT !.debt[params.loan] = @ - principal,
                                  !.expense = @ + interest,
                                  !.cash = @ - principal - interest]

ApplyExpenses ==
    /\ Step("expenses") /\ Quiet
    /\ books' = [books EXCEPT !.expense = @ + params.expense, !.cash = @ - params.expense]

\* _book_property_sale_costs: a cost of sale, against the realized gain.
SaleCosts(price) == ChangeOn(RealtorFee, price) + FixedSaleCost
BookSaleCosts(b, price) == [b EXCEPT !.income = @ - SaleCosts(price), !.cash = @ - SaleCosts(price)]

\* _sell_property_whole: realize all of it, its closing costs, the loans it secures.
SellProperty(b, h) ==
    IF Market(b, h) <= 0 THEN b
    ELSE LoanPayoff(BookSaleCosts(RealizeWhole(b, h, Cash), Market(b, h)), h)

ReportSale(b, h) == IF Market(b, h) > 0 THEN sold \cup {h} ELSE sold

ApplyEvent(b, e) ==
    CASE e.kind = "transfer"  -> Transfer(b, e.from, e.to, e.amount)
      [] e.kind = "external"  -> External(b, e.amount)
      [] e.kind = "realize"   -> Realize(b, e.holding, e.amount, e.to)
      [] e.kind = "payoff"    -> LoanPayoff(b, e.holding)
      [] e.kind = "originate" -> LoanOrigination(b, e.holding, e.principal)
      [] e.kind = "sale"      -> SellProperty(b, e.holding)

ApplyEvents ==
    /\ Iterate("events", Len(params.events))
    /\ IF i <= Len(params.events)
       THEN /\ books' = ApplyEvent(books, params.events[i])
            /\ sold' = IF params.events[i].kind = "sale"
                       THEN ReportSale(books, params.events[i].holding) ELSE sold
       ELSE UNCHANGED <<books, sold>>
    /\ KeepInterval /\ UNCHANGED <<basis, target, prepaid, assessed>>

\* Mutant: an overdrawn half cancels what the other half earned.
YieldBasisUnfloored(x) ==
    IF x = Cash \/ Distributes(x) THEN MarketOf(opening, x) + MarketOf(books, x) ELSE 0

\* The mean of the opening and the closing balance (here their sum), each floored
\* at zero, taken for every distributing account before any yield is credited.
YieldBasis(x) ==
    IF x = Cash \/ Distributes(x)
    THEN Greater(0, MarketOf(opening, x)) + Greater(0, MarketOf(books, x)) ELSE 0

SnapshotYieldBasis ==
    /\ Step("distributions") /\ KeepInterval
    /\ basis' = [x \in Places |-> YieldBasis(x)]
    /\ UNCHANGED <<books, target, prepaid, assessed, sold>>

Distribution(x) == Quantize(params.yield[x].num * basis[x], 2 * params.yield[x].den)

ApplyDistributions ==
    /\ Iterate("yield", Len(ChartOrder)) /\ Quiet
    /\ books' = IF i <= Len(ChartOrder)
                THEN [books EXCEPT !.cash = @ + Distribution(ChartOrder[i]),
                                   !.income = @ + Distribution(ChartOrder[i])]
                ELSE books
-----------------------------------------------------------------------------
(* Settle and fund. *)

\* Mutant: the running balance, this year's prepayments included.
RunningPayable == books.payable

\* The payable as of the prior tax year's end, not the running one.
PriorPayable == yearOpen.payable

PayPriorTaxPayable ==
    /\ Step("payPrior") /\ Quiet
    /\ books' = IF clock.sub = PaymentSub
                THEN [books EXCEPT !.payable = @ - PriorPayable, !.cash = @ - PriorPayable]
                ELSE books

\* The minimum distributions the tax law forces at the close of a tax year.
CheckForcedTransactions ==
    /\ Iterate("forced", Len(params.forced)) /\ Quiet
    /\ books' = IF i <= Len(params.forced) /\ ClosesTaxYear
                THEN Realize(books, params.forced[i].holding, params.forced[i].amount, Cash)
                ELSE books

\* What quarter q adds, to bring the year's prepayment to q/4 of the estimate.
EstimateIncrement(q) == Quantize(params.estimate * q - 4 * prepaid, 4)

PrepayIncomeTaxEstimate ==
    /\ Iterate("prepay", 4) /\ KeepInterval
    /\ IF clock.fullYear /\ i \in QuarterEnds /\ params.estimate > 0
       THEN /\ books' = [books EXCEPT !.payable = @ - EstimateIncrement(i),
                                      !.cash = @ - EstimateIncrement(i)]
            /\ prepaid' = prepaid + EstimateIncrement(i)
       ELSE UNCHANGED <<books, prepaid>>
    /\ UNCHANGED <<basis, target, assessed, sold>>

\* How far cash is below the floor, in parts 1/Frac.
Shortfall(b) == params.floor - Frac * b.cash

\* One source of the waterfall. A divisible one gives what the shortfall needs,
\* rounded up, a property or a possession is sold whole, any other is passed by.
DrawFrom(b, h) ==
    IF Shortfall(b) <= 0 THEN b
    ELSE CASE SupportsPartialDraw(h) -> Realize(b, h, RoundUp(Shortfall(b), Frac), Cash)
           [] AutoSaleProperty(h)    -> SellProperty(b, h)
           [] AutoSalePossession(h)  -> RealizeWhole(b, h, Cash)
           [] OTHER                  -> b

FundToTarget ==
    /\ Iterate("fund", Len(DrawPriority)) /\ KeepInterval
    /\ IF i <= Len(DrawPriority)
       THEN /\ books' = DrawFrom(books, DrawPriority[i])
            /\ sold' = IF Shortfall(books) > 0 /\ AutoSaleProperty(DrawPriority[i])
                       THEN ReportSale(books, DrawPriority[i]) ELSE sold
       ELSE UNCHANGED <<books, sold>>
    /\ UNCHANGED <<basis, target, prepaid, assessed>>

\* _accrue_tax_charge: owed, not yet paid; a negative amount is a refundable credit.
Accrue(b, amount) == [b EXCEPT !.taxes = @ + amount, !.payable = @ + amount]

AssessPenalties ==
    /\ Step("penalties") /\ Quiet
    /\ books' = IF ClosesTaxYear THEN Accrue(books, params.penalty) ELSE books

\* The year's income tax less its credits, assessed on a full tax year only.
SettleTax ==
    /\ Step("settle") /\ KeepInterval
    /\ IF ClosesTaxYear /\ clock.fullYear
       THEN /\ assessed' = YearIncome(books, yearOpen)
            /\ books' = Accrue(books, Greater(0, ChangeOn(TaxRate, assessed')) - params.credit)
       ELSE UNCHANGED <<books, assessed>>
    /\ UNCHANGED <<basis, target, prepaid, sold>>

Surplus == IF params.ceiling = NoBound THEN 0
           ELSE Greater(0, Quantize(Frac * books.cash - params.ceiling, Frac))

\* Mutant: every portion rounded on its own.
PortionOnItsOwn(h, surplus) ==
    Quantize(surplus * (SweepBand[h].to - SweepBand[h].from), SweepParts)

\* A holding's portion is the rise of the running rounded target over its band.
SweepPortion(h, surplus) == Quantize(surplus * SweepBand[h].to, SweepParts)
                            - Quantize(surplus * SweepBand[h].from, SweepParts)

SweepToCeiling ==
    /\ Step("sweep") /\ Quiet
    /\ books' = [books EXCEPT !.cash = @ - Surplus,
                     !.cost = [h \in Holdings |-> @[h] + SweepPortion(h, Surplus)]]

\* estimated_future_tax: on the market value above cost, a loss giving no credit.
LatentTax(b, h) == ChangeOn(LatentRate[h], Greater(0, Market(b, h) - b.cost[h]))

Tally == IF i <= Len(ChartOrder) /\ ChartOrder[i] # Cash
         THEN target + LatentTax(books, ChartOrder[i]) ELSE target

\* reestimate_future_taxes: sum over the holdings, then book the difference.
ReestimateFutureTaxes ==
    /\ phase = "reestimate" /\ KeepInterval
    /\ IF i < Len(ChartOrder)
       THEN /\ target' = Tally /\ i' = i + 1 /\ UNCHANGED <<books, phase>>
       ELSE /\ target' = 0 /\ i' = 1
            /\ books' = [books EXCEPT !.futureTax = Tally,
                                      !.reserve = @ - (Tally - books.futureTax)]
            /\ phase' = IF clock.t = 0 THEN "open" ELSE NextPhase["reestimate"]
    /\ UNCHANGED <<basis, prepaid, assessed, sold>>
-----------------------------------------------------------------------------
(* Close. *)

Depleted(b) == b.cash < 0

\* Period._close and the rest of Forecast.run's iteration.
Close ==
    /\ phase = "close" /\ Quiet
    /\ phase' = IF Depleted(books) \/ clock.t = LastPeriod[clock.perYear] THEN "stopped" ELSE "open"
    /\ UNCHANGED <<books, i>>

Stopped == phase = "stopped" /\ UNCHANGED vars       \* the forecast has returned

Compute ==
    \/ ApplyGrowth \/ RecognizeIncome \/ WithholdEmploymentTax \/ ApplyContributions
    \/ ServiceLiabilities \/ ApplyExpenses \/ ApplyEvents
    \/ SnapshotYieldBasis \/ ApplyDistributions
    \/ PayPriorTaxPayable \/ CheckForcedTransactions \/ PrepayIncomeTaxEstimate
    \/ FundToTarget \/ AssessPenalties \/ SettleTax \/ SweepToCeiling
    \/ ReestimateFutureTaxes \/ Close

Next == OpenPeriod \/ Compute \/ Stopped

Spec == Init /\ [][Next]_vars /\ WF_vars(OpenPeriod \/ Compute)
-----------------------------------------------------------------------------
(* Properties. *)

\* The books keep their shape and the walk its bounds.
TypeOK ==
    /\ books \in BooksOfAccount /\ opening \in BooksOfAccount /\ yearOpen \in BooksOfAccount
    /\ phase \in Phases /\ i \in Nat \ {0}
    /\ params \in PeriodInputs \cup {NoParameters}
    /\ basis \in [Places -> Nat]
    /\ target \in Int /\ prepaid \in Int /\ assessed \in Int
    /\ sold \in SUBSET Holdings
    /\ clock \in [perYear : Granularities, t : Nat, sub : 1 .. 12, fullYear : BOOLEAN]
    /\ clock.sub <= clock.perYear /\ clock.t <= LastPeriod[clock.perYear]

\* Double entry: the signed entries of the whole books sum to zero after every
\* step (Bookkeeper.assert_balanced), rounding of shares, gains and fees included.
BooksBalance == Balances(books) /\ Balances(opening) /\ Balances(yearOpen)

Handled(h)      == SupportsPartialDraw(h) \/ AutoSaleProperty(h) \/ AutoSalePossession(h)
Exhausted(b, h) == Handled(h) => Market(b, h) <= 0
AllExhausted(b) == \A j \in 1 .. Len(DrawPriority) : Exhausted(b, DrawPriority[j])

Funded   == {"penalties", "settle", "sweep"}
Swept    == {"reestimate", "close", "open", "stopped"}

\* Once the waterfall has run, cash is at the floor or every source it can sell
\* is worthless -- the year-end tax and the sweep included, which may only round
\* cash half a money unit below the floor -- so a forecast that stops as depleted
\* had nothing left to sell. A property sale may lower cash (an underwater loan,
\* fees), and no source is visited twice.
FundedOrExhausted ==
    /\ phase \in Funded => Shortfall(books) <= 0 \/ AllExhausted(books)
    /\ phase \in Swept /\ clock.t > 0 => 2 * Shortfall(books) <= Frac \/ AllExhausted(books)

\* A prior year's payable has left the books once the payment date has passed.
PriorSettled == \/ clock.sub > PaymentSub
                \/ /\ clock.sub = PaymentSub
                   /\ phase \notin {"growth", "income", "withhold", "contributions", "liabilities",
                                    "expenses", "events", "distributions", "yield", "payPrior"}

\* Taxes Payable never mixes two years: it is what this tax year has charged, less
\* what it has prepaid, and until the payment date the whole of last year's; a
\* prepayment made before that date is not swept into last year's settlement.
PayableIsThisYearsAccrual ==
    books.payable = (books.taxes - yearOpen.taxes) - prepaid
                    + (IF PriorSettled THEN 0 ELSE yearOpen.payable)

\* At the close of a full tax year, every income the year's books show -- forced
\* distributions and the gains of funding draws included -- was assessed.
NoIncomeLeftUntaxed ==
    phase \in {"close", "open", "stopped"} /\ clock.t > 0 /\ ClosesTaxYear /\ clock.fullYear
        => assessed = YearIncome(books, yearOpen)

\* The employment tax withheld so far is the tax on the year-to-date wages, so the
\* year's total does not depend on the granularity it was withheld at.
WithholdingFollowsTheYear ==
    phase \in DOMAIN NextPhase \ {"growth", "income", "withhold"}
        => books.fica - yearOpen.fica = ChangeOn(FicaRate, books.wages - yearOpen.wages)

\* What this interval has charged for and is still to borrow: the first payments of a loan are
\* posted before its origination is.
ToBorrow(h) ==
    IF /\ phase \in {"expenses", "events"} /\ h = params.loan
       /\ \E k \in 1 .. Len(params.events) : /\ phase = "events" => i <= k
                                            /\ params.events[k] = Borrowing(params)
    THEN params.declared ELSE 0

\* No draw, forced distribution or sale takes an appreciating holding below zero, and a loan
\* is never paid past its balance -- which, until the interval it originates in has booked
\* the origination, is what it is about to borrow (_service_liabilities, _apply_events).
NeverOversold ==
    \A h \in Holdings : /\ AccruesUnrealizedGains(h) => Market(books, h) >= 0
                        /\ books.debt[h] + ToBorrow(h) >= 0
=============================================================================
