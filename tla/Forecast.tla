------------------------------- MODULE Forecast -------------------------------
(***************************************************************************)
(* forecast/forecast.py and forecast/parameters.py: the driver that walks   *)
(* the frame, one Period per interval.  What an interval is given is        *)
(* resolved from the plan and from what earlier intervals left behind: the  *)
(* balances of the loans, the flows re-windowed by the sales reported, the  *)
(* titles of the accounts, the properties the tax return still shows.       *)
(*                                                                          *)
(* The Period is seen from outside (the module Period has the inside): it   *)
(* books the terms and the lines it is given, applies the events, may sell  *)
(* a property to fund the cash floor, settles the tax of a full year, and   *)
(* may deplete.                                                             *)
(***************************************************************************)
EXTENDS Dates, Loans, Functions

CONSTANTS
    Start, End,          \* the frame; a start is the first of a month
    Granularities,       \* months per interval the forecast may run at
    Outlook,             \* EconomicOutlook: segments of rates per class
    Plans,               \* the rest of the parameters: the household; the loans owed at t0 or
                         \* originated later, the RecurringLoanOriginations; the streams, items,
                         \* moves and purchases; the PropertyData; the sales and the payoffs
    OpeningTitles        \* the owner of each account

NoRent == <<>>

\* ForecastParameters.__post_init__.
ASSUME ParametersAssumption ==
    /\ Start \in Nat /\ End \in Nat /\ Start % 2 = 0 /\ Start <= End
    /\ Granularities # {} /\ \A every \in Granularities : every \in Nat \ {0} /\ 12 % every = 0
    /\ \A p \in Plans :
           /\ Len(p.household.subjects) <= 2
           /\ \A l \in Range(p.loans) : l.originates # NoDate => l.originates >= Start
           /\ \A r \in Range(p.recurring) : r.window.start # NoDate /\ r.every >= 1
           /\ \A e \in p.schedule : e.on \in Int

\* The classes a flow may grow by, and what an EconomicOutlook says of each.
Fractions == [num : Int, den : Nat \ {0}]
Days      == Nat \cup {NoDate}
Windows   == [start : Days, end : Days]
Classes   == {"wages", "benefit", "pension", "general"}

ASSUME OutlookAssumption ==
    Outlook \in Seq([window : Windows, rate : [Classes -> Fractions], reductionYear : Int, payable : Fractions])

\* IncomeStream, IncomeItem, ExpenseItem, ExpenseStream, and the moves and purchases.
ASSUME FlowsAssumption ==
    \A p \in Plans : \A f \in DOMAIN p.flow : LET flow == p.flow[f] IN
        /\ flow.kind \in {"item", "stream", "recurring", "purchase", "event"} /\ flow.class \in Classes
        /\ flow.amounts \in Seq([amount : Int, window : Windows])
        /\ flow.cadence \in [every : Nat, on : Days, offset : Nat]
        /\ flow.window \in Windows /\ flow.anchor \in Days /\ flow.inflate \in BOOLEAN
        /\ flow.kind \in {"recurring", "purchase", "event"} => flow.amounts # <<>>
        /\ flow.kind \in {"recurring", "purchase"} => flow.cadence.every # 0

\* The loan and the purchase a replaced vehicle is expanded from have one window and one
\* interval (VehicleLoanOriginations and VehiclePurchases of Materialization).
ASSUME ReplacementsAssumption ==
    \A p \in Plans : \A r \in Range(p.recurring) :
        /\ r.window \in Windows /\ r.every \in Nat
        /\ r.vehicle \in DOMAIN p.flow
        /\ LET bought == p.flow[r.vehicle]
           IN  bought.kind = "purchase" /\ bought.window = r.window /\ bought.cadence.every = r.every

\* What a flow is to which property: a cost of owning it, one that goes on whoever lives there,
\* the rent that takes its place, or what it earns.
Roles(p, f) ==
    ({h \in DOMAIN p.property : f \in p.property[h].ownership} \X {"owning"})
        \cup ({h \in DOMAIN p.property : f \in p.property[h].invariant} \X {"carrying"})
        \cup ({h \in DOMAIN p.property : f = p.property[h].rent} \X {"renting"})
        \cup ({h \in DOMAIN p.property : p.flow[f].source = h} \X {"earning"})

\* Every flow has at most one: a cost has an account per property, and a household at most one
\* residence to rent after (_property_expense_handles, _property_data). It is an item or a
\* stream, which is all a sale ends. Only properties are sold.
ASSUME PropertiesAssumption ==
    \A p \in Plans :
        /\ NoRent \notin DOMAIN p.flow
        /\ \A e \in p.schedule : e.kind = "sale" => e.property \in DOMAIN p.property
        /\ \A f \in DOMAIN p.flow :
               /\ \A a, b \in Roles(p, f) : a = b
               /\ Roles(p, f) # {} => p.flow[f].kind \in {"item", "stream"}

VARIABLES
    plan,         \* the parameters the run was constructed with, loans expanded
    k,            \* the interval about to run
    stage,        \* "open", "compute", "close" or "stopped"
    owed,         \* the balance of each loan
    interest,     \* the interest booked on each loan so far
    settled,      \* the loans an event or a sale has settled
    window,       \* the working copies of the flows' windows
    charged,      \* occurrences and amount posted of each flow so far
    reported,     \* the sales the interval just computed reported
    sales,        \* the sales recorded (_recorded_property_sales)
    titles,       \* the owner of each account
    returns       \* the years settled and flagged, the rentals on the return of each

vars == <<plan, k, stage, owed, interest, settled, window, charged,
          reported, sales, titles, returns>>

Span == plan.spans[k]

Flow       == plan.flow
Flows      == DOMAIN Flow
Property   == plan.property
Properties == DOMAIN Property
-----------------------------------------------------------------------------
(* Growth to nominal. *)

\* parameters_at: flat where no segment covers.
FlatParameters == [rate |-> [class \in Classes |-> [num |-> 0, den |-> 1]],
                   reductionYear |-> 2032, payable |-> [num |-> 1, den |-> 1]]
ParametersAt(date) == LET n == SegmentAt(Outlook, date) IN IF n = 0 THEN FlatParameters ELSE Outlook[n]

\* _cumulative_factor: each year after the first compounds its own rate of the class.
CumulativeFactor(class, year) ==
    LET f[y \in YearOf(Start) .. year] ==
            IF y = YearOf(Start) THEN [num |-> 1, den |-> 1]
            ELSE LET rate == ParametersAt(YearStart(y)).rate[class]
                 IN  [num |-> f[y - 1].num * (rate.den + rate.num), den |-> f[y - 1].den * rate.den]
    IN  IF year <= YearOf(Start) THEN [num |-> 1, den |-> 1] ELSE f[year]

Inflated(amount, year) ==
    LET factor == CumulativeFactor("general", year) IN Quantize(amount * factor.num, factor.den)

\* _benefit_payable_factor: the funding shortfall is a step, for a Social Security stream only.
PayableFactor(class, year) ==
    LET segment == ParametersAt(YearStart(year))
    IN  IF class = "benefit" /\ year >= segment.reductionYear
        THEN segment.payable ELSE [num |-> 1, den |-> 1]
-----------------------------------------------------------------------------
(* The loans, expanded at construction. *)

\* _occurrence_dates.
OccurrenceDates(win, months, lo, hi) ==
    {date \in Occurrences(win.start, months, lo, hi) : Covers(win, date)}

InOrder(dates) == [n \in 1 .. Cardinality(dates) |->
    CHOOSE date \in dates : Cardinality({d \in dates : d <= date}) = n]

\* The occurrences a recurring loan is expanded to: through the horizon, none before t0.
CycleDates(r) == InOrder({on \in OccurrenceDates(r.window, r.every, r.window.start, End) : on >= Start})

\* _expanded_recurring_loans: a loan per cycle, its principal inflated to its year.
CycleLoans(r) ==
    LET dates == CycleDates(r) IN
    {[handle |-> <<r.handle, c>>, principal |-> Inflated(r.principal, YearOf(dates[c])),
      rate |-> r.rate, term |-> r.term, extra |-> r.extra, originates |-> dates[c]] : c \in DOMAIN dates}

\* Mutant: a cycle pays off its own loan.
RolloversOfTheNewLoan(r) ==
    {[kind |-> "payoff", on |-> CycleDates(r)[c], loan |-> <<r.handle, c>>] : c \in 2 .. Len(CycleDates(r))}

\* ... and the payoff of the cycle before it on the same date.
Rollovers(r) ==
    {[kind |-> "payoff", on |-> CycleDates(r)[c], loan |-> <<r.handle, c - 1>>] : c \in 2 .. Len(CycleDates(r))}

AllLoans(p)     == Range(p.loans) \cup UNION {CycleLoans(r) : r \in Range(p.recurring)}
AllRollovers(p) == UNION {Rollovers(r) : r \in Range(p.recurring)}

\* _create_loans: the level payment of the declared principal over the declared term.
Resolved(loan) ==
    [principal |-> loan.principal, rate |-> loan.rate, extra |-> loan.extra,
     originates |-> loan.originates, payment |-> LevelPayment(loan.principal, loan.rate, loan.term)]

\* What the driver may assume of a loan: a rate that is not negative, and so a level payment
\* that is a fraction. No two loans, cycles included, share an account.
ResolvedLoans == [principal : Nat, rate : [num : Nat, den : Nat \ {0}], extra : Nat,
                  originates : Nat \cup {NoDate}, payment : [num : Nat, den : Nat \ {0}]]

ASSUME LoansAssumption ==
    \A p \in Plans : \A l \in AllLoans(p) :
        /\ Resolved(l) \in ResolvedLoans
        /\ \A m \in AllLoans(p) : l.handle = m.handle => l = m

Handles == DOMAIN plan.loans
Loan(l) == plan.loans[l]

Amortized(l, opening, months) ==
    AmortizeMonths(opening, Loan(l).rate, Loan(l).payment, Loan(l).extra, months)

NoTerm == [balance |-> 0, interest |-> 0, principal |-> 0]

\* Mutant: the month of the borrowing pays too.
TermPayingAtOnce(l, span) ==
    LET on == Loan(l).originates IN
    IF on > span.end THEN NoTerm
    ELSE IF on < span.start THEN IF owed[l] <= 0 THEN NoTerm ELSE Amortized(l, owed[l], Months(span))
    ELSE Amortized(l, Loan(l).principal, Months(span) - MonthIndexOf(span, on))

\* _loan_liability_term: an outstanding loan amortizes its balance over the months of the
\* span; the span a loan originates in amortizes its principal over the months after.
LiabilityTerm(l, span) ==
    LET on == Loan(l).originates
        after == Months(span) - MonthIndexOf(span, on) - 1
    IN  IF on > span.end THEN NoTerm
        ELSE IF on = NoDate \/ on < span.start
             THEN IF owed[l] <= 0 THEN NoTerm ELSE Amortized(l, owed[l], Months(span))
             ELSE IF after <= 0 THEN NoTerm ELSE Amortized(l, Loan(l).principal, after)
-----------------------------------------------------------------------------
(* The lines of an interval. *)

\* Mutant: the end of the window is not looked at within the interval.
ClipToStart(span, win) ==
    [lo |-> Greater(span.start, win.start),
     hi |-> IF win.end = NoDate \/ win.end >= span.start THEN span.end ELSE win.end]

\* _clip_to_window; an empty clip has hi < lo.
Clip(span, win) ==
    [lo |-> Greater(span.start, win.start),
     hi |-> IF win.end # NoDate THEN Lesser(span.end, win.end) ELSE span.end]

\* _cadence_anchor.
CadenceAnchor(f, win) ==
    IF Flow[f].anchor # NoDate THEN Flow[f].anchor
    ELSE IF win.start # NoDate THEN win.start ELSE Start

Level(f, date) == LET n == SegmentAt(Flow[f].amounts, date) IN IF n = 0 THEN 0 ELSE Flow[f].amounts[n].amount

NoLine == [times |-> 0, amount |-> 0]

\* _expense_item_lines_for and _income_item_lines_for: occurrences x the amount in effect.
ItemLine(f, span) ==
    LET clip   == Clip(span, window[f])
        times  == IF clip.lo > clip.hi THEN 0
                  ELSE CountIn(Flow[f].cadence, clip.lo, clip.hi, CadenceAnchor(f, window[f]))
        factor == IF Flow[f].inflate THEN CumulativeFactor(Flow[f].class, YearOf(span.start))
                  ELSE [num |-> 1, den |-> 1]
    IN  IF times = 0 \/ SegmentAt(Flow[f].amounts, span.start) = 0 THEN NoLine
        ELSE [times |-> times, amount |-> Quantize(times * Level(f, span.start) * factor.num, factor.den)]

\* _income_stream_lines_for and _expense_stream_lines_for: the level in effect as the
\* interval starts, prorated to the interval (_year_fraction, here in months).
StreamLine(f, span) ==
    LET factor  == CumulativeFactor(Flow[f].class, YearOf(span.start))
        payable == PayableFactor(Flow[f].class, YearOf(span.start))
    IN  IF ~Covers(window[f], span.start) \/ SegmentAt(Flow[f].amounts, span.start) = 0 THEN NoLine
        ELSE [times  |-> Months(span),
              amount |-> Quantize(Level(f, span.start) * factor.num * payable.num * Months(span),
                                  factor.den * payable.den * 12)]

\* _recurring_realization_events_for, and _contribution_lines_for with a yearly interval.
RecurringLine(f, span) ==
    LET factor == CumulativeFactor(Flow[f].class, YearOf(span.start))
        yearly == OccurrencesPerYear(Flow[f].cadence.every)
    IN  IF ~Covers(window[f], span.start) THEN NoLine
        ELSE [times  |-> Months(span),
              amount |-> Quantize(Flow[f].amounts[1].amount * yearly.num * factor.num * Months(span),
                                  yearly.den * factor.den * 12)]

\* _recurring_holding_purchase_events_for: a lump on each of its own dates.
PurchaseLine(f, span) ==
    LET dates == OccurrenceDates(window[f], Flow[f].cadence.every, span.start, span.end)
    IN  [times  |-> Cardinality(dates),
         amount |-> Cardinality(dates) * Inflated(Flow[f].amounts[1].amount, YearOf(span.start))]

\* _events_for: a dated move of money, in the money of its date.
EventLine(f, span) ==
    IF InSpan(span, Flow[f].cadence.on) THEN [times |-> 1, amount |-> Flow[f].amounts[1].amount] ELSE NoLine

\* _income_lines_for, _expense_lines_for, _contribution_lines_for.
LineOf(f, span) == CASE Flow[f].kind = "item"      -> ItemLine(f, span)
                     [] Flow[f].kind = "stream"    -> StreamLine(f, span)
                     [] Flow[f].kind = "recurring" -> RecurringLine(f, span)
                     [] Flow[f].kind = "purchase"  -> PurchaseLine(f, span)
                     [] Flow[f].kind = "event"     -> EventLine(f, span)
-----------------------------------------------------------------------------
(* The household and the tax year. *)

Removed(subject, year) == \E n \in DOMAIN plan.household.removals :
    plan.household.removals[n].subject = subject /\ YearOf(plan.household.removals[n].on) < year

ActiveSubjects(year) ==
    {plan.household.subjects[n] : n \in {m \in DOMAIN plan.household.subjects : ~Removed(plan.household.subjects[m], year)}}

\* survivor_handle: the first other subject, {} when there is none.
Survivor(decedent) ==
    LET others == SelectSeq(plan.household.subjects, LAMBDA s : s # decedent)
    IN  IF others = <<>> THEN {} ELSE {Head(others)}

\* _retitle_removed_subjects_accounts, removal by removal in the plan's order.
Retitle(year) ==
    LET passed(n) == YearOf(plan.household.removals[n].on) < year
        decedent(n) == plan.household.removals[n].subject
        f[n \in 0 .. Len(plan.household.removals)] ==
            IF n = 0 THEN titles
            ELSE [a \in DOMAIN titles |->
                     IF passed(n) /\ f[n - 1][a] = decedent(n) /\ Survivor(decedent(n)) # {}
                     THEN CHOOSE s \in Survivor(decedent(n)) : TRUE ELSE f[n - 1][a]]
    IN  f[Len(plan.household.removals)]

\* _is_full_tax_year.
IsFullTaxYear(year) == Start <= YearStart(year) /\ End >= YearEnd(year)

\* Mutant: a rental leaves the return as soon as its sale is recorded.
OnReturnUnlessSold(year) == {p \in Properties :
    Property[p].class = "REAL_ESTATE_RENTAL" /\ ~\E s \in sales : s.property = p}

\* _tax_properties_for: every rental not sold in an earlier tax year.
OnReturn(year) == {p \in Properties :
    /\ Property[p].class = "REAL_ESTATE_RENTAL"
    /\ ~\E s \in sales : s.property = p /\ YearOf(s.on) < year}

\* Period._disposition_stamped_context: this interval's sales and the recorded ones.
Stamped(year, now) == {p \in OnReturn(year) : \E s \in sales \cup now : s.property = p}

\* _flag_partial_tax_year: at the last interval of a calendar year the frame cuts short.
FlagsPartialYear(span) ==
    LET year == YearOf(span.end) IN
    /\ span.end = YearEnd(year) \/ span.end = End
    /\ \/ year = YearOf(Start) /\ Start # YearStart(year)
       \/ year = YearOf(End) /\ End # YearEnd(year)
-----------------------------------------------------------------------------
(* The walk. *)

\* Forecast.__init__ and BaselineBuilder.build: a loan originated later is not seeded.
Init ==
    /\ \E every \in Granularities, p \in Plans :
           plan = [spans |-> SpansOf(Start, End, every), household |-> p.household,
                   schedule |-> p.schedule \cup AllRollovers(p), recurring |-> p.recurring,
                   loans |-> [handle \in {l.handle : l \in AllLoans(p)} |->
                                 Resolved(CHOOSE l \in AllLoans(p) : l.handle = handle)],
                   flow |-> p.flow, property |-> p.property]
    /\ k = 1 /\ stage = "open"
    /\ owed = [l \in Handles |-> IF Loan(l).originates = NoDate THEN Loan(l).principal ELSE 0]
    /\ interest = [l \in Handles |-> 0] /\ settled = {}
    /\ window = [f \in Flows |-> Flow[f].window]
    /\ charged = [f \in Flows |-> NoLine]
    /\ reported = {} /\ sales = {}
    /\ titles = OpeningTitles
    /\ returns = [settled |-> {}, flagged |-> {},
                  shown |-> [p \in Properties |-> {}], recaptured |-> [p \in Properties |-> {}]]

\* The top of run's loop: stop when the household is gone, else retitle for the year.
OpenInterval ==
    /\ stage = "open"
    /\ IF \/ k > Len(plan.spans)
          \/ (plan.household.subjects # <<>> /\ ActiveSubjects(YearOf(Span.end)) = {})
       THEN stage' = "stopped" /\ UNCHANGED titles
       ELSE stage' = "compute" /\ titles' = Retitle(YearOf(Span.end))
    /\ UNCHANGED <<plan, k, owed, interest, settled, window, charged, reported, sales, returns>>

\* The scheduled events of the span, rollovers included.
InSchedule(kind) ==
    {e \in plan.schedule : e.kind = kind /\ InSpan(Span, e.on)}

\* A property still held when a sale is tried; a sold one is worth nothing.
Held(p) == ~\E s \in sales : s.property = p

\* Of two sales of one property the first authored is the sale.
FirstSale(p) == CHOOSE e \in InSchedule("sale") : e.property = p
ScheduledSales ==
    {[property |-> p, on |-> FirstSale(p).on, rentAfter |-> FirstSale(p).rentAfter] :
        p \in {q \in {e.property : e \in InSchedule("sale")} : Held(q)}}

\* _auto_sell_property, dated at the start of the interval: a residence rents after.
FundingSale(p) == [property |-> p, on |-> Span.start,
                   rentAfter |-> Property[p].class = "REAL_ESTATE_RESIDENCE"]

\* The balances through the phases: the term is serviced, the originations credited, the
\* payoffs and the sold properties' mortgages read what is owed by then.
AfterOrigination(l, term) ==
    owed[l] - term.principal + (IF InSpan(Span, Loan(l).originates) THEN Loan(l).principal ELSE 0)
PaidOff(now) == {e.loan : e \in InSchedule("payoff")} \cup UNION {Property[s.property].mortgages : s \in now}

\* _build_period_parameters and Period.compute. Beyond the scheduled sales, the funding
\* waterfall may sell a property.
ComputeInterval ==
    /\ stage = "compute" /\ stage' = "close"
    /\ charged' = [f \in Flows |-> LET line == LineOf(f, Span) IN
                      [times |-> charged[f].times + line.times, amount |-> charged[f].amount + line.amount]]
    /\ \E funding \in {{}} \cup {{p} : p \in {q \in Properties : Held(q)
                                                /\ \A s \in ScheduledSales : s.property # q}} :
           reported' = ScheduledSales \cup {FundingSale(p) : p \in funding}
    /\ LET term  == [l \in Handles |-> LiabilityTerm(l, Span)]
           after == [l \in Handles |-> AfterOrigination(l, term[l])]
           paid  == PaidOff(reported')
       IN  /\ owed' = [l \in Handles |-> IF l \in paid THEN Lesser(0, after[l]) ELSE after[l]]
           /\ settled' = settled \cup {l \in Handles : l \in paid /\ after[l] > 0}
           /\ interest' = [l \in Handles |-> interest[l] + term[l].interest]
    /\ LET year == YearOf(Span.end) IN
       returns' = IF Span.end = YearEnd(year) /\ IsFullTaxYear(year)
                  THEN [returns EXCEPT !.settled = @ \cup {year},
                           !.shown = [p \in Properties |->
                               IF p \in OnReturn(year) THEN @[p] \cup {year} ELSE @[p]],
                           !.recaptured = [p \in Properties |->
                               IF p \in Stamped(year, reported') THEN @[p] \cup {year} ELSE @[p]]]
                  ELSE returns
    /\ UNCHANGED <<plan, k, window, sales, titles>>

\* _ended_at and _opened_at.
EndedAt(win, on) == [win EXCEPT !.end = on]
OpenedAt(on)     == [start |-> on, end |-> NoDate]

\* Mutants: what does not depend on the tenure ends only when the household rents on; the
\* rent never opens.
EndsWhenRenting(f, sale) ==
    LET data == Property[sale.property]
    IN  f \in data.ownership \/ (sale.rentAfter /\ f \in data.invariant) \/ Flow[f].source = sale.property
OpensNever(f, sale) == FALSE

\* The flows a sale ends, and the one it opens.
Ends(f, sale) ==
    LET data == Property[sale.property]
    IN  f \in data.ownership \/ (~sale.rentAfter /\ f \in data.invariant) \/ Flow[f].source = sale.property
Opens(f, sale) == sale.rentAfter /\ f = Property[sale.property].rent

\* _apply_property_sales.
Rewindowed(f) ==
    IF \E s \in reported : Opens(f, s) THEN OpenedAt((CHOOSE s \in reported : Opens(f, s)).on)
    ELSE IF \E s \in reported : Ends(f, s)
         THEN EndedAt(window[f], (CHOOSE s \in reported : Ends(f, s)).on) ELSE window[f]

\* The rest of run's iteration. Whether the books are depleted is the Period's.
CloseInterval ==
    /\ stage = "close"
    /\ stage' \in {"open", "stopped"}
    /\ returns' = IF FlagsPartialYear(Span) THEN [returns EXCEPT !.flagged = @ \cup {YearOf(Span.end)}]
                  ELSE returns
    /\ window' = [f \in Flows |-> Rewindowed(f)]
    /\ sales' = sales \cup reported /\ reported' = {}
    /\ k' = k + 1
    /\ UNCHANGED <<plan, owed, interest, settled, charged, titles>>

Stopped == stage = "stopped" /\ UNCHANGED vars

Next == OpenInterval \/ ComputeInterval \/ CloseInterval \/ Stopped

Spec == Init /\ [][Next]_vars
-----------------------------------------------------------------------------
(* Properties. Between two intervals the last one walked is k - 1. *)

Walked  == plan.spans[k - 1]
Between == stage = "open" /\ k > 1

\* At any granularity a loan no event has settled owes, and has paid in interest, what its
\* monthly schedule says at the end of the interval: a year is twelve monthly steps, the
\* month of the borrowing pays nothing, a loan repaid inside an interval pays no more.
AmortizesAlike ==
    Between => \A l \in Handles \ settled :
        LET on     == Loan(l).originates
            months == MonthOf(Walked.end) - (IF on = NoDate THEN MonthOf(Start) - 1 ELSE MonthOf(on))
        IN  IF on > Walked.end THEN owed[l] = 0
            ELSE LET due == Amortized(l, Loan(l).principal, months)
                 IN  owed[l] = due.balance /\ interest[l] = due.interest

\* A settled loan stays settled, whatever is originated in the same interval. Of the loans
\* a replacement schedule takes out only the latest is owed, and at most as many were
\* taken out as the vehicle was bought (RecurringLoanOrigination and
\* RecurringHoldingPurchase expand their occurrences apart).
OneCycleOwed ==
    Between =>
        /\ \A l \in settled : owed[l] = 0
        /\ \A r \in Range(plan.recurring) :
              LET dates == CycleDates(r)
                  begun == {c \in DOMAIN dates : dates[c] <= Walked.end}
              IN  /\ \A c \in begun : owed[<<r.handle, c>>] # 0 => \A d \in begun : d <= c
                  /\ charged[r.vehicle].times = Cardinality(begun)

\* An item whose window no sale moved and whose amount was set in every interval has been
\* charged once for each of its dates so far, and such a stream that always runs has been
\* charged for each month -- at any granularity.
ChargedAlike ==
    Between => \A f \in {g \in Flows : /\ window[g] = Flow[g].window
                                      /\ \A n \in 1 .. k - 1 : SegmentAt(Flow[g].amounts, plan.spans[n].start) # 0} :
        /\ Flow[f].kind = "item" =>
              charged[f].times = Cardinality({date \in Start .. Walked.end :
                  /\ Covers(window[f], date)
                  /\ IF Flow[f].cadence.every = 0 THEN date = Flow[f].cadence.on
                     ELSE LET since == AddMonths(IF Flow[f].anchor # NoDate THEN Flow[f].anchor
                                                 ELSE IF window[f].start # NoDate THEN window[f].start
                                                 ELSE Start, Flow[f].cadence.offset)
                          IN  date >= since /\ (date - since) % (2 * Flow[f].cadence.every) = 0})
        /\ Flow[f].kind = "stream" /\ window[f] = Always =>
              charged[f].times = MonthOf(Walked.end) - MonthOf(Start) + 1

\* What the two properties of a sale are about: the costs that go on, and those of a home one
\* may rent after, are charged each month, and the rent is dormant until a sale opens it.
\* A frame ends with a month (planning/frames.py).
EachMonth(flow) ==
    /\ \/ flow.kind = "stream"
       \/ flow.kind = "item" /\ flow.anchor = NoDate /\ flow.cadence.every = 1 /\ flow.cadence.offset = 0
    /\ \A date \in Start .. End : SegmentAt(flow.amounts, date) # 0

MonthlyTenures ==
    /\ End % 2 = 1
    /\ \A p \in Plans : \A data \in Range(p.property) :
           /\ \A f \in data.invariant \cup (IF data.rent = NoRent THEN {} ELSE data.ownership) :
                  f \in DOMAIN p.flow /\ EachMonth(p.flow[f]) /\ p.flow[f].window = Always
           /\ data.rent # NoRent => /\ data.rent \in DOMAIN p.flow /\ EachMonth(p.flow[data.rent])
                                    /\ p.flow[data.rent].window.start > End
-----------------------------------------------------------------------------
\* A household that rents after the sale of its residence pays, in each month, for owning
\* it or for renting: never both and never neither, whatever triggered the sale and
\* wherever in an interval it fell.
TenureCovered ==
    Between => \A p \in Properties :
        Property[p].rent # NoRent /\ (\A s \in sales : s.property = p => s.rentAfter) =>
            \A f \in Property[p].ownership :
                charged[f].times + charged[Property[p].rent].times = MonthOf(Walked.end) - MonthOf(Start) + 1

\* Once the sale of a property has been reacted to, nothing is charged or received for it,
\* and what does not depend on the tenure goes on exactly when the household rents on.
SoldPropertyCostsNoMore ==
    [][\A s \in sales, f \in Flows :
           /\ f \in Property[s.property].ownership \/ Flow[f].source = s.property
                  => charged'[f] = charged[f]
           /\ f \in Property[s.property].invariant /\ stage = "compute"
                  => (charged'[f] # charged[f] <=> s.rentAfter)]_vars

\* On the returns the walk has settled, a rental is shown each year up to the one of its
\* sale, and its recapture accrues in that year and no other -- whether the sale and the
\* settlement share an interval or not.
RecapturedOnce ==
    Between => \A p \in Properties, y \in returns.settled :
        Property[p].class = "REAL_ESTATE_RENTAL" =>
            /\ y \in returns.recaptured[p] <=> \E s \in sales : s.property = p /\ YearOf(s.on) = y
            /\ y \in returns.shown[p] <=> \A s \in sales : s.property = p => YearOf(s.on) >= y
=============================================================================
