---------------------------- MODULE Materialization ----------------------------
(***************************************************************************)
(* planning/materialization.py, with what inputs/events.py and the vehicle  *)
(* plan contribute: the facts of a household and the choices of one         *)
(* scenario, translated into the parameters the engine walks.  A handle is  *)
(* a sequence of words, and what is derived from another begins with it.    *)
(* Interest and tax classes are left out, and so are the opening values.    *)
(***************************************************************************)
EXTENDS Dates, Loans, SequencesExt

CONSTANTS
    Facts,                 \* the Profile
    Intents,               \* the Plans
    FrameStart, FrameEnd,  \* the ForecastFrame
    CardRate,              \* BUILTIN_ASSUMPTIONS.credit_card_apr, by the month
    AutoRate, AutoTerm     \* ... auto_loan_apr and auto_loan_term

Blank    == -1             \* an amount, an age or an interval that is not set
NoHandle == <<>>

\* The dates of a plan are firsts of months, so that the day before one is in the month before.
ASSUME MaterializationAssumption ==
    /\ FrameStart % 2 = 0
    /\ \A n \in DOMAIN Facts.subjects : Facts.subjects[n].born % 2 = 0
    /\ \A n \in DOMAIN Intents.dispositions : Intents.dispositions[n].on % 2 = 0
    /\ \A n \in DOMAIN Intents.leases : Intents.leases[n].end % 2 = 0

DayBefore(date) == date - 1
Spanning(from, until) == [start |-> from, end |-> until]
Monthly      == [every |-> 1, on |-> NoDate, offset |-> 0]
Every(n)     == [Monthly EXCEPT !.every = n]
OneTime(on)  == [Monthly EXCEPT !.every = 0, !.on = on]
Constant(amount) == <<[amount |-> amount, window |-> Always]>>

\* An ExpenseItem; the other kinds of flow differ from it in a field or two.
Item(amount, cadence, win) ==
    [kind |-> "item", class |-> "general", amounts |-> Constant(amount), cadence |-> cadence,
     window |-> win, anchor |-> NoDate, inflate |-> TRUE, source |-> NoHandle]

\* A ScheduledEvent that moves money: dated, in the money of its date.
Dated(amount, on) == [Item(amount, OneTime(on), Always) EXCEPT !.kind = "event", !.inflate = FALSE]

\* An amount per occurrence as a yearly level.
Annualized(amounts, every) ==
    [n \in DOMAIN amounts |-> [amounts[n] EXCEPT !.amount =
        LET yearly == OccurrencesPerYear(every) IN Quantize(@ * yearly.num, yearly.den)]]

\* A SMOOTH expense enters as a stream, a DISCRETE one as an item at its cadence.
Realized(smooth, amounts, every, win) ==
    LET item == [Item(0, Every(every), win) EXCEPT !.amounts = amounts]
    IN  IF smooth THEN [item EXCEPT !.kind = "stream", !.amounts = Annualized(amounts, every)] ELSE item

Flowing(name, flow) == [name |-> name, flow |-> flow]
-----------------------------------------------------------------------------
(* People. *)

AtYear(born, age) == AddMonths(born, 12 * age)

BornOf(subject) == (CHOOSE s \in Range(Facts.subjects) : s.handle = subject).born

Assets == Range(Facts.assets)
Holdings(class) == {a.handle : a \in {b \in Assets : b.class = class}}

\* _owner_birthdates: NoDate for an account that is not a person's.
OwnerBorn(account) ==
    LET owned == {a \in Assets : a.handle = account /\ a.owner # NoHandle}
    IN  IF owned = {} THEN NoDate ELSE BornOf((CHOOSE a \in owned : TRUE).owner)

\* _age_window: from the first day of the year of one age to the last of that of the other.
AgeWindow(from, until, born) ==
    [start |-> IF born = NoDate \/ from = Blank THEN NoDate ELSE YearStart(YearOf(born) + from),
     end   |-> IF born = NoDate \/ until = Blank THEN NoDate ELSE YearEnd(YearOf(born) + until)]

\* _subjects and _lifetime_removals.
HouseholdOf(timing) ==
    [subjects |-> [n \in DOMAIN Facts.subjects |-> Facts.subjects[n].handle],
     removals |-> LET mortal == SelectSeq(timing, LAMBDA t : t.lifetime # NoDate)
                  IN  [n \in DOMAIN mortal |-> [subject |-> mortal[n].subject, on |-> mortal[n].lifetime]]]
-----------------------------------------------------------------------------
(* Debts. *)

DebtsOf(kinds) == {d \in Range(Facts.debts) : d.kind \in kinds}
IsAmortizing(d) == d.kind # "CREDIT_CARD"
Repaid(d) == IsAmortizing(d) /\ d.handle \in DOMAIN Intents.repayments

VehicleLoan(vehicle) == <<"vehicle-loan">> \o vehicle

\* _loan_account_handle; the second part is the cycle of a loan that is taken out again.
LoanAccount(d) == IF d.kind = "AUTO" /\ d.secured # NoHandle THEN <<VehicleLoan(d.secured), 0>> ELSE <<d.handle, 0>>

ExtraOn(d) == IF d.handle \in DOMAIN Intents.prepayments
              THEN Quantize(Intents.prepayments[d.handle], 12) ELSE 0

\* _loan.
LoanOf(d, account) ==
    [handle |-> account, principal |-> d.balance, rate |-> Intents.repayments[d.handle].rate,
     term |-> Intents.repayments[d.handle].term, extra |-> ExtraOn(d), originates |-> NoDate]

\* _loans and _current_vehicle_loans.
PlainLoans == {LoanOf(d, <<d.handle, 0>>) : d \in {e \in DebtsOf({"MORTGAGE", "LOAN"}) : Repaid(e)}}
CurrentVehicleLoans ==
    {LoanOf(d, <<VehicleLoan(d.secured), 0>>) :
         d \in {e \in DebtsOf({"AUTO"}) : Repaid(e) /\ e.secured # NoHandle}}
-----------------------------------------------------------------------------
(* Credit cards: never a loan on the books, an expense and perhaps a lump.   *)

MonthsTo(date) == MonthOf(date) - MonthOf(FrameStart)
MonthsFromNow(months) == AddMonths(FrameStart, months)

Whole(amount) == [num |-> amount, den |-> 1]
Interest(d) == [num |-> d.balance * CardRate.num, den |-> CardRate.den]

CardItem(payment, until) ==
    {Flowing("card", Item(Quantize(payment.num, payment.den), Monthly, Spanning(NoDate, until)))}
CardLump(amount, on) == IF amount > 0 THEN {Flowing("card-payoff", Dated(amount, on))} ELSE {}

CardCap == 1000   \* bound: periods_to_repay steps without one, to the period that clears

PaysOffIn(d, payment) == PeriodsToRepay(d.balance, CardRate, payment, CardCap)

\* Mutant of PayMonthly: the payments do not stop when the card is clear.
PayForever(d, plan) == CardItem(Whole(plan.monthly), NoDate)

\* MONTHLY: until it clears, or for good when the payment does not clear it.
PayMonthly(d, plan) ==
    LET periods == PaysOffIn(d, Whole(plan.monthly))
    IN  CardItem(Whole(plan.monthly), IF periods = 0 THEN NoDate ELSE MonthsFromNow(periods))

\* BY_DATE: the level payment; nothing at all for a date that is not ahead.
ByDatePayment(d, plan) == LevelPayment(d.balance, CardRate, MonthsTo(plan.target))
PayByDate(d, plan) ==
    IF MonthsTo(plan.target) > 0 THEN CardItem(ByDatePayment(d, plan), plan.target) ELSE {}

\* _resolve_combo: monthly until the date, and what is left then in a lump.
PayCombo(d, plan) ==
    LET months  == MonthsTo(plan.target)
        cleared == PaysOffIn(d, Whole(plan.monthly))
    IN  IF months <= 0 THEN {}
        ELSE IF cleared # 0 /\ cleared <= months THEN CardItem(Whole(plan.monthly), MonthsFromNow(cleared))
        ELSE CardItem(Whole(plan.monthly), plan.target)
             \cup CardLump(BalanceAfter(d.balance, CardRate, Whole(plan.monthly), months), plan.target)

\* Interest alone, for good, or until the date the whole balance is paid on.
CarryCard(d, until) == IF Interest(d).num > 0 THEN CardItem(Interest(d), until) ELSE {}
PayLump(d, plan) == CarryCard(d, plan.target) \cup CardLump(d.balance, plan.target)

CardPlan(d) == Intents.cards[d.handle]

\* _resolve_card.
ResolveCard(d) ==
    IF d.handle \notin DOMAIN Intents.cards THEN CarryCard(d, NoDate)
    ELSE CASE CardPlan(d).mode = "MONTHLY" -> PayMonthly(d, CardPlan(d))
           [] CardPlan(d).mode = "BY_DATE" -> PayByDate(d, CardPlan(d))
           [] CardPlan(d).mode = "COMBO"   -> PayCombo(d, CardPlan(d))
           [] CardPlan(d).mode = "LUMP"    -> PayLump(d, CardPlan(d))

\* _credit_card_expenses.
Cards == {d \in DebtsOf({"CREDIT_CARD"}) : d.balance > 0}
CardFlows == UNION {{Flowing(<<f.name>> \o d.handle, f.flow) : f \in ResolveCard(d)} : d \in Cards}
-----------------------------------------------------------------------------
(* Vehicles. *)

\* Vehicle.has_structural_terms and is_materializable.
HasStructuralTerms(v) ==
    v.every # Blank /\ IF v.method = "LEASE" THEN v.monthly # Blank ELSE v.price # Blank
IsMaterializable(v) == v.from # NoDate /\ HasStructuralTerms(v)

\* VehicleDisposition.is_complete and LeasedVehicleDisposition.successor_ready.
IsComplete(x) ==
    \/ x.kind = "KEEP"
    \/ x.on # NoDate /\ (x.kind = "REPLACE" => HasStructuralTerms(x.replacement))
SuccessorReady(x) == x.kind # "RETURN" /\ x.end # NoDate /\ HasStructuralTerms(x.successor)

\* _replacement_vehicle and _leased_successor.
ReplacementOf(x) == [x.replacement EXCEPT !.handle = x.vehicle \o <<"replacement">>, !.from = x.on]
SuccessorOf(x)   == [x.successor EXCEPT !.handle = x.vehicle \o <<"successor">>, !.from = x.end]

Dispositions == Range(Intents.dispositions)
Leases       == Range(Intents.leases)

\* _plan_vehicles, of which only the materializable ever contribute.
PlanVehicles ==
    {v \in Range(Intents.vehicles)
           \cup {ReplacementOf(x) : x \in {y \in Dispositions : y.kind = "REPLACE" /\ IsComplete(y)}}
           \cup {SuccessorOf(x) : x \in {y \in Leases : SuccessorReady(y)}} : IsMaterializable(v)}

Owned(v) == v.method \in {"CASH", "LOAN"}

\* _vehicle_financed_principal and _is_financed.
FinancedPrincipal(v) ==
    IF v.down # Blank THEN Greater(v.price - v.down, 0)
    ELSE IF v.monthly # Blank THEN Lesser(PresentValue(Whole(v.monthly), AutoRate, AutoTerm), v.price)
    ELSE v.price
Financed(v) == v.method = "LOAN" /\ FinancedPrincipal(v) > 0

PurchaseOf(vehicle) == <<"purchase">> \o vehicle

\* _vehicle_holding_purchases.
VehiclePurchases ==
    {Flowing(PurchaseOf(v.handle),
             [Item(v.price, Every(v.every), Spanning(v.from, v.until)) EXCEPT !.kind = "purchase"]) :
         v \in {w \in PlanVehicles : Owned(w)}}

\* _vehicle_loan_originations.
VehicleLoanOriginations ==
    {[handle |-> VehicleLoan(v.handle), principal |-> FinancedPrincipal(v), rate |-> AutoRate, term |-> AutoTerm,
      extra |-> 0, every |-> v.every, window |-> Spanning(v.from, v.until), vehicle |-> PurchaseOf(v.handle)] :
         v \in {w \in PlanVehicles : Financed(w)}}

\* _lease_vehicle_items: blank and zero amounts emit nothing.
LeaseItems(v) ==
    LET win  == Spanning(v.from, v.until)
        ends == Spanning(AddMonths(v.from, v.every), v.until)
    IN  {f \in {Flowing(<<"lease-down">> \o v.handle, Item(v.down, Every(v.every), win)),
                Flowing(<<"car-payments">> \o v.handle, Item(v.monthly, Monthly, win)),
                Flowing(<<"turn-in">> \o v.handle, Item(v.turnIn, Every(v.every), ends))} :
             f.flow.amounts[1].amount > 0}

\* _lease_operates_until, _leased_operative and _lease_window.
LeaseWindow(x) == Spanning(FrameStart, DayBefore(x.end))
Operative(x) == x.monthly > 0 /\ x.end # NoDate /\ x.end > FrameStart

\* _leased_current_expenses and _vehicle_expenses.
LeaseFlows ==
    {Flowing(<<"car-payments">> \o x.vehicle, Item(x.monthly, Monthly, LeaseWindow(x))) :
         x \in {y \in Leases : Operative(y)}}
        \cup UNION {LeaseItems(v) : v \in {w \in PlanVehicles : w.method = "LEASE"}}

\* What vehicle_disposition_contributions and the sell-possession events sell, and when.
Disposed == {x \in Dispositions : x.kind # "KEEP" /\ IsComplete(x) /\ \E a \in Assets : a.handle = x.vehicle}
PossessionSales ==
    {[holding |-> x.vehicle, on |-> x.on] : x \in Disposed}
        \cup {[holding |-> e.at, on |-> e.on] : e \in {f \in Range(Intents.events) : f.kind = "SELL_POSSESSION"}}

\* The date in the map of possession sales, which a disposition overwrites.
SaleDate(holding) ==
    LET dispositions == {x \in Disposed : x.vehicle = holding}
        sold         == {s \in PossessionSales : s.holding = holding}
    IN  IF dispositions # {} THEN (CHOOSE x \in dispositions : TRUE).on
        ELSE IF sold # {} THEN (CHOOSE s \in sold : TRUE).on ELSE NoDate

\* Mutant of OperatedUntil: a car is operated on the day of its sale too.
OperatedUntilSale(holding) == SaleDate(holding)

\* _operated_until.
OperatedUntil(holding) == IF SaleDate(holding) = NoDate THEN NoDate ELSE DayBefore(SaleDate(holding))

\* _vehicle_windows.
VehicleWindows ==
    {[vehicle |-> v.handle, window |-> Spanning(v.from, v.until)] : v \in PlanVehicles}
        \cup {[vehicle |-> h, window |-> Spanning(FrameStart, OperatedUntil(h))] : h \in Holdings("DEPRECIATING")}
        \cup {[vehicle |-> x.vehicle, window |-> LeaseWindow(x)] : x \in {y \in Leases : Operative(y)}}

RunningCost(cost, vehicle) == <<"running", cost>> \o vehicle

\* _vehicle_running_costs: one billing phase for the fleet, that of the forecast.
RunningCostFlows ==
    {Flowing(RunningCost(c.handle, w.vehicle),
             [Realized(c.smooth, Constant(c.amount), c.every, w.window) EXCEPT
                  !.anchor = IF c.smooth THEN NoDate ELSE FrameStart]) :
         c \in {d \in Range(Intents.runningCosts) : d.amount # Blank}, w \in VehicleWindows}
-----------------------------------------------------------------------------
(* Income. *)

\* _income_flows: the window is the amount's, not the flow's.
IncomeFlows ==
    {LET win  == IF f.handle \in DOMAIN Intents.incomeTiming THEN Intents.incomeTiming[f.handle] ELSE Always
         base == [Item(0, Every(f.every), Always) EXCEPT
                     !.class = f.class, !.source = f.property,
                     !.amounts = <<[amount |-> f.amount, window |-> win]>>]
     IN  Flowing(<<"income">> \o f.handle, IF f.every = 0 THEN [base EXCEPT !.kind = "stream"] ELSE base) :
         f \in Range(Facts.flows)}

TimingOf(subject) ==
    LET entries == {t \in Range(Intents.timing) : t.subject = subject}
    IN  IF entries = {} THEN [pension |-> NoDate, claims |-> NoDate] ELSE CHOOSE t \in entries : TRUE

\* _entitlement_income.
PensionFlows ==
    {Flowing(<<"pension">> \o p.subject,
             [Item(p.amount, Monthly, Spanning(TimingOf(p.subject).pension, NoDate)) EXCEPT
                 !.kind = "stream", !.class = "pension"]) : p \in Range(Facts.pensions)}

\* _social_security_entitlements; what a couple is paid is worked out in SocialSecurity.
BenefitFlows ==
    {Flowing(<<"social-security">> \o e.subject,
             [Item(e.amount, Monthly, Spanning(TimingOf(e.subject).claims, NoDate)) EXCEPT
                 !.kind = "stream", !.class = "benefit"]) :
         e \in {f \in Range(Facts.entitled) : TimingOf(f.subject).claims # NoDate}}
-----------------------------------------------------------------------------
(* Expenses. *)

\* _span_boundaries: the year the first person reaches each age.
SpanBoundaries == [n \in DOMAIN Intents.spans |-> AtYear(Facts.subjects[1].born, Intents.spans[n])]

\* _span_schedule: the amounts stepped over the spans, clipped to the frame.
SpanSchedule(amounts) ==
    LET ages == SpanBoundaries
        from(n)  == IF n = 1 THEN FrameStart ELSE Greater(ages[n - 1], FrameStart)
        until(n) == IF n > Len(ages) THEN FrameEnd ELSE Lesser(DayBefore(ages[n]), FrameEnd)
        level(n) == IF amounts = <<>> THEN 0 ELSE amounts[Lesser(n, Len(amounts))]
        segments == [n \in 1 .. Len(ages) + 1 |-> [amount |-> level(n), window |-> Spanning(from(n), until(n))]]
    IN  SelectSeq(segments, LAMBDA s : s.window.start <= s.window.end)

\* _recurring_expenses.
RecurringFlows ==
    {Flowing(<<"expense">> \o e.handle, Realized(e.smooth, SpanSchedule(e.amounts), e.every, Always)) :
         e \in Range(Intents.recurring)}

RentedHome == <<"rented">>

\* _property_contexts.
PropertyContexts ==
    {[handle |-> a.handle, context |-> a.class] :
         a \in {b \in Assets : b.class \in {"REAL_ESTATE_RESIDENCE", "REAL_ESTATE_RENTAL", "REAL_ESTATE_SECOND_HOME"}}}
        \cup (IF Facts.tenure = "RENT" THEN {[handle |-> RentedHome, context |-> "RENTED_HOME"]} ELSE {})

Costs == Range(Intents.propertyExpenses)
CostAmount(e, property) ==
    IF property \in DOMAIN e.overrides THEN e.overrides[property] ELSE e.amount
Costing(e, p) == p.context \in e.appliesTo /\ CostAmount(e, p.handle) > 0
CostAccount(e, property) == <<"cost", e.handle>> \o property

\* _dormant_rent: never fires until a sale opens it.
Never    == YearEnd(1000)
RentRows == {e \in Costs : e.handle = "rent" /\ e.amount > 0}
DormantRent ==
    IF Holdings("REAL_ESTATE_RESIDENCE") = {} THEN {}
    ELSE {Flowing(CostAccount(e, RentedHome), Item(e.amount, Every(e.every), Spanning(Never, NoDate))) : e \in RentRows}

\* _property_expenses: none is clipped here, a sale ends them.
PropertyFlows ==
    DormantRent \cup UNION
        {{Flowing(CostAccount(e, p.handle),
                  Realized(e.smooth, Constant(CostAmount(e, p.handle)), e.every, Always)) :
             e \in {c \in Costs : Costing(c, p)}} : p \in PropertyContexts}

\* _property_expense_handles.
CostsOf(p, carrying) ==
    {CostAccount(e, p.handle) :
         e \in {c \in Costs : Costing(c, p)
                    /\ (p.context = "REAL_ESTATE_RESIDENCE" /\ c.invariant) = carrying}}

MortgagesOn(property) ==
    {<<d.handle, 0>> : d \in {e \in DebtsOf({"MORTGAGE", "LOAN"}) : Repaid(e) /\ e.secured = property}}

\* _property_data.
PropertyDataOf(p) ==
    [class |-> p.context, mortgages |-> MortgagesOn(p.handle), ownership |-> CostsOf(p, FALSE),
     invariant |-> CostsOf(p, TRUE),
     rent |-> IF p.context = "REAL_ESTATE_RESIDENCE" /\ RentRows # {}
              THEN CostAccount(CHOOSE e \in RentRows : TRUE, RentedHome) ELSE NoHandle]
OwnedProperties == {p \in PropertyContexts : p.context # "RENTED_HOME"}
-----------------------------------------------------------------------------
(* Retirement accounts. *)

Recurring(amount, every, win) == [Item(amount, Every(every), win) EXCEPT !.kind = "recurring"]

\* _contributions: annualized over the ages of the account's owner.
ContributionFlows ==
    {Flowing(<<"contribution">> \o c.account,
             [Recurring(Annualized(Constant(c.amount), c.every)[1].amount, 12,
                        AgeWindow(c.from, c.until, OwnerBorn(c.account))) EXCEPT !.class = "wages"]) :
         c \in Range(Intents.contributions)}

\* _planned_realization: once, on the birthday of the age it starts at, or over the ages.
PlannedRealization(name, x) ==
    LET born == OwnerBorn(x.source) IN
    IF x.every # 0
    THEN {Flowing(name, Recurring(x.amount, x.every, AgeWindow(x.from, x.until, born)))}
    ELSE IF born = NoDate \/ x.from = Blank THEN {} ELSE {Flowing(name, Dated(x.amount, AtYear(born, x.from)))}

RothOf(account) == {a.handle : a \in {b \in Assets : b.class = "ROTH"
                        /\ \E c \in Assets : c.handle = account /\ c.owner = b.owner}}

\* _roth_conversions and _withdrawals; one without its accounts is skipped.
RealizationFlows ==
    UNION {PlannedRealization(<<"conversion">> \o x.source, x) :
               x \in {y \in Range(Intents.conversions) : RothOf(y.source) # {}}}
    \cup UNION {PlannedRealization(<<"withdrawal">> \o x.source, x) :
               x \in {y \in Range(Intents.withdrawals) : \E a \in Assets : a.handle = y.source}}
-----------------------------------------------------------------------------
(* Events. *)

\* _payment_cadence and _payment_window.
Payment(e) ==
    [Item(e.amount, IF e.every = 0 THEN OneTime(e.on) ELSE Every(e.every),
          IF e.every = 0 THEN Always ELSE Spanning(e.on, e.finish)) EXCEPT !.inflate = e.indexed]

\* A receipt is income, a transfer or the sale of part of a holding a dated move.
MoneyOf(e) ==
    CASE e.kind = "PAYMENT"  -> {Payment(e)}
      [] e.kind = "RECEIPT"  -> {Item(e.amount, OneTime(e.on), Always)}
      [] e.kind = "TRANSFER" -> {Dated(e.amount, e.on)}
      [] e.kind \in {"SELL_PROPERTY", "SELL_POSSESSION", "LOAN_PAYOFF", "CARD_PAYOFF"} -> {}

EventFlows ==
    UNION {{Flowing(<<"event", n>>, f) : f \in MoneyOf(Intents.events[n])} : n \in DOMAIN Intents.events}

SaleEvent(e) == [kind |-> "sale", property |-> e.at, on |-> e.on, rentAfter |-> e.rentAfter]
PayoffEvent(loan, on) == [kind |-> "payoff", on |-> on, loan |-> loan]

\* _payoff_loan_handle, for a debt that has a repayment plan.
PayoffsOf(e) == {PayoffEvent(LoanAccount(d), e.on) : d \in {x \in Range(Facts.debts) : x.handle = e.at /\ Repaid(x)}}

\* _secured_loans, in _contribute_possession_sale.
PossessionPayoffs ==
    UNION {{PayoffEvent(LoanAccount(d), s.on) : d \in {x \in Range(Facts.debts) : x.secured = s.holding}} :
               s \in PossessionSales}

\* The part of the schedule a sale or a payoff fills.
ScheduleOf(events) ==
    PossessionPayoffs
        \cup {SaleEvent(e) : e \in {x \in Range(events) : x.kind = "SELL_PROPERTY"}}
        \cup UNION {PayoffsOf(e) : e \in {x \in Range(events) : x.kind = "LOAN_PAYOFF"}}
-----------------------------------------------------------------------------
(* materialize. *)

AllFlows ==
    IncomeFlows \cup PensionFlows \cup BenefitFlows \cup EventFlows \cup RecurringFlows \cup PropertyFlows
        \cup CardFlows \cup LeaseFlows \cup VehiclePurchases \cup RunningCostFlows
        \cup ContributionFlows \cup RealizationFlows

MaterializedFlow     == [n \in {f.name : f \in AllFlows} |-> (CHOOSE f \in AllFlows : f.name = n).flow]
MaterializedProperty == [h \in {p.handle : p \in OwnedProperties} |->
                            PropertyDataOf(CHOOSE p \in OwnedProperties : p.handle = h)]
=============================================================================
