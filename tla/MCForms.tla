------------------------------- MODULE MCForms -------------------------------
(***************************************************************************)
(* A settled couple that owns, lets, leases and owes a little of everything, *)
(* and a single tenant who has answered nothing beyond that.                 *)
(***************************************************************************)
EXTENDS Forms

Month(n) == [count |-> n, unit |-> "MONTH"]
Year(n)  == [count |-> n, unit |-> "YEAR"]
Row(handle, default, every, domain, calc) ==
    [handle |-> handle, default |-> default, every |-> every, domain |-> domain, calc |-> calc]
HomeRow(row, applies, tenantPaid) == row @@ [applies |-> applies, tenantPaid |-> tenantPaid]
EveryDwelling == {"RESIDENCE", "SECOND_HOME", "RENTAL"}

MCLiving  == <<Row("food", 5, Month(1), "MO_YR", None), Row("travel", 2, Year(1), "FIXED", 7)>>
MCHome    == <<HomeRow(Row("rent", 9, Month(1), "FIXED", None), {"RENTED_HOME"}, FALSE),
               HomeRow(Row("utilities", 3, Month(1), "MO_YR", None), EveryDwelling \cup {"RENTED_HOME"}, TRUE),
               HomeRow(Row("upkeep", 4, Year(1), "FIXED", 7), EveryDwelling, FALSE)>>
MCVehicle == <<Row("fuel", 2, Month(1), "MO_YR", None), Row("repairs", 6, Year(1), "FIXED", None)>>

\* Rates are whole percents a month, so that a loan of a few months needs small numbers.
L == INSTANCE Loans WITH MaxPlausibleRate <- [num |-> 5, den |-> 100], MaxPlausibleTerm <- 3
Percent(rate) == [num |-> rate, den |-> 100]
MCLevelPayment(balance, rate, months) ==
    LET paid == L!LevelPayment(balance, Percent(rate), months) IN HalfEven(paid.num, paid.den)
MCRateImplied(balance, payment, months) ==
    IF ~L!PaymentIsPlausible(balance, [num |-> payment, den |-> 1], months) THEN None
    ELSE CHOOSE r \in 0..5 : /\ MCLevelPayment(balance, r, months) >= payment
                             /\ \A lower \in 0..(r - 1) : MCLevelPayment(balance, lower, months) < payment
MCTermImplied(balance, rate, payment) ==
    LET months == L!ResolvedTerm(balance, Percent(rate), [num |-> payment, den |-> 1])
    IN  IF months = 0 THEN None ELSE months

MCDrawdown  == DrawdownPolicy(2, None, <<"STOCKS", "PRETAX">>, << >>, << >>)
MCDrawSources == <<"STOCKS", "PRETAX">>
MCSweepClasses == {"STOCKS"}
MCLiquidClasses == {"CASH", "STOCKS"}
MCSectionFactors == {"inflation", "wages"}
MCAdvancedFactors == {"returns"}
MCFundingFactors == {"funding"}
MCEconomics == [inflation |-> 3, wages |-> 4, returns |-> 5, funding |-> 8]
-----------------------------------------------------------------------------
(* The households. *)

One == <<"subject", 1>>
Two == <<"subject", 2>>
Let == <<"property", 2>>
Car == <<"vehicle", 1>>
Lease == <<"vehicle", 2>>
Card == <<"card", 1>>
Personal == <<"debt", 1>>
Terms(rate, term) == LoanTerms(rate, term, MCLevelPayment(100, rate, term))
Sale == PlanEvent("SELL_PROPERTY", 700, Let)
Gift(on, amount) == [Sale EXCEPT !.kind = "TAX_FREE_RECEIPT", !.at = None, !.on = on, !.amount = amount]
Account(class, owner) == AccountProfile(AccountHandle(class, owner), class, owner, 4)
Taxable == [i \in DOMAIN TaxableAccounts |-> Account(TaxableAccounts[i], None)]
Retirement(who) == [i \in DOMAIN RetirementAccounts |-> Account(RetirementAccounts[i], who)]
NoAssumptions == [economics |-> None, projection |-> None, costs |-> None, latent |-> None]

Couple == [
    profile |-> [
        tenure |-> "OWN", rent |-> None, stateRate |-> 5,
        subjects |-> <<SubjectProfile(One, 0), SubjectProfile(Two, 30)>>,
        flows |-> <<IncomeFlow(<<"income", 1>>, Two, "WAGES", 5, None), IncomeFlow(<<"income", 3>>, None, "ORDINARY", 1, None),
                    IncomeFlow(Let, None, "GROSS_RENTAL", 3, Let)>>,
        government |-> (One :> 2), pensions |-> (Two :> 1),
        accounts |-> Taxable \o Retirement(One) \o Retirement(Two),
        properties |-> <<RealEstate(Residence, "RESIDENCE", 200, 90, None),
                         RealEstate(Let, "RENTAL", 100, 60, PropertyProfile(400, 50, "RENTAL_RESIDENTIAL"))>>,
        cars |-> <<[handle |-> Car, value |-> 20]>>, leased |-> <<Lease>>,
        debts |-> <<Debt(Card, "CARD", 8, None, None), Debt(LoanHandle(Let), "MORTGAGE", 100, Let, Terms(3, 3)),
                    Debt(Personal, "LOAN", 50, None, LoanTerms(2, None, None)),
                    Debt(LoanHandle(Car), "AUTO", 100, Car, Terms(1, 3))>>,
        possessions |-> <<[handle |-> <<"possession", 1>>, class |-> "METALS", value |-> 6]>>],
    plans |-> [
        spans |-> <<65, None>>,
        living |-> ("food" :> RecurringExpense(<<6, 4>>, Month(1), None)) @@ ("travel" :> RecurringExpense(<<2, 3>>, Year(1), 9)),
        home |-> ("rent" :> PropertyExpense(9, << >>, Month(1), None))
                 @@ ("utilities" :> PropertyExpense(3, Let :> 0, Month(1), None))
                 @@ ("upkeep" :> PropertyExpense(4, Residence :> 7, Year(1), 7)),
        rentSnapshot |-> None,
        vehicle |-> [
            running |-> ("fuel" :> VehicleRunningCost(2, Month(1))) @@ ("repairs" :> VehicleRunningCost(6, Year(1))),
            fates |-> << >>,
            leases |-> (Lease :> LeasedVehicleDisposition("BUY_LOAN", 1, 650, [Vehicle EXCEPT !.method = "LOAN", !.price = 15])),
            future |-> <<[Vehicle EXCEPT !.price = 30, !.years = 5] @@ [handle |-> <<"vehicle", 1>>, on |-> 660]>>],
        incomeTiming |-> (<<"income", 1>> :> IncomeTiming(None, 810)),
        timing |-> (One :> [RetirementTiming EXCEPT !.claim = 800, !.lifetime = 1080]) @@ (Two :> [RetirementTiming EXCEPT !.pension = 810]),
        movements |-> [
            contributions |-> <<RetirementMovement(<<"contribution", 2>>, AccountHandle("PRETAX", Two), 1, Month(1), None, 65, "PERSONAL")>>,
            conversions |-> << >>,
            withdrawals |-> <<RetirementMovement(<<"withdrawal", 1>>, AccountHandle("PRETAX", One), 2, None, 70, None, None)>>],
        cards |-> (Card :> CreditCardPlan("COMBO", 2, 640)),
        repayments |-> (LoanHandle(Let) :> LoanRepayment(3, 3)) @@ (LoanHandle(Car) :> LoanRepayment(1, 2)),
        snapshots |-> (LoanHandle(Let) :> Terms(3, 3)) @@ (LoanHandle(Car) :> Terms(1, 3)),
        prepayments |-> (LoanHandle(Let) :> 24),
        events |-> <<Gift(610, 2), PlanEvent("CARD_PAYOFF", 640, Card), Sale, Gift(620, 3)>>,
        drawdown |-> DrawdownPolicy(3, 12, <<"PRETAX">>, << >>, <<[handle |-> AccountHandle("STOCKS", None), weight |-> 1000000]>>)],
    assumptions |-> [economics |-> [MCEconomics EXCEPT !.inflation = 2], projection |-> [type |-> "INDEXED", cola |-> 2],
                     costs |-> 6, latent |-> TRUE],
    seen |-> DOMAIN Sections]

Tenant == [
    profile |-> [Profile EXCEPT !.tenure = "RENT", !.rent = 8, !.subjects = <<SubjectProfile(One, 0)>>,
        !.accounts = Taxable \o Retirement(One)],
    plans |-> Plans(DOMAIN Movement), assumptions |-> NoAssumptions, seen |-> {}]
MCFounding == {Couple, Tenant}
MCLeftAfter == {"none", "next", "new", "remove", "remove event", "estimate"}
-----------------------------------------------------------------------------
(* What is typed. *)

Options(pane, name) ==
    CASE name = "mode"   -> {"carry", "LUMP", "MONTHLY", "COMBO"}
      [] name = "method" -> {"CASH", "LOAN", "LEASE"}
      [] name = "ownership" -> {"OWNED", "LEASED"}
      [] name = "unit"   -> {"MONTH", "YEAR"}
      [] name = "named"  -> {None, Named}
      [] name = "tenure" -> {"OWN", "RENT", "NEITHER"}
      [] name = "kind"   -> IF pane[1] = "debt" THEN {"LOAN", "CARD"}
                            ELSE IF pane[1] = "fate" THEN {"KEEP", "SELL", "REPLACE"} ELSE {"RETURN", "BUY_CASH", "RENEW"}
      [] name = "type"   -> CASE pane[1] = "taxes" -> {"INDEXED", "CURRENT_LAW"}
                             [] pane[1] = "possessions" -> {None} \cup PossessionTypes
                             [] OTHER -> RentalTypes \cup {"SECOND_HOME"}
      [] name = "order"  -> {<<"STOCKS", "PRETAX">>, <<"PRETAX", "STOCKS">>}
      [] name = "retained" -> {<< >>, <<"STOCKS">>}
      [] name = "latent" -> {TRUE, FALSE}

Chosen == {"mode", "method", "ownership", "unit", "kind", "type", "order", "retained", "latent",
           "named", "tenure"}
Required == {"floor", "default", "fee"} \cup DOMAIN MCEconomics
MCTypeable(pane, key) ==
    LET name == IF key[1] = "row" THEN key[2] ELSE key[1]
    IN  CASE name \in Chosen -> Options(pane, name)
          [] name = "account" /\ key[1] = "row" -> {AccountHandle("PRETAX", One)}
          [] name = "handle" -> IF pane[1] = "cash" THEN {AccountHandle("STOCKS", None)} ELSE {}
          [] name \in Required -> {9}
          [] name \in {"date", "target", "payoff", "on", "end", "ends", "acquired"} -> {None, 670}
          [] name \in {"age", "lifetime", "until", "from"} -> {None, 60}
          [] name \in {"count", "months", "term"} -> {None, 2}
          [] name \in {"balance", "payment"} -> {None, 60}
          [] name = "rate" -> {None, 2}
          [] OTHER -> {None, 8}

MCNewRows(pane, s) ==
    CASE pane[1] = "income" -> {[handle |-> None, subject |-> who, amount |-> 4] : who \in {None, One, HouseholdWide}}
      [] pane[1] = "possessions" -> {[handle |-> None, named |-> Named, type |-> "COLLECTIBLES", value |-> v] : v \in {None, 4}}
      [] pane[1] = "cash" -> {[handle |-> AccountHandle("STOCKS", None), weight |-> 50]}
      [] pane[1] \in MovementPanes ->
            {[handle |-> None, account |-> account, amount |-> 3, from |-> None, until |-> 130, source |-> None,
              count |-> None, unit |-> None] : account \in {None, AccountHandle("PRETAX", One)}}
      [] OTHER -> {}

\* A form filled in, and the same with one field otherwise.
Fill(pane, p, key) ==
    CASE key[1] = "on" -> 630
      [] key[1] = "at" -> CHOOSE h \in Offers(p, pane[2]).at : TRUE
      [] key[1] = "to" -> CHOOSE h \in Offers(p, pane[2]).to : TRUE
      [] key[1] \in {"recurring", "rents", "indexed"} -> FALSE
      [] key[1] = "until" -> 640
      [] key[1] = "count" -> 1
      [] key[1] = "unit" -> "YEAR"
      [] OTHER -> 5
Otherwise(key) ==
    CASE key[1] \in {"recurring", "rents", "indexed"} -> {TRUE}
      [] key[1] = "until" -> {None, 600}
      [] key[1] = "count" -> {2}
      [] key[1] = "to" -> {AccountHandle("STOCKS", None)}
      [] key[1] = "at" -> {None}
      [] key[1] = "unit" -> {}
      [] OTHER -> {None, 650}
MCFilled(pane, f, p) ==
    CASE pane[1] = "add event" ->
            LET whole == [key \in DOMAIN f |-> Fill(pane, p, key)]
            IN  {whole} \cup UNION {{[whole EXCEPT ![key] = v] : v \in Otherwise(key)} : key \in DOMAIN f}
                \cup (IF <<"recurring">> \in DOMAIN f
                      THEN {[whole EXCEPT ![<<"recurring">>] = TRUE, ![<<"until">>] = v] : v \in {None, 600}} ELSE {})
      [] pane[1] = "edit event" ->
            {f} \cup UNION {{[f EXCEPT ![key] = v] : v \in Otherwise(key)} : key \in DOMAIN f}
      [] OTHER -> {}
-----------------------------------------------------------------------------
(* Items: every thing that the panes are about, under its kind and handle,    *)
(* with what they show of it.                                                 *)

Keyed(kind, handles, Value(_)) == [k \in {<<kind, h>> : h \in handles} |-> Value(k[2])]
OwnEvents(q) == Where(q.events, LAMBDA e : e.kind \notin PayoffKinds)
Cost(r, h) == Or(Cell(r.overrides, h), r.default)

ItemsOfFacts(p) == Together(<<
    Keyed("subject", HandlesOf(p.subjects), LAMBDA h : Having(p.subjects, h)),
    <<"state">> :> p.stateRate, <<"tenure">> :> p.tenure, <<"homeRent">> :> p.rent,
    Keyed("flow", HandlesOf(General(p)), LAMBDA h : Having(General(p), h)),
    Keyed("rent", HandlesOf(Rentals(p)), LAMBDA h : RentOf(p, h)),
    Keyed("gov", HandlesOf(p.subjects), LAMBDA s : Cell(p.government, s)),
    Keyed("pension", HandlesOf(p.subjects), LAMBDA s : Cell(p.pensions, s)),
    Keyed("account", HandlesOf(p.accounts), LAMBDA h : Having(p.accounts, h)),
    Keyed("property", HandlesOf(p.properties), LAMBDA h : Having(p.properties, h)),
    Keyed("car", HandlesOf(p.cars), LAMBDA h : Having(p.cars, h)),
    Keyed("leased", ToSet(p.leased), LAMBDA h : TRUE),
    Keyed("debt", HandlesOf(p.debts), LAMBDA h : Having(p.debts, h)),
    Keyed("possession", HandlesOf(p.possessions), LAMBDA h : Having(p.possessions, h))>>)

ItemsOfPlans(p, q) ==
    LET loans == HandlesOf(DebtsOf(p, {"MORTGAGE", "LOAN", "AUTO"}))
        OnDebt(h) == Having(p.debts, h)
        kinds == <<"contributions", "conversions", "withdrawals">>
    IN Together(<<
        Keyed("window", HandlesOf(General(p)), LAMBDA h : WindowOf(q, h)),
        \* A lifetime is typed as an age, and its date is told anew from the birth at every save.
        Keyed("timing", HandlesOf(p.subjects), LAMBDA s : [TimingOf(q, s) EXCEPT !.lifetime =
            IF @ = None \/ BornOf(p, s) = None THEN None ELSE AgeOn(BornOf(p, s), @)]),
        Keyed("card", HandlesOf(DebtsOf(p, {"CARD"})), LAMBDA h : Cell(q.cards, h)),
        Keyed("payoff", HandlesOf(p.debts), LAMBDA h : PayoffsOf(q, "CARD_PAYOFF", {h}) \o PayoffsOf(q, "LOAN_PAYOFF", {h})),
        Keyed("repaid", loans, LAMBDA h : <<SeededTerms(q, OnDebt(h)), Preserved(q, OnDebt(h))>>),
        Keyed("prepaid", loans, LAMBDA h : Cell(q.prepayments, h)),
        Keyed("event", DOMAIN OwnEvents(q), LAMBDA n : OwnEvents(q)[n]),
        Keyed("future", HandlesOf(VehiclePlanOf(q).future), LAMBDA h : Having(VehiclePlanOf(q).future, h)),
        Keyed("fate", HandlesOf(p.cars), LAMBDA h : Cell(VehiclePlanOf(q).fates, h)),
        Keyed("lease", ToSet(p.leased), LAMBDA h : Cell(VehiclePlanOf(q).leases, h)),
        Keyed("running", DOMAIN VehicleCatalog, LAMBDA i : Running(q)[i]),
        Keyed("living", DOMAIN LivingCatalog, LAMBDA i : Living(q)[i]),
        Keyed("cash", {"floor", "ceiling", "order", "retained", "sweep"}, LAMBDA x :
            CASE x = "sweep" -> SweepRows(q) [] x = "order" -> DrawRows(q) [] OTHER -> Drawdown(q)[x]),
        <<"spans">> :> q.spans>>
        \o [n \in 1..3 |-> Keyed(kinds[n], HandlesOf(q.movements[kinds[n]]),
                                 LAMBDA h : Having(q.movements[kinds[n]], h))])

ItemsOfHomes(p, q) ==
    LET rows == HomeRows(p, q)
        Costs(i) == {<<"cost", rows[i].handle, h>> : h \in {c \in ToSet(PropertyColumns(p)) : Applies(p, rows[i], c)}}
    IN  Together([i \in DOMAIN rows |->
            (<<"home", rows[i].handle>> :> <<rows[i].every, rows[i].calc>>)
            @@ (IF Collapsed(p) THEN << >> ELSE <<"default", rows[i].handle>> :> rows[i].default)
            @@ [k \in Costs(i) |-> Cost(rows[i], k[3])]])

ItemsOfAssumptions(a) ==
    Keyed("rate", DOMAIN Economics(a), LAMBDA x : Economics(a)[x])
    @@ (<<"projection">> :> Or(a.projection, Projection(ForecastType(a), Economics(a))))
    @@ (<<"costs">> :> Or(a.costs, DefaultCosts)) @@ (<<"latent">> :> Or(a.latent, DefaultLatent))

Items(s) ==
    ItemsOfFacts(s.profile) @@ ItemsOfPlans(s.profile, s.plans)
    @@ ItemsOfHomes(s.profile, s.plans) @@ ItemsOfAssumptions(s.assumptions)

\* What a holding is the subject of.
OfHolding(h) ==
    {<<kind, h>> : kind \in {"property", "car", "leased", "rent", "fate", "lease"}}
    \cup {<<kind, LoanHandle(h)>> : kind \in {"debt", "payoff", "repaid", "prepaid"}}
    \cup {<<"cost", HomeCatalog[i].handle, h>> : i \in DOMAIN HomeCatalog}
HomeWide == {<<kind, HomeCatalog[i].handle>> : kind \in {"home", "default"}, i \in DOMAIN HomeCatalog}

\* What is a person's, and what is a debt's.
OfPerson(p, s) ==
    {<<kind, s>> : kind \in {"subject", "gov", "pension", "timing"}}
    \cup {<<"account", AccountHandle(class, s)>> : class \in ToSet(RetirementAccounts)}
    \cup {<<kind, w.handle>> : kind \in {"flow", "window"}, w \in {x \in ToSet(p.flows) : x.subject = s}}
OfDebt(h) == {<<kind, h>> : kind \in {"debt", "card", "payoff", "repaid", "prepaid"}}

\* Nobody half entered is held, nor a partner of nobody.
Persons(p, n) == UNION {OfPerson(p, People[m]) : m \in n..2}
HeldBack == UNION {Persons(stored.profile, n) : n \in {m \in 1..2 : HalfEntered(page.fields, m)}}

\* The items that a field, or a row of a table, is about.
About(pane, key) ==
    LET p == stored.profile  q == stored.plans  name == pane[1]  x == key[1]
        RowAt(i) == HomeRows(p, q)[i].handle
    IN  CASE name = "subjects" -> HeldBack
                                  \cup IF x = "stateRate" THEN {<<"state">>} ELSE Persons(p, key[2])
          [] name = "residence" -> {<<IF x = "rent" THEN "homeRent" ELSE x>>}
                                   \cup IF x = "rent" THEN {} ELSE OfHolding(Residence) \cup HomeWide
                                   \cup IF x # "tenure" THEN {} ELSE OfHolding(RentedHome) \cup {<<"homeRent">>}
          [] name = "debt"     -> OfDebt(pane[2])
          [] name = "income"   -> {<<"rent", Rentals(p)[key[2]].handle>>}
          [] name = "timing"   -> IF x = "lifetime" THEN {<<"timing", p.subjects[key[2]].handle>>}
                                  ELSE IF key[2] \in {"from", "until"} THEN {<<"window", General(p)[key[3]].handle>>}
                                  ELSE {<<"timing", p.subjects[key[3]].handle>>}
          [] name = "benefits" -> {<<x, p.subjects[key[2]].handle>>}
          [] name = "accounts" -> {key}
          [] name = "cards"    -> {<<"card", key[2]>>, <<"payoff", key[2]>>}
          [] name = "debts"    -> {<<kind, key[2]>> : kind \in {"repaid", "prepaid", "payoff"}}
          [] name = "cash"     -> {<<"cash", x>>} \cup IF x = "ceiling" THEN {<<"cash", "sweep">>} ELSE {}
          [] name = "living"   -> IF x = "until" THEN {<<"spans">>} \cup {<<"living", i>> : i \in DOMAIN LivingCatalog}
                                  ELSE {<<"living", IF x = "amount" THEN key[2] ELSE key[3]>>}
          [] name = "home"     -> IF x = "default" THEN {<<"default", RowAt(key[2])>>}
                                       \cup {<<"cost", RowAt(key[2]), h>> : h \in ToSet(PropertyColumns(p))}
                                  ELSE IF x = "override" THEN {<<"cost", RowAt(key[2]), PropertyColumns(p)[key[3]]>>}
                                  ELSE {<<"home", RowAt(key[3])>>}
          [] name = "running"  -> {<<"running", IF x = "running" THEN key[2] ELSE key[3]>>}
          [] name \in {"property", "car"} -> OfHolding(pane[2]) \cup HomeWide
          [] name = "vehicle"  -> {<<"future", pane[2]>>}
          [] name = "fate"     -> IF x \in {"months", "rate", "paying"} THEN {<<"repaid", LoanHandle(pane[2])>>}
                                  ELSE {<<"fate", pane[2]>>}
          [] name = "lease"    -> {<<"lease", pane[2]>>}
          [] name = "taxes"    -> {<<"projection">>}
          [] name = "costs"    -> {<<"costs">>}
          [] name = "networth" -> {<<"latent">>}
          [] OTHER             -> {<<"rate", x>>} \cup IF x = "inflation" THEN {<<"projection">>} ELSE {}

Dismissed(pane) ==
    CASE pane[1] = "subjects"  -> OfPerson(stored.profile, Two) \cup HeldBack
      [] pane[1] = "residence" -> OfDebt(LoanHandle(Residence))
      \* The editor of a holding that was removed meanwhile brings it back.
      [] page.gone             -> OfHolding(pane[2]) \cup HomeWide
      [] OTHER                 -> OfDebt(LoanHandle(pane[2]))

TableKind(pane) == IF pane[1] = "income" THEN "flow" ELSE IF pane[1] = "possessions" THEN "possession" ELSE pane[1]
AboutRow(pane, row) ==
    CASE pane[1] = "cash" -> {<<"cash", "ceiling">>, <<"cash", "sweep">>}
      [] row.handle = None -> {}
      [] OTHER -> {<<TableKind(pane), row.handle>>, <<"window", row.handle>>}

\* Seeding stores what is shown already, the tenant's rent excepted, which comes from the profile.
SeededRent == {<<kind, "rent">> : kind \in {"home", "default"}} \cup {<<"cost", "rent", RentedHome>>}

\* What the step at hand was asked to change, and the kinds it may make one more of.
Meant ==
    CASE last'[1] = "type"   -> About(last'[2], last'[3])
      [] last'[1] = "dismiss" -> Dismissed(last'[2])
      [] last'[1] = "row"    -> AboutRow(last'[2], page.fields[TableKey][last'[3]])
      [] last'[1] = "new"    -> AboutRow(last'[2], [handle |-> None])
      [] last'[1] = "remove" -> OfHolding(last'[3]) \cup OfDebt(last'[3]) \cup HomeWide \cup {<<"future", last'[3]>>}
      [] last'[1] = "estimate" -> {<<"gov", last'[2]>>}
      [] last'[1] = "submit" -> IF last'[2][1] = "add event" THEN {} ELSE IF page.gone THEN DOMAIN Items(stored)
                                ELSE {<<"event", Len(Where(SubSeq(stored.plans.events, 1, last'[2][2]),
                                                           LAMBDA e : e.kind \notin PayoffKinds))>>}
      [] last'[1] = "remove event" -> {<<kind, stored.plans.events[last'[2]].at>> : kind \in {"payoff", "card"}}
                                      \cup {<<"event", n>> : n \in DOMAIN stored.plans.events}
      [] OTHER -> SeededRent
\* A vehicle plan with no amount and nothing planned is no plan, which shows the
\* catalog's amounts again (plan_has_content, merged_vehicle_costs).
Emptied == IF stored'.plans.vehicle = None THEN {<<"running", i>> : i \in DOMAIN VehicleCatalog} ELSE {}
MadeBy ==
    CASE last'[1] \in {"row", "new"} -> {TableKind(last'[2]), "window"}
      [] last'[1] = "submit" /\ last'[2][1] = "add event" -> {"event"}
      [] OTHER -> {}
-----------------------------------------------------------------------------
\* An edit changes what it is about and nothing else: the row a field belongs to on the
\* page is the row it is stored under, in every pane that names its rows by position,
\* whatever else the save rewrites (SelfSavingPaneView.persist and the forms' apply).  To be
\* shown a section, and to leave it with Next, changes nothing that was decided either
\* (InterviewView._seed_and_acknowledge, the section forms' apply).
OnlyTheTypedRowChanges ==
    [][
          \A before \in {Items(stored)}, after \in {Items(stored')}, meant \in {Meant \cup Emptied} :
             \A x \in DOMAIN before \cup DOMAIN after :
                \/ x \in DOMAIN before /\ x \in DOMAIN after /\ before[x] = after[x]
                \/ x \in meant
                \/ x \notin DOMAIN before /\ x[1] \in MadeBy]_vars

\* Payoffs are listed among the events exactly while the plan they come from has them, and
\* on its date: cards by their plans, loans only while they are repaid.
PayoffsMirrorPlans ==
    LET q == stored.plans
        Of(kind) == {e \in ToSet(q.events) : e.kind = kind}
    IN  /\ \A i, j \in DOMAIN q.events :
              q.events[i].kind \in PayoffKinds /\ q.events[i].kind = q.events[j].kind /\ q.events[i].at = q.events[j].at
              => i = j
        /\ {<<e.at, e.on>> : e \in Of("CARD_PAYOFF")}
           = {<<h, q.cards[h].target>> : h \in {c \in DOMAIN q.cards : q.cards[c].mode \in PayoffModes}}
        /\ {e.at : e \in Of("LOAN_PAYOFF")} \subseteq DOMAIN q.repayments
=============================================================================
