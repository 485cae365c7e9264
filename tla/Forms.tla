--------------------------------- MODULE Forms ---------------------------------
(***************************************************************************)
(* The interview at work: its sections show panes and editors, every change   *)
(* of a field posts the whole pane, and the answer redraws it only where rows  *)
(* may have come or gone.  What stays in the browser is posted again with the  *)
(* next change, by position, over whatever is stored by then.  Next leaves a   *)
(* section for the one after it.                                              *)
(*                                                                         *)
(* stored holds the profile, the plans, the assumptions and the sections seen. *)
(* A page is one pane of a section with the fields it shows; a pane is its     *)
(* name and what it was opened on.                                            *)
(* last and edits are history variables: what the last step was asked for, and *)
(* how many changes there were.                                               *)
(***************************************************************************)
EXTENDS Incomes, Vehicles

CONSTANTS
    Founding,            \* the households the model starts from
    Typeable(_, _),      \* what may be typed into a field of a pane
    NewRows(_, _),       \* the rows that may be typed at the end of a pane's table, over stored
    Filled(_, _, _),     \* the ways to fill in the form of an event: of a pane, over its fields
    MaxEdits,            \* how many changes are made
    LeftAfter            \* the kinds of steps after which the page is left for another

VARIABLES stored, page, last, edits
vars == <<stored, page, last, edits>>

-----------------------------------------------------------------------------
(* The panes and editors, and what each shows of what is stored. *)

MovementPanes == DOMAIN Movement
AdvancedPanes == {"economics", "funding", "taxes", "costs", "networth"}
Tables == {"income", "possessions", "cash"} \cup MovementPanes

\* The sections by the panes and the editors they show.
HoldingSections == [
    home |-> {"residence"}, vehicles |-> {"car"}, otherProperty |-> {"property"}, possessions |-> {"possessions"}]
PersonSections == [
    accounts |-> {"accounts"}, incomes |-> {"income"}, retirementBenefits |-> {"benefits"},
    retirementPlan |-> {"timing"}, contributions |-> {"contributions"},
    taxPlanning |-> {"conversions", "withdrawals"}, debts |-> {"debt"}]
SpendingSections == [
    livingExpenses |-> {"living"}, homeExpenses |-> {"home"}, vehiclePlan |-> {"vehicle", "fate", "lease"},
    vehicleExpenses |-> {"running"}, debtPlan |-> {"cards", "debts"}]
AssumptionSections == [externalFactors |-> {"factors"}, advanced |-> AdvancedPanes]
Sections ==
    [subjects |-> {"subjects"}, events |-> {"add event", "edit event"}, cashPlan |-> {"cash"}]
    @@ HoldingSections @@ PersonSections @@ SpendingSections @@ AssumptionSections
SectionOf(pane) == CHOOSE section \in DOMAIN Sections : pane[1] \in Sections[section]

\* The flows walk the sections that apply; a scenario's plans may lead on to its assumptions.
Flows == <<
    <<"subjects", "accounts", "home", "vehicles", "otherProperty", "incomes", "retirementBenefits", "debts",
      "possessions">>,
    <<"retirementPlan", "contributions", "livingExpenses", "homeExpenses", "vehiclePlan", "vehicleExpenses",
      "debtPlan", "events", "cashPlan", "taxPlanning">>,
    <<"externalFactors", "advanced">> >>
Applicable(p) == DOMAIN Sections \ {section \in {"homeExpenses"} : PropertyColumns(p) = << >>}
Following(section, p) ==
    LET n     == CHOOSE f \in DOMAIN Flows : section \in ToSet(Flows[f])
        flow  == SelectSeq(Flows[n], LAMBDA x : x \in Applicable(p))
        later == {i \in DOMAIN flow : section \in ToSet(SubSeq(flow, 1, i - 1))}
    IN  IF later # {} THEN {flow[Min(later)]}
        ELSE {None} \cup (IF n = 2 THEN {Head(Flows[3])} ELSE {})

\* The panes that are saved with every change; the others are editors.
EditorNames == {"property", "car", "debt", "vehicle", "fate", "lease", "add event", "edit event"}
SelfSaving == UNION {Sections[section] : section \in DOMAIN Sections} \ EditorNames

EventKinds == {"TRANSFER", "SELL_PROPERTY", "SELL_POSSESSION", "TAXABLE_RECEIPT", "TAX_FREE_RECEIPT", "PAYMENT"}
OfferedKinds(p) == {kind \in EventKinds : Offerable(p, kind)}

\* The editors open on a row that exists, or on the handle a new one will have.
HoldingEditors(p) ==
    LET homes == Where(p.properties, LAMBDA a : a.class # "RESIDENCE")
    IN  {<<"property", h>> : h \in HandlesOf(homes) \cup {MintedProperty(p)}}
        \cup {<<"car", h>> : h \in HandlesOf(p.cars) \cup ToSet(p.leased) \cup {MintedCar(p)}}
DebtEditors(p) == {<<"debt", h>> : h \in OwnDebts(p) \cup {MintedDebt(p)}}
VehicleEditors(p, q) ==
    {<<"vehicle", h>> : h \in HandlesOf(VehiclePlanOf(q).future) \cup {MintedFuture(q)}}
    \cup {<<"fate", h>> : h \in HandlesOf(p.cars)} \cup {<<"lease", h>> : h \in ToSet(p.leased)}
EventEditors(p, q) ==
    {<<"add event", kind>> : kind \in OfferedKinds(p)}
    \cup {<<"edit event", i>> : i \in {n \in DOMAIN q.events : EventEditable(p, q.events[n])}}
Editors(s) ==
    HoldingEditors(s.profile) \cup DebtEditors(s.profile)
    \cup VehicleEditors(s.profile, s.plans) \cup EventEditors(s.profile, s.plans)

Shown(pane, s) ==
    LET p == s.profile  q == s.plans  name == pane[1]
    IN  CASE name = "subjects"     -> SubjectsShown(p)
          [] name = "residence"    -> ResidenceShown(p)
          [] name = "income"       -> IncomeShown(p)
          [] name = "timing"       -> TimingShown(p, q)
          [] name = "benefits"     -> BenefitsShown(p)
          [] name \in MovementPanes -> MovementShown(q, name)
          [] name = "accounts"     -> AccountsShown(p)
          [] name = "possessions"  -> PossessionsShown(p)
          [] name = "cards"        -> CardsShown(p, q)
          [] name = "debts"        -> DebtsShown(p, q)
          [] name = "cash"         -> CashShown(q)
          [] name = "living"       -> LivingShown(q)
          [] name = "home"         -> HomeShown(p, q)
          [] name = "running"      -> RunningShown(q)
          [] name = "property"     -> PropertyShown(p, pane[2])
          [] name = "car"          -> CarShown(p, pane[2])
          [] name = "debt"         -> DebtShown(p, pane[2])
          [] name = "vehicle"      -> VehicleShown(q, pane[2])
          [] name = "fate"         -> FateShown(p, q, pane[2])
          [] name = "lease"        -> LeaseShown(q, pane[2])
          [] name = "add event"    -> EventShown(p, pane[2], None)
          [] name = "edit event"   -> EventShown(p, q.events[pane[2]].kind, q.events[pane[2]])
          [] OTHER                 -> AssumptionsShown(s.assumptions, name)

\* What is stored once the fields of a pane have come back.
Facts(s, new) == [s EXCEPT !.profile = new]
Plan(s, new)  == [s EXCEPT !.plans = new]

PostedHousehold(pane, s, f) ==
    LET p == s.profile
    IN  Facts(s, CASE pane[1] = "subjects"  -> SubjectsApplied(p, f)
                   [] pane[1] = "debt"      -> DebtApplied(p, pane[2], f))

PostedResidence(s, f) == Facts(s, ResidenceApplied(s.profile, f))

PostedIncome(pane, s, f) ==
    LET p == s.profile  q == s.plans
    IN  IF pane[1] = "benefits" THEN Facts(s, BenefitsApplied(p, f))
        ELSE [s EXCEPT !.profile = IncomeApplied(p, q, f).profile, !.plans = IncomeApplied(p, q, f).plans]

PostedTiming(s, f) == Plan(s, TimingApplied(s.profile, s.plans, f))

PostedHolding(pane, s, f) ==
    LET p == s.profile
    IN  Facts(s, CASE pane[1] = "possessions" -> PossessionsApplied(p, f)
                   [] pane[1] = "property"    -> PropertyApplied(p, pane[2], f)
                   [] pane[1] = "car"         -> CarApplied(p, pane[2], f))

PostedCash(pane, s, f) ==
    IF pane[1] = "accounts" THEN Facts(s, AccountsApplied(s.profile, f))
    ELSE Plan(s, CashApplied(s.profile, s.plans, f))

PostedPolicy(pane, s, f) ==
    LET p == s.profile  q == s.plans
    IN  Plan(s, CASE pane[1] = "cards" -> CardsApplied(p, q, f)
                  [] pane[1] = "debts" -> DebtsApplied(p, q, f)
                  [] OTHER             -> MovementApplied(p, q, f, pane[1]))

PostedAssumptions(pane, s, f) == [s EXCEPT !.assumptions = AssumptionsApplied(@, pane[1], f)]

PostedExpenses(pane, s, f) ==
    Plan(s, CASE pane[1] = "living"  -> LivingApplied(s.plans, f)
              [] pane[1] = "home"    -> HomeApplied(s.profile, s.plans, f)
              [] pane[1] = "running" -> RunningApplied(s.plans, f))

PostedVehicle(pane, s, f) ==
    LET p == s.profile  q == s.plans
    IN  Plan(s, CASE pane[1] = "vehicle" -> VehicleApplied(q, pane[2], f)
                  [] pane[1] = "fate"    -> FateApplied(p, q, pane[2], f)
                  [] pane[1] = "lease"   -> LeaseApplied(q, pane[2], f))

PostedEvent(pane, s, f) ==
    LET p == s.profile  q == s.plans
    IN  Plan(s, IF pane[1] = "add event" THEN AddEvent(p, q, pane[2], f) ELSE EditEvent(p, q, pane[2], f))

Posting(pane, s, f) ==
    LET name == pane[1]
    IN  CASE name \in {"subjects", "debt"}                     -> PostedHousehold(pane, s, f)
          [] name = "residence"                                -> PostedResidence(s, f)
          [] name \in {"income", "benefits"}                   -> PostedIncome(pane, s, f)
          [] name = "timing"                                   -> PostedTiming(s, f)
          [] name \in {"possessions", "property", "car"}       -> PostedHolding(pane, s, f)
          [] name \in {"accounts", "cash"}                     -> PostedCash(pane, s, f)
          [] name \in {"cards", "debts"} \cup MovementPanes    -> PostedPolicy(pane, s, f)
          [] name \in {"living", "home", "running"}            -> PostedExpenses(pane, s, f)
          [] name \in {"vehicle", "fate", "lease"}             -> PostedVehicle(pane, s, f)
          [] name \in {"add event", "edit event"}              -> PostedEvent(pane, s, f)
          [] OTHER                                             -> PostedAssumptions(pane, s, f)

\* The sections on spending store their defaults, whatever was typed.
SeededLivingExpenses(s) ==
    Plan(s, [s.plans EXCEPT !.living = ByHandle(LivingCatalog, LAMBDA i :
        LET row == Living(s.plans)[i] IN RecurringExpense(row.amounts, row.every, row.calc))])

SeededHomeExpenses(s) ==
    Plan(s, SeededHomeRent(s.profile, [s.plans EXCEPT !.home = HomeRowsKept(Home(s.profile, s.plans))]))

SeededVehicleExpenses(s) ==
    IF s.plans.vehicle = None THEN s
    ELSE Plan(s, [s.plans EXCEPT !.vehicle.running = ByHandle(VehicleCatalog, LAMBDA i :
             VehicleRunningCost(Running(s.plans)[i].amount, Running(s.plans)[i].every))])

SeededDebtPlan(s) == Plan(s, SeededRepayments(s.plans, DebtsOf(s.profile, {"MORTGAGE", "LOAN"})))
SeededVehiclePlan(s) == Plan(s, SeededRepayments(s.plans, DebtsOf(s.profile, {"AUTO"})))

Stored(section, s) ==
    CASE section = "livingExpenses"  -> SeededLivingExpenses(s)
      [] section = "homeExpenses"    -> SeededHomeExpenses(s)
      [] section = "vehicleExpenses" -> SeededVehicleExpenses(s)
      [] section = "debtPlan"        -> SeededDebtPlan(s)
      [] section = "vehiclePlan"     -> SeededVehiclePlan(s)
      [] OTHER                       -> s

\* The first time that a section is shown it is also stored.
Presented(section, s) ==
    IF section \in s.seen THEN s ELSE [Stored(section, s) EXCEPT !.seen = @ \cup {section}]

\* The rows whose number says whether a table is drawn anew.
Lines(pane, s) ==
    CASE pane[1] = "income"         -> Len(General(s.profile))
      [] pane[1] = "possessions"    -> Len(s.profile.possessions)
      [] pane[1] \in MovementPanes  -> Len(s.plans.movements[pane[1]])
      [] OTHER                      -> 0
-----------------------------------------------------------------------------
(* A page in the browser. *)

\* left: something was typed or removed since the page was opened.
\* gone: what the page is open on was removed meanwhile, from the list beside it.
Page(pane, s) == [pane |-> pane, fields |-> Shown(pane, s), left |-> FALSE, gone |-> FALSE]
NoPage == [pane |-> <<"none">>, fields |-> << >>, left |-> TRUE, gone |-> FALSE]

Asked(what) == last' = what /\ edits' = edits + 1 /\ edits < MaxEdits

\* Bounds: a page is left for another once something was done on it, of certain kinds;
\* after Next only the section it led to is gone on with.
Open(pane) ==
    /\ page.left /\ last[1] \in LeftAfter /\ edits < MaxEdits
    /\ pane \in {<<name>> : name \in SelfSaving} \cup Editors(stored)
    /\ SectionOf(pane) \in Applicable(stored.profile)
    /\ last[1] = "next" => SectionOf(pane) = last[2]
    /\ stored' = Presented(SectionOf(pane), stored)
    /\ page' = Page(pane, stored')
    /\ last' = <<"open", pane>>
    /\ UNCHANGED edits

\* Next stores the section, and shows the one that follows with nothing open.
Advance(following) ==
    LET section == SectionOf(page.pane)
        done    == Stored(section, stored)
    IN  /\ page # NoPage /\ page.left /\ following \in Following(section, stored.profile)
        /\ stored' = IF following = None THEN done ELSE Presented(following, done)
        /\ page' = NoPage /\ last' = <<"next", following>>
        /\ UNCHANGED edits

\* The whole pane is posted; it is drawn anew when rows came or went.
Post(f) ==
    LET pane == page.pane
        redrawn == \/ Lines(pane, stored') # Lines(pane, stored)
                   \/ pane[1] = "living" /\ SpansChanged(stored.plans, f)
    IN  /\ stored' = Posting(pane, stored, f)
        /\ page' = [page EXCEPT !.fields = IF redrawn THEN Shown(pane, stored') ELSE f, !.left = TRUE]

\* The birth of the person whose age a field may be entered as.
BornFor(key) ==
    LET p == stored.profile
    IN  CASE page.pane[1] # "timing" \/ Len(key) # 3 -> None
          [] key[2] \in {"from", "until"}            -> BornOf(p, General(p)[key[3]].subject)
          [] OTHER                                   -> p.subjects[key[3]].born

Autosaving == page # NoPage /\ page.pane[1] \notin Sections.events

\* A person is not posted between the name and the birth; what else is posted takes
\* along what was held back.
PairMidEntry(key, f) ==
    page.pane = <<"subjects">> /\ key[1] \in {"named", "born"} /\ HalfEntered(f, key[2])

TypeInto(key, value) ==
    /\ Autosaving /\ key \in DOMAIN page.fields /\ key # TableKey
    /\ value # page.fields[key]
    /\ Asked(<<"type", page.pane, key>>)
    /\ \E f \in {Typed(page.fields, key, value, BornFor(key))} :
          \/ PairMidEntry(key, f) /\ page' = [page EXCEPT !.fields = f, !.left = TRUE] /\ UNCHANGED stored
          \/ ~PairMidEntry(key, f) /\ Post(f)

\* The partner, or the loan on a holding, is dismissed as a whole.
OptionalFields(pane) ==
    CASE pane[1] = "subjects"                       -> {<<"named", 2>>, <<"born", 2>>}
      [] pane[1] \in {"residence", "property", "car"} -> {<<"balance">>} \cup {<<k>> : k \in LoanKeys}
      [] OTHER                                      -> {}

Dismiss ==
    LET filled == {key \in OptionalFields(page.pane) \cap DOMAIN page.fields : page.fields[key] # None}
    IN  /\ filled # {}
        /\ Asked(<<"dismiss", page.pane>>)
        /\ Post([key \in filled |-> None] @@ page.fields)

\* The rows of a table: one is changed, removed, or typed at its end.
ChangeRow(i, field, value) ==
    /\ page.pane[1] \in Tables /\ i \in DOMAIN page.fields[TableKey]
    /\ field \in DOMAIN page.fields[TableKey][i] /\ value # page.fields[TableKey][i][field]
    /\ Asked(<<"row", page.pane, i>>)
    /\ Post([page.fields EXCEPT ![TableKey][i][field] = value])

DropRow(i) ==
    /\ page.pane[1] \in Tables /\ i \in DOMAIN page.fields[TableKey]
    /\ Asked(<<"row", page.pane, i>>)
    /\ Post([page.fields EXCEPT ![TableKey] = RemoveAt(@, i)])

AddRow(row) ==
    /\ page.pane[1] \in Tables
    /\ Asked(<<"new", page.pane>>)
    /\ Post([page.fields EXCEPT ![TableKey] = Append(@, row)])

\* The only span of the table has no button.
DropSpan(n) ==
    /\ page.pane = <<"living">> /\ {<<"until", m>> : m \in {2, n}} \subseteq DOMAIN page.fields
    /\ Asked(<<"type", page.pane, <<"until", n>>>>)
    /\ Post(page.fields @@ (<<"delete">> :> n))

\* The list beside an editor removes one of its holdings; the editor stays as it is.
TakenAway(list, h, s) ==
    /\ page.pane[1] = list
    /\ Asked(<<"remove", list, h>>)
    /\ stored' = s
    /\ page' = [page EXCEPT !.left = TRUE, !.gone = @ \/ page.pane = <<list, h>>]

RemoveProperty(h) ==
    /\ h \in HandlesOf(stored.profile.properties) /\ Having(stored.profile.properties, h).class # "RESIDENCE"
    /\ TakenAway("property", h, Facts(stored, DeleteHolding(stored.profile, h)))

RemoveCar(h) ==
    /\ h \in HandlesOf(stored.profile.cars) \cup ToSet(stored.profile.leased)
    /\ TakenAway("car", h, Facts(stored, DeleteCar(stored.profile, h)))

RemoveDebt(h) ==
    /\ h \in OwnDebts(stored.profile)
    /\ TakenAway("debt", h, Facts(stored, DeleteDebt(stored.profile, h)))

RemoveVehicle(h) ==
    /\ h \in HandlesOf(VehiclePlanOf(stored.plans).future)
    /\ TakenAway("vehicle", h, Plan(stored, DeleteVehicle(stored.plans, h)))

\* The form of an event is posted when it is submitted; the menu takes its place
\* unless the form comes back with its errors.
Submit(f) ==
    LET pane == page.pane
        kind == IF pane[1] = "add event" THEN pane[2] ELSE stored.plans.events[pane[2]].kind
        again == (pane[1] = "edit event" => EditableAt(stored.profile, stored.plans, pane[2]))
                 /\ ~EventValid(stored.profile, kind, f)
    IN  /\ pane[1] \in {"add event", "edit event"}
        /\ Asked(<<"submit", pane>>)
        /\ stored' = Posting(pane, stored, f)
        /\ page' = IF again THEN [page EXCEPT !.fields = f, !.left = TRUE] ELSE NoPage

\* The list of events beside its editor, which stays open.
RemoveEvent(i) ==
    /\ page.pane[1] \in {"add event", "edit event"} /\ i \in DOMAIN stored.plans.events
    /\ Asked(<<"remove event", i>>)
    /\ stored' = [stored EXCEPT !.plans = DeleteEvent(@, i)]
    /\ page' = [page EXCEPT !.left = TRUE, 
                           !.gone = @ \/ (page.pane[1] = "edit event" /\ i <= page.pane[2])]

\* The estimator fills in the government benefit of one person, and its table is redrawn.
ApplyEstimate(s, monthly) ==
    /\ page.pane = <<"benefits">> /\ s \in HandlesOf(stored.profile.subjects)
    /\ Asked(<<"estimate", s>>)
    /\ stored' = [stored EXCEPT !.profile = AppliedGovernmentBenefit(@, s, monthly)]
    /\ page' = [Page(page.pane, stored') EXCEPT !.left = TRUE]

Init ==
    /\ stored \in Founding /\ page = NoPage /\ last = <<"none">> /\ edits = 0

\* The rows of the table on the page.
TableRows == Or(Cell(page.fields, TableKey), << >>)
RowFields == {"amount", "named", "type", "value", "weight", "handle", "account", "count", "from", "until"}

Next ==
    \/ \E pane \in {<<name>> : name \in SelfSaving} \cup Editors(stored) : Open(pane)
    \/ page # NoPage /\ \E following \in Following(SectionOf(page.pane), stored.profile) : Advance(following)
    \/ \E key \in DOMAIN page.fields \ {TableKey} : \E value \in Typeable(page.pane, key) : TypeInto(key, value)
    \/ Dismiss
    \/ \E i \in DOMAIN TableRows : \E field \in RowFields :
          \E value \in Typeable(page.pane, <<"row", field>>) : ChangeRow(i, field, value)
    \/ \E i \in DOMAIN TableRows : DropRow(i)
    \/ \E row \in NewRows(page.pane, stored) : AddRow(row)
    \/ \E n \in DOMAIN stored.plans.spans : DropSpan(n)
    \/ \E h \in HandlesOf(stored.profile.properties) : RemoveProperty(h)
    \/ \E h \in HandlesOf(stored.profile.cars) \cup ToSet(stored.profile.leased) : RemoveCar(h)
    \/ \E h \in HandlesOf(stored.profile.debts) : RemoveDebt(h)
    \/ \E h \in HandlesOf(VehiclePlanOf(stored.plans).future) : RemoveVehicle(h)
    \/ \E f \in Filled(page.pane, page.fields, stored.profile) : Submit(f)
    \/ \E i \in DOMAIN stored.plans.events : RemoveEvent(i)
    \/ \E s \in HandlesOf(stored.profile.subjects) : \E monthly \in Typeable(<<"benefits">>, <<"gov", 1>>) :
          ApplyEstimate(s, monthly)

Spec == Init /\ [][Next]_vars
=============================================================================
